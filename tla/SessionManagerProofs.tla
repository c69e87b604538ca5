------------------------ MODULE SessionManagerProofs ------------------------
(***************************************************************************)
(* Theorems about SessionManager, for any clients, sessions, ceilings,     *)
(* requests and number of calls.                                           *)
(***************************************************************************)
EXTENDS SessionManager, TLAPS

(***************************************************************************)
(* Policies.                                                               *)
(***************************************************************************)
\* Inheriting unset fields from a policy yields a policy.
LEMMA EffectivePolicyTyped ==
    ASSUME NEW r \in Requests, NEW q \in Policies
    PROVE  EffectivePolicy(r, q) \in Policies
  BY DEF Requests, Policies, PoliciesOver, EffectivePolicy, WithInheritedUnset,
         CeilingInForce, InheritLimit, WriteModes, Unset

\* safety_policy.go: a request without negative limits that is admitted under a
\* ceiling runs under a policy that permits nothing the ceiling forbids.
LEMMA AdmittedNoWider ==
    ASSUME NEW r \in NonNegativeRequests, NEW q \in Policies, NEW N \in SUBSET Nat,
           Admitted(r, q)
    PROVE  NoWider(EffectivePolicy(r, q), q, N)
  <1> DEFINE p == EffectivePolicy(r, q)
  <1>1. CeilingInForce(q) = q
    BY DEF CeilingInForce, Policies, PoliciesOver, WriteModes, Unset
  <1>2. /\ p.mode \in WriteModes /\ q.mode \in WriteModes
        /\ writeModeRank(p.mode) <= writeModeRank(q.mode)
    BY <1>1 DEF Admitted, PolicyWithinCeiling, EffectivePolicy, WithInheritedUnset,
       NonNegativeRequests, Policies, PoliciesOver, WriteModes, Unset
  <1>3. AllowWrite(p) => AllowWrite(q)
    BY <1>2 DEF AllowWrite, writeModeRank, WriteModes
  <1>4. ASSUME NEW n \in N
        PROVE  CheckWriteSize(p, n) => CheckWriteSize(q, n)
    <2>1. p.mode = "write-limited" /\ q.mode = "write-limited" =>
             ~ LimitExceeded(p.maxWriteBytes, q.maxWriteBytes)
      BY <1>1 DEF Admitted, PolicyWithinCeiling
    <2>2. /\ p.maxWriteBytes \in Int /\ q.maxWriteBytes \in Int
          /\ q.maxWriteBytes > 0 => p.maxWriteBytes > 0
      BY <1>1 DEF EffectivePolicy, WithInheritedUnset, InheritLimit,
         NonNegativeRequests, Policies, PoliciesOver
    <2>3. q.mode = "write-limited" /\ AllowWrite(p) => p.mode = "write-limited"
      BY <1>2 DEF AllowWrite, writeModeRank, WriteModes
    <2>4. LimitExceeded(n, q.maxWriteBytes) /\ ~ LimitExceeded(p.maxWriteBytes, q.maxWriteBytes)
             => LimitExceeded(n, p.maxWriteBytes)
      BY <2>2 DEF LimitExceeded
    <2> QED BY <1>3, <2>1, <2>3, <2>4 DEF CheckWriteSize
  <1>5. ASSUME NEW n \in N
        PROVE  PipelineAllowed(p, n) => PipelineAllowed(q, n)
    BY <1>1 DEF PipelineAllowed, LimitExceeded, Admitted, PolicyWithinCeiling,
       EffectivePolicy, WithInheritedUnset, InheritLimit, NonNegativeRequests,
       Policies, PoliciesOver
  <1>6. ASSUME NEW n \in N
        PROVE  OutputAllowed(p, n) => OutputAllowed(q, n)
    BY <1>1 DEF OutputAllowed, LimitExceeded, Admitted, PolicyWithinCeiling,
       EffectivePolicy, WithInheritedUnset, InheritLimit, NonNegativeRequests,
       Policies, PoliciesOver
  <1>7. ASSUME NEW n \in N
        PROVE  TimeAllowed(p, n) => TimeAllowed(q, n)
    BY <1>1 DEF TimeAllowed, LimitExceeded, Admitted, PolicyWithinCeiling,
       EffectivePolicy, WithInheritedUnset, InheritLimit, NonNegativeRequests,
       Policies, PoliciesOver
  <1> QED BY <1>4, <1>5, <1>6, <1>7 DEF NoWider
-----------------------------------------------------------------------------
(***************************************************************************)
(* Types.  TypeOK alone is not inductive: a step uses the runtime of its   *)
(* session, which is Nil in a closed one.  That it is not Nil then is what *)
(* the critical sections keep, so the two are proved together.             *)
(***************************************************************************)
\* The local variables of a call fit where it is.
Locals ==
    \A c \in Clients :
        /\ pc[c] \in {"install", "run", "settle", "observe"} => call[c].op = "execute"
        /\ pc[c] \in {"store", "hook"} => call[c].op \in {"checkpoint", "close"}
        /\ pc[c] \in {"rebuild", "reopen"} => call[c].op = "resume"
        /\ pc[c] = "reopen" => scratch[c] # Nil
        /\ narrowed[c] => scratch[c] # Nil
        /\ pc[c] \in Held \cup {"lock"} => life[SessionOf(c)] # "absent"

\* The open sessions are those that have a runtime.
OpenHasRuntime == \A s \in Sessions : (runtime[s] = Nil) <=> (life[s] # "open")

Base == TypeOK /\ CriticalSections /\ Locals /\ OpenHasRuntime

\* The requests of a client are calls.
LEMMA RequestsTyped ==
    /\ NoCall \in Calls
    /\ \A op \in Ops, s \in Sessions, ask \in Requests, blank \in BOOLEAN, e \in Nat :
          Request(op, s, ask, blank, e) \in Calls
    /\ NoRequest \in Requests
  <1>1. NoRequest \in Requests
    BY DEF NoRequest, Requests, PoliciesOver
  <1>2. ASSUME NEW op \in Ops, NEW s \in Sessions, NEW ask \in Requests,
               NEW blank \in BOOLEAN, NEW e \in Nat
        PROVE  Request(op, s, ask, blank, e) \in Calls
    BY DEF Request, Calls
  <1>3. /\ (CHOOSE s \in Sessions : TRUE) \in Sessions
        /\ "none" \in Ops /\ NoExec \in Nat /\ FALSE \in BOOLEAN
    BY SessionsAssumption DEF Ops, NoExec
  <1> QED BY <1>1, <1>2, <1>3 DEF NoCall

\* The operators on snapshots and runtimes yield snapshots and runtimes.
LEMMA SnapshotsTyped ==
    /\ \A snap \in Snapshots :
          /\ WithoutExecution(snap) \in Snapshots
          /\ \A e \in Nat : WithExecution(snap, e) \in Snapshots
          /\ \A g \in Nat : Projected(snap, g) \in Snapshots
          /\ \A rt \in Runtimes : MergeSessionState(snap, rt) \in Snapshots
          /\ \A p \in Policies, g \in Nat : BuildRuntime(snap, p, g) \in Runtimes
    /\ \A d \in Dirs, g \in Nat : NewSnapshot(d, g) \in Snapshots
  BY DEF Snapshots, Runtimes, Statuses, WithoutExecution, WithExecution, Projected,
         MergeSessionState, BuildRuntime, NewSnapshot, NoExec

\* Cancel answers with one of the known errors, or goes on.
LEMMA RefusalTyped ==
    ASSUME NEW s \in Sessions, NEW e \in Nat
    PROVE  CancelRefusal(s, e) \in Replies
  BY DEF CancelRefusal, Replies

\* The names the actions use are those of the types.
LEMMA NamesTyped ==
    /\ {"idle", "lock", "install", "run", "settle", "observe", "store", "hook", "rebuild",
        "reopen", "cancel", "fire"} = Locations
    /\ {"ok", "not_found", "closed", "ceiling", "runtime", "adapter"} \subseteq Replies
    /\ {"cancel", "execute", "checkpoint", "close", "resume"} \subseteq Ops
    /\ NoExec \in Nat
  BY DEF Locations, Replies, Ops, NoExec

\* The ways a step goes through its call keep the types of its local variables.
LEMMA ReturnTyped ==
    ASSUME LocalTypes, NEW c \in Clients, NEW r \in Replies, Return(c, r)
    PROVE  LocalTypes'
  BY RequestsTyped, NamesTyped DEF LocalTypes, Return, Goto

\* A step inside a call keeps the types of what it does not set itself.
LEMMA ContinueTyped ==
    ASSUME LocalTypes, NEW c \in Clients, NEW l \in Locations, Continue(c, l)
    PROVE  /\ pc' \in [Clients -> Locations]
           /\ call' \in [Clients -> Calls]
           /\ reply' \in [Clients -> Replies]
  BY DEF LocalTypes, Continue, Goto

\* A new call is well-typed.
LEMMA EnterTyped ==
    ASSUME LocalTypes, ExecTypes, NEW c \in Clients, NEW k \in Calls, NEW l \in Locations,
           Enter(c, k, l)
    PROVE  LocalTypes' /\ calls' \in Nat
  BY DEF LocalTypes, ExecTypes, Enter, Goto, local, Replies

\* A call that is over in one step keeps the types.
LEMMA AnswerTyped ==
    ASSUME LocalTypes, ExecTypes, NEW c \in Clients, NEW r \in Replies, Answer(c, r)
    PROVE  LocalTypes' /\ calls' \in Nat
  BY DEF LocalTypes, ExecTypes, Answer, local

\* Locking and unlocking executeMu keeps its type.
LEMMA LocksTyped ==
    ASSUME LockTypes, NEW c \in Clients, LockExecute(c) \/ UnlockExecute(c) \/ PassExecute(c)
    PROVE  executeMu' \in [Sessions -> Clients \cup {Free}]
  BY DEF LockTypes, LockExecute, UnlockExecute, PassExecute

\* Clearing a slot keeps the types of the record.
LEMMA SlotTyped ==
    ASSUME RecordTypes, NEW s \in Sessions, ClearSlot(s)
    PROVE  /\ snapshot' \in [Sessions -> Snapshots]
           /\ control' \in [Sessions -> Nat]
  BY SnapshotsTyped, NamesTyped DEF RecordTypes, ClearSlot

\* Checkpoint and Close store well-typed records.
LEMMA StoreTyped ==
    ASSUME TypeOK, NEW c \in Clients, SessionOf(c) \in Sessions,
           NEW next \in Snapshots, StoreSession(c, next)
    PROVE  /\ snapshot' \in [Sessions -> Snapshots]
           /\ checkpoint' \in [Sessions -> Snapshots]
           /\ life' \in [Sessions -> {"absent", "open", "closed"}]
           /\ runtime' \in [Sessions -> Runtimes \cup {Nil}]
           /\ control' \in [Sessions -> Nat]
  <1>1. CASE CheckpointStore(SessionOf(c), next)
    BY <1>1 DEF TypeOK, RecordTypes, CheckpointStore
  <1>2. CASE CloseStore(SessionOf(c), next)
    <2>1. WithoutExecution(next) \in Snapshots
      BY SnapshotsTyped
    <2> QED BY <1>2, <2>1, NamesTyped DEF TypeOK, RecordTypes, CloseStore
  <1> QED BY <1>1, <1>2 DEF StoreSession

\* The runtime that a call in its critical section uses is one.
LEMMA RuntimeThere ==
    ASSUME Base, NEW c \in Clients
    PROVE  /\ SessionOf(c) \in Sessions
           /\ pc[c] \in Held \ {"rebuild", "reopen"} => runtime[SessionOf(c)] \in Runtimes
           /\ pc[c] \in {"run", "settle", "observe"} => RuntimeOf(c) \in Runtimes
  <1>1. SessionOf(c) \in Sessions
    BY DEF Base, TypeOK, LocalTypes, SessionOf, Calls
  <1>2. pc[c] \in Held \ {"rebuild", "reopen"} => runtime[SessionOf(c)] \in Runtimes
    BY <1>1 DEF Base, TypeOK, RecordTypes, CriticalSections, IsClosed
  <1>3. narrowed[c] => scratch[c] \in Runtimes
    BY DEF Base, TypeOK, LocalTypes, Locals
  <1> QED BY <1>1, <1>2, <1>3 DEF RuntimeOf, Held

\* The state is well-typed at first.
LEMMA InitBase == Init => Base
  <1> SUFFICES ASSUME Init PROVE Base
    OBVIOUS
  <1>1. AnyDir \in Dirs
    BY SessionsAssumption DEF AnyDir
  <1>2. NewSnapshot(AnyDir, 0) \in Snapshots
    BY <1>1, SnapshotsTyped
  <1>3. DefaultPolicy \in Policies
    BY DEF DefaultPolicy, Policies, PoliciesOver, WriteModes
  <1>4. TypeOK
    BY <1>1, <1>2, <1>3, RequestsTyped
    DEF Init, TypeOK, LockTypes, RecordTypes, ExecTypes, LocalTypes, GhostTypes, NoExec,
        Locations, Replies
  <1> QED
    BY <1>4 DEF Init, Base, CriticalSections, Held, Locals, OpenHasRuntime

\* Every step keeps the state well-typed.
LEMMA NextTyped ==
    ASSUME Base, [Next]_vars
    PROVE  TypeOK'
  <1> USE DEF LockTypes, RecordTypes, ExecTypes, GhostTypes, locks, records, global, ghosts
  <1>t. LockTypes /\ RecordTypes /\ ExecTypes /\ LocalTypes /\ GhostTypes
    BY DEF Base, TypeOK
  <1>s. ASSUME NEW c \in Clients
        PROVE  /\ SessionOf(c) \in Sessions
               /\ call[c].ask \in Requests /\ call[c].expect \in Nat
    BY <1>t DEF LocalTypes, SessionOf, Calls
  <1>c. ASSUME NEW c \in Clients, NEW s \in Sessions, NEW d \in Dirs, NEW p \in Ceilings,
               Create(c, s, d, p)
        PROVE  TypeOK'
    <2>1. LocalTypes' /\ calls' \in Nat
      BY <1>t, <1>c, AnswerTyped, NamesTyped DEF Create
    <2>2. /\ p \in Policies /\ FirstGeneration(s) \in Nat
          /\ NewSnapshot(d, FirstGeneration(s)) \in Snapshots
      BY SessionsAssumption, SnapshotsTyped DEF FirstGeneration
    <2>3. BuildRuntime(NewSnapshot(d, FirstGeneration(s)), p, FirstGeneration(s)) \in Runtimes
      BY <2>2, SnapshotsTyped
    <2> QED BY <1>t, <1>c, <2>1, <2>2, <2>3 DEF Create, TypeOK
  <1>g. ASSUME NEW c \in Clients, NEW s \in Sessions, Get(c, s)
        PROVE  TypeOK'
    <2>1. LocalTypes' /\ calls' \in Nat
      BY <1>t, <1>g, AnswerTyped, NamesTyped DEF Get
    <2>2. /\ snapshot' \in [Sessions -> Snapshots]
          /\ control' \in [Sessions -> Nat]
      BY <1>t, <1>g, SlotTyped DEF Get
    <2> QED BY <1>t, <1>g, <2>1, <2>2 DEF Get, TypeOK
  <1>cc. ASSUME NEW c \in Clients, NEW s \in Sessions, NEW expect \in KnownExecs,
                CancelCall(c, s, expect)
         PROVE  TypeOK'
    <2>0. expect \in Nat /\ "cancel" \in Ops
      BY <1>t, NamesTyped DEF KnownExecs
    <2>1. Request("cancel", s, NoRequest, FALSE, expect) \in Calls
      BY <2>0, RequestsTyped
    <2>2. LocalTypes' /\ calls' \in Nat
      BY <1>t, <1>cc, <2>1, EnterTyped, NamesTyped DEF CancelCall
    <2> QED BY <1>t, <1>cc, <2>2 DEF CancelCall, TypeOK
  <1>lm. ASSUME NEW c \in Clients, NEW op \in Ops, NEW s \in Sessions,
                NEW ask \in Requests, NEW blank \in BOOLEAN,
                LookupManaged(c, op, s, ask, blank)
         PROVE  TypeOK'
    <2>1. Request(op, s, ask, blank, NoExec) \in Calls
      BY RequestsTyped, NamesTyped
    <2>2. LocalTypes' /\ calls' \in Nat
      BY <1>t, <1>lm, <2>1, EnterTyped, AnswerTyped, NamesTyped DEF LookupManaged
    <2> QED BY <1>t, <1>lm, <2>2 DEF LookupManaged, TypeOK
  <1>5. ASSUME NEW c \in Clients, CancelStep(c)
        PROVE  TypeOK'
    <2>1. CASE CancelRefused(c)
      <3>1. LocalTypes'
        BY <1>t, <1>s, <2>1, RefusalTyped, ReturnTyped DEF CancelRefused
      <3>2. /\ snapshot' \in [Sessions -> Snapshots]
            /\ control' \in [Sessions -> Nat]
        BY <1>t, <1>s, <2>1, SlotTyped DEF CancelRefused
      <3> QED BY <1>t, <2>1, <3>1, <3>2 DEF CancelRefused, TypeOK
    <2>2. CASE CancelAgain(c)
      BY <1>t, <2>2, ReturnTyped, NamesTyped DEF CancelAgain, TypeOK
    <2>3. CASE CancelMark(c)
      <3>1. [snapshot[SessionOf(c)] EXCEPT !.status = "canceling"] \in Snapshots
        BY <1>t, <1>s DEF Snapshots, Statuses
      <3>2. LocalTypes'
        BY <1>t, <1>s, <2>3, ContinueTyped, NamesTyped DEF CancelMark, LocalTypes
      <3> QED BY <1>t, <1>s, <2>3, <3>1, <3>2 DEF CancelMark, TypeOK
    <2>4. CASE CancelFire(c)
      <3>1. exec[c] \in Nat
        BY <1>t DEF LocalTypes
      <3> QED BY <1>t, <2>4, <3>1, ReturnTyped, NamesTyped DEF CancelFire, TypeOK
    <2> QED BY <1>5, <2>1, <2>2, <2>3, <2>4 DEF CancelStep
  <1>6. ASSUME NEW c \in Clients, ExecuteStep(c)
        PROVE  TypeOK'
    <2> DEFINE s == SessionOf(c)
    <2>1. CASE ExecuteRefused(c)
      <3>1. LocalTypes'
        BY <1>t, <2>1, ReturnTyped, NamesTyped DEF ExecuteRefused
      <3> QED BY <1>t, <2>1, <3>1, LocksTyped DEF ExecuteRefused, TypeOK
    <2>2. CASE ExecuteAdmitted(c)
      <3> DEFINE p == EffectivePolicy(call[c].ask, ceiling[s])
      <3>1. BuildRuntime(snapshot[s], p, adapterMounts[s]) \in Runtimes
        BY <1>t, <1>s, EffectivePolicyTyped, SnapshotsTyped
      <3>2. LocalTypes'
        <4> HIDE DEF p
        <4>1. /\ pc' \in [Clients -> Locations]
              /\ call' \in [Clients -> Calls]
              /\ reply' \in [Clients -> Replies]
          BY <1>t, <2>2, ContinueTyped, NamesTyped DEF ExecuteAdmitted
        <4> QED BY <1>t, <2>2, <3>1, <4>1 DEF ExecuteAdmitted, LocalTypes, p, SamePolicy
      <3> QED BY <1>t, <2>2, <3>2, LocksTyped DEF ExecuteAdmitted, TypeOK
    <2>3. CASE ExecuteInstall(c)
      <3>1. WithExecution(snapshot[s], nextExec) \in Snapshots
        BY <1>t, <1>s, SnapshotsTyped
      <3>2. LocalTypes'
        BY <1>t, <2>3, ContinueTyped, NamesTyped DEF ExecuteInstall, LocalTypes
      <3> QED BY <1>t, <1>s, <2>3, <3>1, <3>2 DEF ExecuteInstall, TypeOK
    <2>4. CASE ExecuteSettle(c)
      <3> DEFINE cleared == WithoutExecution(snapshot[s])
                 merged == MergeSessionState(cleared, RuntimeOf(c))
      <3>1. RuntimeOf(c) \in Runtimes
        BY <2>4, RuntimeThere DEF ExecuteSettle
      <3>2. cleared \in Snapshots /\ merged \in Snapshots
        BY <1>t, <1>s, <3>1, SnapshotsTyped
      <3>3. BuildRuntime(merged, ceiling[s], adapterMounts[s]) \in Runtimes
        BY <1>t, <1>s, <3>2, SnapshotsTyped
      <3>4. LocalTypes' /\ LockTypes'
        BY <1>t, <2>4, ReturnTyped, LocksTyped, NamesTyped DEF ExecuteSettle
      <3>5. RecordTypes'
        BY <1>t, <1>s, <2>4, <3>2, <3>3, NamesTyped DEF ExecuteSettle
      <3>6. GhostTypes'
        BY <1>t, <1>s, <2>4 DEF ExecuteSettle, DropState
      <3> QED BY <1>t, <2>4, <3>4, <3>5, <3>6 DEF ExecuteSettle, TypeOK
    <2>5. CASE ExecuteObserve(c)
      <3>1. LocalTypes'
        BY <1>t, <2>5, ContinueTyped, NamesTyped DEF ExecuteObserve, LocalTypes, local
      <3> QED BY <1>t, <1>s, <2>5, <3>1, SlotTyped DEF ExecuteObserve, TypeOK
    <2>6. CASE ExecuteObserved(c)
      <3> DEFINE g == NextGeneration(s)
                 merged == Projected(MergeSessionState(snapshot[s], RuntimeOf(c)), g)
      <3>1. RuntimeOf(c) \in Runtimes
        BY <2>6, RuntimeThere DEF ExecuteObserved
      <3>2. g \in Nat
        BY <1>t, <1>s DEF NextGeneration
      <3>3. merged \in Snapshots
        BY <1>t, <1>s, <3>1, <3>2, SnapshotsTyped
      <3>4. BuildRuntime(merged, ceiling[s], g) \in Runtimes
        BY <1>t, <1>s, <3>2, <3>3, SnapshotsTyped
      <3>5. LocalTypes' /\ LockTypes'
        BY <1>t, <2>6, ReturnTyped, LocksTyped, NamesTyped DEF ExecuteObserved
      <3>6. RecordTypes'
        BY <1>t, <1>s, <2>6, <3>2, <3>3, <3>4 DEF ExecuteObserved, HookFails
      <3>7. GhostTypes'
        BY <1>t, <1>s, <2>6 DEF ExecuteObserved, DropState
      <3> QED BY <1>t, <2>6, <3>5, <3>6, <3>7 DEF ExecuteObserved, TypeOK
    <2> QED BY <1>6, <2>1, <2>2, <2>3, <2>4, <2>5, <2>6 DEF ExecuteStep
  <1>7. ASSUME NEW c \in Clients, NEW d \in Dirs, ExecuteFinish(c, d)
        PROVE  TypeOK'
    <2> DEFINE s == SessionOf(c)
    <2>1. pc[c] = "run" /\ runtime[s] \in Runtimes /\ exec[c] \in Nat
      BY <1>t, <1>7, RuntimeThere DEF ExecuteFinish, Held, LocalTypes
    <2>2. [runtime[s] EXCEPT !.cwd = d] \in Runtimes
      BY <2>1 DEF Runtimes
    <2>3. narrowed[c] => [scratch[c] EXCEPT !.cwd = d] \in Runtimes
      BY <2>1, RuntimeThere DEF Runtimes, RuntimeOf
    <2>4. LocalTypes'
      BY <1>t, <1>7, <2>3, ContinueTyped, NamesTyped DEF ExecuteFinish, LocalTypes
    <2>5. runtime' \in [Sessions -> Runtimes \cup {Nil}]
      BY <1>t, <1>s, <1>7, <2>2 DEF ExecuteFinish
    <2> QED BY <1>t, <1>s, <1>7, <2>1, <2>4, <2>5 DEF ExecuteFinish, TypeOK
  <1>8. ASSUME NEW c \in Clients, StoreStep(c)
        PROVE  TypeOK'
    <2> DEFINE s == SessionOf(c)
    <2>1. CASE StoreRefused(c)
      BY <1>t, <2>1, ReturnTyped, LocksTyped, NamesTyped DEF StoreRefused, TypeOK
    <2>2. CASE StoreAdmitted(c)
      <3>1. LocalTypes'
        BY <1>t, <2>2, ContinueTyped, NamesTyped DEF StoreAdmitted, LocalTypes, local
      <3> QED BY <1>t, <2>2, <3>1, LocksTyped DEF StoreAdmitted, TypeOK
    <2>3. CASE Store(c)
      <3> DEFINE next == MergeSessionState(snapshot[s], runtime[s])
      <3>1. next \in Snapshots
        BY <1>t, <1>s, <2>3, RuntimeThere, SnapshotsTyped DEF Store, Held
      <3>2. RecordTypes'
        BY <1>t, <1>s, <2>3, <3>1, StoreTyped DEF Store, TypeOK
      <3>3. behind' \in SUBSET Sessions
        BY <1>t, <2>3 DEF Store, StoreSession
      <3> QED BY <1>t, <2>3, <3>2, <3>3, ReturnTyped, LocksTyped, NamesTyped DEF Store, TypeOK
    <2>4. CASE StoreHook(c)
      <3>1. LocalTypes'
        BY <1>t, <2>4, ContinueTyped, NamesTyped DEF StoreHook, LocalTypes, local
      <3> QED BY <1>t, <2>4, <3>1 DEF StoreHook, TypeOK
    <2>5. CASE StoreHooked(c)
      <3> DEFINE g == NextGeneration(s)
                 next == Projected(MergeSessionState(snapshot[s], runtime[s]), g)
      <3>1. runtime[s] \in Runtimes
        BY <2>5, RuntimeThere DEF StoreHooked, Held
      <3>2. g \in Nat
        BY <1>t, <1>s DEF NextGeneration
      <3>3. next \in Snapshots
        BY <1>t, <1>s, <3>1, <3>2, SnapshotsTyped
      <3>4. RecordTypes'
        BY <1>t, <1>s, <2>5, <3>2, <3>3, StoreTyped DEF StoreHooked, HookFails, TypeOK
      <3>5. behind' \in SUBSET Sessions
        BY <1>t, <2>5 DEF StoreHooked, StoreSession
      <3> QED BY <1>t, <2>5, <3>4, <3>5, ReturnTyped, LocksTyped, NamesTyped
              DEF StoreHooked, TypeOK
    <2> QED BY <1>8, <2>1, <2>2, <2>3, <2>4, <2>5 DEF StoreStep
  <1>9. ASSUME NEW c \in Clients, ResumeStep(c)
        PROVE  TypeOK'
    <2> DEFINE s == SessionOf(c)
    <2>1. CASE ResumeOpen(c)
      BY <1>t, <2>1, ReturnTyped, LocksTyped, NamesTyped DEF ResumeOpen, TypeOK
    <2>2. CASE ResumeClosed(c)
      <3>1. LocalTypes'
        BY <1>t, <2>2, ContinueTyped, NamesTyped DEF ResumeClosed, LocalTypes, local
      <3> QED BY <1>t, <2>2, <3>1, LocksTyped DEF ResumeClosed, TypeOK
    <2>3. CASE ResumeRebuild(c)
      <3> DEFINE g == IF s \in Adapted THEN NextGeneration(s) ELSE 0
      <3>1. g \in Nat /\ NextGeneration(s) \in Nat
        BY <1>t, <1>s DEF NextGeneration
      <3>2. BuildRuntime(checkpoint[s], ceiling[s], g) \in Runtimes
        BY <1>t, <1>s, <3>1, SnapshotsTyped
      <3>3. generation' \in [Sessions -> Nat]
        BY <1>t, <1>s, <2>3, <3>1 DEF ResumeRebuild, HookFails
      <3>4. LocalTypes'
        <4>1. CASE \E r \in {"adapter", "runtime"} : Return(c, r)
          BY <1>t, <4>1, ReturnTyped, NamesTyped
        <4>2. CASE /\ Continue(c, "reopen")
                   /\ scratch' = [scratch EXCEPT ![c] = BuildRuntime(checkpoint[s], ceiling[s], g)]
                   /\ UNCHANGED <<exec, narrowed>>
          BY <1>t, <3>2, <4>2, ContinueTyped, NamesTyped DEF LocalTypes
        <4> QED BY <2>3, <4>1, <4>2 DEF ResumeRebuild
      <3>5. LockTypes'
        BY <1>t, <2>3, LocksTyped DEF ResumeRebuild
      <3> QED BY <1>t, <2>3, <3>3, <3>4, <3>5 DEF ResumeRebuild, TypeOK
    <2>4. CASE ResumeStore(c)
      <3>1. scratch[c] \in Runtimes /\ scratch[c].mounts \in Nat
        BY <1>t, <2>4 DEF ResumeStore, Base, Locals, LocalTypes, Runtimes
      <3>2. Projected(checkpoint[s], scratch[c].mounts) \in Snapshots
        BY <1>t, <1>s, <3>1, SnapshotsTyped
      <3>3. RecordTypes'
        BY <1>t, <1>s, <2>4, <3>1, <3>2 DEF ResumeStore
      <3> QED BY <1>t, <2>4, <3>3, ReturnTyped, LocksTyped, NamesTyped DEF ResumeStore, TypeOK
    <2> QED BY <1>9, <2>1, <2>2, <2>3, <2>4 DEF ResumeStep
  <1>u. ASSUME UNCHANGED vars
        PROVE  TypeOK'
    BY <1>t, <1>u DEF vars, TypeOK, LocalTypes, local
  <1> QED
    <2>1. Asks \subseteq Requests
      BY SessionsAssumption
    <2>2. CASE Next
      <3>1. CASE \E c \in Clients : StartSomeCall(c)
        BY <1>c, <1>g, <1>cc, <1>lm, <2>1, <3>1, NamesTyped, RequestsTyped DEF StartSomeCall
      <3>2. CASE \E c \in Clients : CallStep(c)
        BY <1>5, <1>6, <1>8, <1>9, <3>2 DEF CallStep
      <3>3. CASE \E c \in Clients : EndCommand(c)
        BY <1>7, <3>3 DEF EndCommand
      <3> QED BY <1>u, <2>2, <3>1, <3>2, <3>3 DEF Next, AllReturned
    <2> QED BY <1>u, <2>2
-----------------------------------------------------------------------------
(***************************************************************************)
(* Critical sections.  A step of one client disturbs nothing that another  *)
(* one relies on in its section: StepFrame.                                *)
(***************************************************************************)
Step(c) == StartSomeCall(c) \/ CallStep(c) \/ EndCommand(c)

\* What a step of client c leaves alone: the other clients' variables, the
\* locks that others hold, and whether a session is open, unless c holds its
\* executeMu or has just created it.
OthersKept(c) ==
    \A k \in Clients \ {c} :
        /\ pc'[k] = pc[k] /\ call'[k] = call[k] /\ exec'[k] = exec[k]
        /\ narrowed'[k] = narrowed[k] /\ scratch'[k] = scratch[k]

LocksKept(c) ==
    /\ mu' # mu => mu \in {Free, c}
    /\ \A s \in Sessions : executeMu'[s] # executeMu[s] => executeMu[s] \in {Free, c}

LivesKept(c) ==
    \A s \in Sessions :
        /\ life[s] # "absent" => life'[s] # "absent"
        /\ \/ life'[s] = life[s] /\ ((runtime'[s] = Nil) <=> (runtime[s] = Nil))
           \/ executeMu[s] = c
           \/ life[s] = "absent"

Frame(c) == OthersKept(c) /\ LocksKept(c) /\ LivesKept(c)

\* Return concerns the local variables of its own client only.
LEMMA ReturnKeeps ==
    ASSUME LocalTypes, NEW c \in Clients, NEW r, Return(c, r)
    PROVE  OthersKept(c)
  BY DEF LocalTypes, Return, Goto, OthersKept

\* So does a step inside a call.
LEMMA ContinueKeeps ==
    ASSUME LocalTypes, NEW c \in Clients, NEW l, Continue(c, l),
           \A k \in Clients \ {c} : /\ exec'[k] = exec[k] /\ narrowed'[k] = narrowed[k]
                                    /\ scratch'[k] = scratch[k]
    PROVE  OthersKept(c)
  BY DEF LocalTypes, Continue, Goto, OthersKept

\* So does a new call.
LEMMA EnterKeeps ==
    ASSUME LocalTypes, NEW c \in Clients, NEW k, NEW l, Enter(c, k, l)
    PROVE  OthersKept(c)
  BY DEF LocalTypes, Enter, Goto, local, OthersKept

\* And a call that is over in one step.
LEMMA AnswerKeeps ==
    ASSUME LocalTypes, NEW c \in Clients, NEW r, Answer(c, r)
    PROVE  OthersKept(c)
  BY DEF LocalTypes, Answer, local, OthersKept

\* A step of a client leaves alone what Frame says.
LEMMA StepFrame ==
    ASSUME Base, TypeOK', NEW c \in Clients, Step(c)
    PROVE  Frame(c)
  <1> USE DEF locks, records, global, local, ghosts, LockTypes, RecordTypes,
              LocksKept, LivesKept
  <1>t. LockTypes /\ RecordTypes /\ LocalTypes
    BY DEF Base, TypeOK
  <1>s. SessionOf(c) \in Sessions
    BY <1>t DEF LocalTypes, SessionOf, Calls
  <1>n. Nil \notin Runtimes
    BY NilAssumption DEF Runtimes
  <1>h. pc[c] \in Held => executeMu[SessionOf(c)] = c
    BY DEF Base, CriticalSections
  <1>m. pc[c] \in {"observe", "hook"} => mu = c
    BY DEF Base, CriticalSections
  <1>1. CASE StartSomeCall(c)
    <2>1. CASE \E s \in Sessions, d \in Dirs, p \in Ceilings : Create(c, s, d, p)
      BY <1>t, <2>1, AnswerKeeps DEF Create, Frame
    <2>2. CASE \E s \in Sessions : Get(c, s)
      BY <1>t, <2>2, AnswerKeeps DEF Get, Frame
    <2>3. CASE \E s \in Sessions, expect \in KnownExecs : CancelCall(c, s, expect)
      BY <1>t, <2>3, EnterKeeps DEF CancelCall, Frame
    <2>4. ASSUME NEW op, NEW s, NEW ask, NEW blank, LookupManaged(c, op, s, ask, blank)
          PROVE  Frame(c)
      BY <1>t, <2>4, EnterKeeps, AnswerKeeps DEF LookupManaged, Frame
    <2> QED BY <1>1, <2>1, <2>2, <2>3, <2>4 DEF StartSomeCall
  <1>2. CASE CancelStep(c)
    <2>1. CASE CancelRefused(c)
      BY <1>t, <2>1, ReturnKeeps DEF CancelRefused, Frame
    <2>2. CASE CancelAgain(c)
      BY <1>t, <2>2, ReturnKeeps DEF CancelAgain, Frame
    <2>3. CASE CancelMark(c)
      <3>1. OthersKept(c)
        BY <1>t, <2>3, ContinueKeeps DEF CancelMark, LocalTypes
      <3> QED BY <1>t, <2>3, <3>1 DEF CancelMark, Frame
    <2>4. CASE CancelFire(c)
      BY <1>t, <2>4, ReturnKeeps DEF CancelFire, Frame
    <2> QED BY <1>2, <2>1, <2>2, <2>3, <2>4 DEF CancelStep
  <1>3. CASE ExecuteStep(c)
    <2>1. CASE ExecuteRefused(c)
      <3>1. OthersKept(c)
        BY <1>t, <2>1, ReturnKeeps DEF ExecuteRefused
      <3> QED BY <1>t, <2>1, <3>1 DEF ExecuteRefused, PassExecute, Frame
    <2>2. CASE ExecuteAdmitted(c)
      <3>1. OthersKept(c)
        BY <1>t, <2>2, ContinueKeeps DEF ExecuteAdmitted, LocalTypes
      <3> QED BY <1>t, <1>s, <2>2, <3>1 DEF ExecuteAdmitted, LockExecute, Frame
    <2>3. CASE ExecuteInstall(c)
      <3>1. OthersKept(c)
        BY <1>t, <2>3, ContinueKeeps DEF ExecuteInstall, LocalTypes
      <3> QED BY <1>t, <2>3, <3>1 DEF ExecuteInstall, Frame
    <2>4. CASE ExecuteSettle(c)
      <3>1. OthersKept(c)
        BY <1>t, <2>4, ReturnKeeps DEF ExecuteSettle
      <3>2. executeMu[SessionOf(c)] = c
        BY <1>h, <2>4 DEF ExecuteSettle, Held
      <3> QED BY <1>t, <1>s, <2>4, <3>1, <3>2 DEF ExecuteSettle, UnlockExecute, Frame
    <2>5. CASE ExecuteObserve(c)
      <3>1. OthersKept(c)
        BY <1>t, <2>5, ContinueKeeps DEF ExecuteObserve
      <3> QED BY <1>t, <2>5, <3>1 DEF ExecuteObserve, Frame
    <2>6. CASE ExecuteObserved(c)
      <3>1. OthersKept(c)
        BY <1>t, <2>6, ReturnKeeps DEF ExecuteObserved
      <3>2. executeMu[SessionOf(c)] = c /\ mu = c
        BY <1>h, <1>m, <2>6 DEF ExecuteObserved, Held
      <3> QED BY <1>t, <1>s, <2>6, <3>1, <3>2 DEF ExecuteObserved, UnlockExecute, Frame
    <2> QED BY <1>3, <2>1, <2>2, <2>3, <2>4, <2>5, <2>6 DEF ExecuteStep
  <1>4. CASE EndCommand(c)
    <2> PICK d \in Dirs : ExecuteFinish(c, d)
      BY <1>4 DEF EndCommand
    <2>1. OthersKept(c)
      BY <1>t, ContinueKeeps DEF ExecuteFinish, LocalTypes
    <2>2. executeMu[SessionOf(c)] = c
      BY <1>h DEF ExecuteFinish, Held
    <2> QED BY <1>t, <1>s, <2>1, <2>2 DEF ExecuteFinish, Frame
  <1>5. CASE StoreStep(c)
    <2>1. CASE StoreRefused(c)
      BY <1>t, <2>1, ReturnKeeps DEF StoreRefused, PassExecute, Frame
    <2>2. CASE StoreAdmitted(c)
      <3>1. OthersKept(c)
        BY <1>t, <2>2, ContinueKeeps DEF StoreAdmitted
      <3> QED BY <1>t, <1>s, <2>2, <3>1 DEF StoreAdmitted, LockExecute, Frame
    <2>n. ASSUME NEW next, StoreSession(c, next), executeMu[SessionOf(c)] = c
          PROVE  LivesKept(c)
      BY <1>t, <1>s, <2>n DEF StoreSession, CheckpointStore, CloseStore
    <2>3. CASE Store(c)
      <3>1. OthersKept(c)
        BY <1>t, <2>3, ReturnKeeps DEF Store
      <3>2. executeMu[SessionOf(c)] = c
        BY <1>h, <2>3 DEF Store, Held
      <3>3. LivesKept(c)
        BY <2>3, <2>n, <3>2 DEF Store
      <3> QED BY <1>t, <1>s, <2>3, <3>1, <3>2, <3>3 DEF Store, UnlockExecute, Frame
    <2>4. CASE StoreHook(c)
      <3>1. OthersKept(c)
        BY <1>t, <2>4, ContinueKeeps DEF StoreHook
      <3> QED BY <1>t, <2>4, <3>1 DEF StoreHook, Frame
    <2>5. CASE StoreHooked(c)
      <3>1. OthersKept(c)
        BY <1>t, <2>5, ReturnKeeps DEF StoreHooked
      <3>2. executeMu[SessionOf(c)] = c /\ mu = c
        BY <1>h, <1>m, <2>5 DEF StoreHooked, Held
      <3>3. LivesKept(c)
        BY <1>t, <2>5, <2>n, <3>2 DEF StoreHooked
      <3> QED BY <1>t, <1>s, <2>5, <3>1, <3>2, <3>3 DEF StoreHooked, UnlockExecute, Frame
    <2> QED BY <1>5, <2>1, <2>2, <2>3, <2>4, <2>5 DEF StoreStep
  <1>6. CASE ResumeStep(c)
    <2>1. CASE ResumeOpen(c)
      BY <1>t, <2>1, ReturnKeeps DEF ResumeOpen, PassExecute, Frame
    <2>2. CASE ResumeClosed(c)
      <3>1. OthersKept(c)
        BY <1>t, <2>2, ContinueKeeps DEF ResumeClosed
      <3> QED BY <1>t, <1>s, <2>2, <3>1 DEF ResumeClosed, LockExecute, Frame
    <2>3. CASE ResumeRebuild(c)
      <3>1. OthersKept(c)
        BY <1>t, <2>3, ReturnKeeps, ContinueKeeps DEF ResumeRebuild, LocalTypes
      <3>2. executeMu[SessionOf(c)] = c
        BY <1>h, <2>3 DEF ResumeRebuild, Held
      <3> QED BY <1>t, <1>s, <2>3, <3>1, <3>2 DEF ResumeRebuild, UnlockExecute, Frame
    <2>4. CASE ResumeStore(c)
      <3>1. OthersKept(c)
        BY <1>t, <2>4, ReturnKeeps DEF ResumeStore
      <3>2. executeMu[SessionOf(c)] = c
        BY <1>h, <2>4 DEF ResumeStore, Held
      <3> QED BY <1>t, <1>s, <2>4, <3>1, <3>2 DEF ResumeStore, UnlockExecute, Frame
    <2> QED BY <1>6, <2>1, <2>2, <2>3, <2>4 DEF ResumeStep
  <1> QED BY <1>1, <1>2, <1>3, <1>4, <1>5, <1>6 DEF Step, CallStep

\* What client c relies on in its call.
Section(c) ==
    /\ pc[c] \in Held => executeMu[SessionOf(c)] = c
    /\ pc[c] \in {"observe", "hook"} => mu = c
    /\ pc[c] \in Held \ {"rebuild", "reopen"} => ~ IsClosed(SessionOf(c))
    /\ pc[c] \in {"rebuild", "reopen"} => IsClosed(SessionOf(c))

Local(c) ==
    /\ pc[c] \in {"install", "run", "settle", "observe"} => call[c].op = "execute"
    /\ pc[c] \in {"store", "hook"} => call[c].op \in {"checkpoint", "close"}
    /\ pc[c] \in {"rebuild", "reopen"} => call[c].op = "resume"
    /\ pc[c] = "reopen" => scratch[c] # Nil
    /\ narrowed[c] => scratch[c] # Nil
    /\ pc[c] \in Held \cup {"lock"} => life[SessionOf(c)] # "absent"

\* A step of one client keeps what the others rely on.
LEMMA OthersSection ==
    ASSUME Base, NEW c \in Clients, Frame(c), NEW k \in Clients \ {c}
    PROVE  Section(k)' /\ Local(k)'
  <1>1. /\ SessionOf(k) \in Sessions /\ SessionOf(k)' = SessionOf(k)
        /\ pc'[k] = pc[k] /\ call'[k] = call[k]
        /\ narrowed'[k] = narrowed[k] /\ scratch'[k] = scratch[k]
    BY DEF Base, TypeOK, LocalTypes, Calls, Frame, OthersKept, SessionOf
  <1>2. c # Free /\ k # Free /\ c # k
    BY SessionsAssumption
  <1>3. pc[k] \in Held \cup {"lock"} => life[SessionOf(k)] # "absent"
    BY DEF Base, Locals
  <1>4. Section(k)'
    BY <1>1, <1>2, <1>3 DEF Section, Base, CriticalSections, Frame, LocksKept, LivesKept,
       IsClosed, Held
  <1>5. Local(k)'
    BY <1>1, <1>3 DEF Local, Base, Locals, Frame, LivesKept, Held
  <1> QED BY <1>4, <1>5

\* A client outside any section relies on nothing.
LEMMA IdleSection ==
    ASSUME NEW c \in Clients, pc'[c] = "idle", narrowed'[c] = FALSE
    PROVE  Section(c)' /\ Local(c)'
  BY DEF Section, Local, Held

\* A step of a client establishes what the client relies on afterwards.
LEMMA OwnSection ==
    ASSUME Base, TypeOK', NEW c \in Clients, Step(c)
    PROVE  Section(c)' /\ Local(c)'
  <1> USE DEF records, locks, global, local, LockTypes, RecordTypes
  <1>t. LockTypes /\ RecordTypes /\ LocalTypes
    BY DEF Base, TypeOK
  <1>s. SessionOf(c) \in Sessions
    BY <1>t DEF LocalTypes, SessionOf, Calls
  <1>n. Nil \notin Runtimes
    BY NilAssumption DEF Runtimes
  <1>o. Section(c) /\ Local(c) /\ OpenHasRuntime
    BY DEF Base, CriticalSections, Locals, Section, Local
  <1>r. ASSUME NEW r, Return(c, r)
        PROVE  Section(c)' /\ Local(c)'
    <2>1. pc'[c] = "idle" /\ narrowed'[c] = FALSE
      BY <1>t, <1>r DEF Return, Goto, LocalTypes
    <2> QED BY <2>1, IdleSection
  <1>a. ASSUME NEW r, Answer(c, r)
        PROVE  Section(c)' /\ Local(c)'
    <2>1. pc'[c] = "idle" /\ (narrowed'[c] => scratch'[c] # Nil)
      BY <1>a, <1>o DEF Answer, MayCall, Local
    <2> QED BY <2>1 DEF Section, Local, Held
  <1>c. ASSUME NEW l, Continue(c, l)
        PROVE  pc'[c] = l /\ call'[c] = call[c] /\ SessionOf(c)' = SessionOf(c)
    BY <1>t, <1>c DEF Continue, Goto, LocalTypes, SessionOf
  <1>1. CASE StartSomeCall(c)
    <2>1. ASSUME NEW s \in Sessions, NEW expect, CancelCall(c, s, expect)
          PROVE  Section(c)' /\ Local(c)'
      <3>1. pc'[c] = "cancel" /\ (narrowed'[c] => scratch'[c] # Nil)
        BY <1>t, <1>o, <2>1 DEF CancelCall, Enter, Goto, LocalTypes, Local
      <3> QED BY <3>1 DEF Section, Local, Held
    <2>2. ASSUME NEW op, NEW s \in Sessions, NEW ask, NEW blank,
                 LookupManaged(c, op, s, ask, blank)
          PROVE  Section(c)' /\ Local(c)'
      <3>1. CASE life[s] = "absent"
        BY <1>a, <2>2, <3>1 DEF LookupManaged
      <3>2. CASE life[s] # "absent"
        <4>1. /\ pc'[c] = "lock" /\ call'[c].s = s /\ life' = life
              /\ narrowed'[c] => scratch'[c] # Nil
          BY <1>t, <1>o, <2>2, <3>2
          DEF LookupManaged, Enter, Goto, LocalTypes, Request, Local
        <4> QED BY <3>2, <4>1 DEF Section, Local, Held, SessionOf
      <3> QED BY <3>1, <3>2
    <2> QED BY <1>1, <1>a, <2>1, <2>2 DEF StartSomeCall, Create, Get
  <1>2. CASE CancelStep(c)
    <2>1. CASE CancelMark(c)
      <3>1. pc'[c] = "fire" /\ (narrowed'[c] => scratch'[c] # Nil)
        BY <1>c, <1>o, <2>1 DEF CancelMark, Local
      <3> QED BY <3>1 DEF Section, Local, Held
    <2> QED BY <1>2, <1>r, <2>1 DEF CancelStep, CancelRefused, CancelAgain, CancelFire
  <1>3. CASE ExecuteStep(c)
    <2>1. CASE ExecuteRefused(c)
      BY <1>r, <2>1 DEF ExecuteRefused
    <2>2. CASE ExecuteAdmitted(c)
      <3> DEFINE s == SessionOf(c)
                 p == EffectivePolicy(call[c].ask, ceiling[s])
      <3>1. /\ pc'[c] = "install" /\ call'[c] = call[c] /\ SessionOf(c)' = s
            /\ executeMu'[s] = c /\ call[c].op = "execute" /\ ~ IsClosed(s)
            /\ life' = life /\ runtime' = runtime
        BY <1>t, <1>s, <1>c, <2>2 DEF ExecuteAdmitted, LockExecute
      <3>2. p \in Policies
        BY <1>t, <1>s, EffectivePolicyTyped DEF LocalTypes, Calls
      <3>3. BuildRuntime(snapshot[s], p, adapterMounts[s]) \in Runtimes
        BY <1>t, <1>s, <3>2, SnapshotsTyped
      <3>4. narrowed'[c] => scratch'[c] # Nil
        BY <1>t, <1>n, <2>2, <3>3 DEF ExecuteAdmitted, LocalTypes
      <3>5. life[s] # "absent"
        BY <1>o, <2>2 DEF ExecuteAdmitted, Local, Held
      <3> QED BY <3>1, <3>4, <3>5 DEF Section, Local, Held, IsClosed
    <2>3. CASE ExecuteInstall(c)
      <3>1. /\ pc'[c] = "run" /\ call'[c] = call[c] /\ SessionOf(c)' = SessionOf(c)
            /\ UNCHANGED <<locks, life, runtime, narrowed, scratch>>
        BY <1>c, <2>3 DEF ExecuteInstall
      <3> QED BY <1>o, <2>3, <3>1 DEF ExecuteInstall, Section, Local, Held, IsClosed
    <2>4. CASE ExecuteSettle(c)
      BY <1>r, <2>4 DEF ExecuteSettle
    <2>5. CASE ExecuteObserve(c)
      <3>1. /\ pc'[c] = "observe" /\ call'[c] = call[c] /\ SessionOf(c)' = SessionOf(c)
            /\ mu' = c
            /\ UNCHANGED <<executeMu, life, runtime, narrowed, scratch>>
        BY <1>c, <2>5 DEF ExecuteObserve
      <3> QED BY <1>o, <2>5, <3>1 DEF ExecuteObserve, Section, Local, Held, IsClosed
    <2>6. CASE ExecuteObserved(c)
      BY <1>r, <2>6 DEF ExecuteObserved
    <2> QED BY <1>3, <2>1, <2>2, <2>3, <2>4, <2>5, <2>6 DEF ExecuteStep
  <1>4. CASE EndCommand(c)
    <2> PICK d \in Dirs : ExecuteFinish(c, d)
      BY <1>4 DEF EndCommand
    <2> DEFINE s == SessionOf(c)
    <2>1. /\ pc'[c] = "settle" /\ call'[c] = call[c] /\ SessionOf(c)' = s
          /\ UNCHANGED <<locks, life, narrowed>>
      BY <1>c DEF ExecuteFinish
    <2>2. runtime[s] \in Runtimes /\ (narrowed[c] => scratch[c] \in Runtimes)
      BY RuntimeThere DEF ExecuteFinish, Held, RuntimeOf
    <2>3. /\ [runtime[s] EXCEPT !.cwd = d] \in Runtimes
          /\ narrowed[c] => [scratch[c] EXCEPT !.cwd = d] \in Runtimes
      BY <2>2 DEF Runtimes
    <2>4. runtime'[s] # Nil
      BY <1>t, <1>s, <1>n, <2>2, <2>3 DEF ExecuteFinish
    <2>5. narrowed[c] => scratch'[c] # Nil
      BY <1>t, <1>n, <2>3 DEF ExecuteFinish, LocalTypes
    <2> QED BY <1>o, <2>1, <2>4, <2>5 DEF ExecuteFinish, Section, Local, Held, IsClosed
  <1>5. CASE StoreStep(c)
    <2>1. CASE StoreAdmitted(c)
      <3>1. /\ pc'[c] = "store" /\ call'[c] = call[c] /\ SessionOf(c)' = SessionOf(c)
            /\ executeMu'[SessionOf(c)] = c
            /\ UNCHANGED <<life, runtime, narrowed, scratch>>
        BY <1>t, <1>s, <1>c, <2>1 DEF StoreAdmitted, LockExecute
      <3> QED BY <1>o, <2>1, <3>1 DEF StoreAdmitted, Section, Local, Held, IsClosed
    <2>2. CASE StoreHook(c)
      <3>1. /\ pc'[c] = "hook" /\ call'[c] = call[c] /\ SessionOf(c)' = SessionOf(c)
            /\ mu' = c
            /\ UNCHANGED <<executeMu, life, runtime, narrowed, scratch>>
        BY <1>c, <2>2 DEF StoreHook
      <3> QED BY <1>o, <2>2, <3>1 DEF StoreHook, Section, Local, Held, IsClosed
    <2> QED BY <1>5, <1>r, <2>1, <2>2 DEF StoreStep, StoreRefused, Store, StoreHooked
  <1>6. CASE ResumeStep(c)
    <2>1. CASE ResumeClosed(c)
      <3>1. /\ pc'[c] = "rebuild" /\ call'[c] = call[c] /\ SessionOf(c)' = SessionOf(c)
            /\ executeMu'[SessionOf(c)] = c
            /\ UNCHANGED <<life, runtime, narrowed, scratch>>
        BY <1>t, <1>s, <1>c, <2>1 DEF ResumeClosed, LockExecute
      <3> QED BY <1>o, <2>1, <3>1 DEF ResumeClosed, Section, Local, Held, IsClosed
    <2>2. CASE ResumeRebuild(c)
      <3> DEFINE s == SessionOf(c)
                 g == IF s \in Adapted THEN NextGeneration(s) ELSE 0
                 built == BuildRuntime(checkpoint[s], ceiling[s], g)
      <3>1. CASE \E r \in {"adapter", "runtime"} : Return(c, r)
        BY <1>r, <3>1
      <3>2. CASE /\ Continue(c, "reopen")
                 /\ scratch' = [scratch EXCEPT ![c] = built]
                 /\ UNCHANGED <<executeMu, narrowed>>
        <4>1. pc'[c] = "reopen" /\ call'[c] = call[c] /\ SessionOf(c)' = SessionOf(c)
          BY <1>c, <3>2
        <4>2. g \in Nat
          BY <1>t, <1>s DEF NextGeneration
        <4>3. built \in Runtimes
          BY <1>t, <1>s, <4>2, SnapshotsTyped
        <4>4. scratch'[c] # Nil
          BY <1>t, <1>n, <3>2, <4>3 DEF LocalTypes
        <4> QED BY <1>o, <2>2, <3>2, <4>1, <4>4
                DEF ResumeRebuild, Section, Local, Held, IsClosed
      <3> QED BY <2>2, <3>1, <3>2 DEF ResumeRebuild
    <2> QED BY <1>6, <1>r, <2>1, <2>2 DEF ResumeStep, ResumeOpen, ResumeStore
  <1> QED BY <1>1, <1>2, <1>3, <1>4, <1>5, <1>6 DEF Step, CallStep

\* A session has a runtime exactly while it is open.
LEMMA NextOpenHasRuntime ==
    ASSUME Base, TypeOK', NEW c \in Clients, Step(c)
    PROVE  OpenHasRuntime'
  <1> USE DEF records, RecordTypes, OpenHasRuntime
  <1>t. RecordTypes /\ LocalTypes /\ RecordTypes' /\ OpenHasRuntime
    BY DEF Base, TypeOK
  <1>s. SessionOf(c) \in Sessions
    BY <1>t DEF LocalTypes, SessionOf, Calls
  <1>n. Nil \notin Runtimes
    BY NilAssumption DEF Runtimes
  <1>u. CASE UNCHANGED <<life, runtime>>
    BY <1>t, <1>u
  <1>1. ASSUME NEW s \in Sessions, NEW d \in Dirs, NEW p \in Ceilings, Create(c, s, d, p)
        PROVE  OpenHasRuntime'
    <2> DEFINE g == FirstGeneration(s)
    <2>1. p \in Policies /\ g \in Nat
      BY SessionsAssumption DEF FirstGeneration
    <2>2. BuildRuntime(NewSnapshot(d, g), p, g) \in Runtimes
      BY <2>1, SnapshotsTyped
    <2> QED BY <1>t, <1>n, <1>1, <2>2 DEF Create
  <1>2. CASE ExecuteSettle(c) \/ ExecuteObserved(c)
    <2> DEFINE s == SessionOf(c)
    <2>1. runtime[s] # Nil /\ runtime[s] \in Runtimes
      BY <1>n, <1>2, RuntimeThere DEF ExecuteSettle, ExecuteObserved, Held
    <2>2. /\ life' = life
          /\ \A x \in Sessions \ {s} : runtime'[x] = runtime[x]
      BY <1>t, <1>s, <1>2 DEF ExecuteSettle, ExecuteObserved
    <2>3. RuntimeOf(c) \in Runtimes
      BY <1>2, RuntimeThere DEF ExecuteSettle, ExecuteObserved
    <2>4. runtime'[s] # Nil
      <3>1. CASE ExecuteSettle(c)
        <4> DEFINE merged == MergeSessionState(WithoutExecution(snapshot[s]), RuntimeOf(c))
        <4>1. BuildRuntime(merged, ceiling[s], adapterMounts[s]) \in Runtimes
          BY <1>t, <1>s, <2>3, SnapshotsTyped
        <4> QED BY <1>t, <1>s, <1>n, <2>1, <3>1, <4>1 DEF ExecuteSettle
      <3>2. CASE ExecuteObserved(c)
        <4> DEFINE g == NextGeneration(s)
                   merged == Projected(MergeSessionState(snapshot[s], RuntimeOf(c)), g)
        <4>1. g \in Nat
          BY <1>t, <1>s DEF NextGeneration
        <4>2. BuildRuntime(merged, ceiling[s], g) \in Runtimes
          BY <1>t, <1>s, <2>3, <4>1, SnapshotsTyped
        <4> QED BY <1>t, <1>s, <1>n, <2>1, <3>2, <4>2 DEF ExecuteObserved
      <3> QED BY <1>2, <3>1, <3>2
    <2> QED BY <1>t, <1>s, <2>1, <2>2, <2>4
  <1>3. CASE EndCommand(c)
    <2> PICK d \in Dirs : ExecuteFinish(c, d)
      BY <1>3 DEF EndCommand
    <2> DEFINE s == SessionOf(c)
    <2>1. runtime[s] \in Runtimes
      BY RuntimeThere DEF ExecuteFinish, Held
    <2>2. [runtime[s] EXCEPT !.cwd = d] \in Runtimes
      BY <2>1 DEF Runtimes
    <2> QED BY <1>t, <1>s, <1>n, <2>1, <2>2 DEF ExecuteFinish
  <1>4. ASSUME NEW next, StoreSession(c, next)
        PROVE  OpenHasRuntime'
    BY <1>t, <1>s, <1>4 DEF StoreSession, CheckpointStore, CloseStore
  <1>5. CASE ResumeStore(c)
    <2>1. scratch[c] # Nil
      BY <1>5 DEF ResumeStore, Base, Locals
    <2> QED BY <1>t, <1>s, <1>5, <2>1 DEF ResumeStore
  <1>6. CASE StartSomeCall(c)
    BY <1>u, <1>1, <1>6 DEF StartSomeCall, Get, CancelCall, LookupManaged
  <1>7. CASE CancelStep(c)
    BY <1>u, <1>7 DEF CancelStep, CancelRefused, CancelAgain, CancelMark, CancelFire
  <1>8. CASE ExecuteStep(c)
    BY <1>u, <1>2, <1>8 DEF ExecuteStep, ExecuteRefused, ExecuteAdmitted, ExecuteInstall,
       ExecuteObserve
  <1>9. CASE StoreStep(c)
    BY <1>u, <1>4, <1>9 DEF StoreStep, StoreRefused, StoreAdmitted, Store, StoreHook, StoreHooked
  <1>10. CASE ResumeStep(c)
    BY <1>u, <1>5, <1>10 DEF ResumeStep, ResumeOpen, ResumeClosed, ResumeRebuild
  <1> QED BY <1>3, <1>6, <1>7, <1>8, <1>9, <1>10 DEF Step, CallStep

\* Base is inductive.
LEMMA NextBase == Base /\ [Next]_vars => Base'
  <1> SUFFICES ASSUME Base, [Next]_vars PROVE Base'
    OBVIOUS
  <1>1. TypeOK'
    BY NextTyped
  <1>2. CASE UNCHANGED vars
    BY <1>1, <1>2 DEF vars, locks, records, global, local, Base, CriticalSections, Locals,
       OpenHasRuntime, SessionOf, IsClosed
  <1>3. ASSUME NEW c \in Clients, Step(c)
        PROVE  Base'
    <2>1. Frame(c)
      BY <1>1, <1>3, StepFrame
    <2>2. \A k \in Clients : Section(k)' /\ Local(k)'
      BY <1>1, <1>3, <2>1, OwnSection, OthersSection
    <2>3. OpenHasRuntime'
      BY <1>1, <1>3, NextOpenHasRuntime
    <2>4. CriticalSections'
      BY <2>2 DEF CriticalSections, Section
    <2>5. Locals'
      BY <2>2 DEF Locals, Local
    <2> QED BY <1>1, <2>3, <2>4, <2>5 DEF Base
  <1> QED BY <1>2, <1>3 DEF Next, Step, AllReturned

\* The manager's state is always well-typed, for any number of goroutines,
\* sessions and calls.
THEOREM Typing == Spec => []TypeOK
  <1>1. Spec => []Base
    BY InitBase, NextBase, PTL DEF Spec
  <1>2. Base => TypeOK
    BY DEF Base
  <1> QED BY <1>1, <1>2, PTL

\* What an Execute, Checkpoint, Close or Resume checked under executeMu stays
\* true until it returns.
THEOREM SectionsHold == Spec => []CriticalSections
  <1>1. Spec => []Base
    BY InitBase, NextBase, PTL DEF Spec
  <1>2. Base => CriticalSections
    BY DEF Base
  <1> QED BY <1>1, <1>2, PTL
=============================================================================
