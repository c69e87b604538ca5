---------------------------- MODULE SessionProofs ----------------------------
(***************************************************************************)
(* Theorems about sessions.                                                *)
(*                                                                         *)
(* The live slot: what active_execution shows, what Cancel hits, what is   *)
(* checkpointed, from one inductive invariant, IInv; and that the session  *)
(* manager implements the life cycle of SessionLifecycle.                  *)
(*                                                                         *)
(* What a session keeps from call to call: the projection its record holds *)
(* and the directory its last command left it in (StateInv); and its       *)
(* policy ceiling, provided no request sets a negative limit (CInv).       *)
(***************************************************************************)
EXTENDS SessionManagerProofs

\* Execution ids are used once.
Ids ==
    /\ \A e \in done \cup cancelled : e < nextExec
    /\ \A s \in Sessions : control[s] < nextExec
    /\ \A c \in Clients : exec[c] < nextExec
    /\ \A c \in Clients : pc[c] \in {"run", "settle"} => exec[c] # NoExec
    /\ \A c \in Clients : pc[c] = "run" => exec[c] \notin done
    /\ \A c, k \in Clients :
          pc[c] \in {"run", "settle"} /\ pc[k] \in {"run", "settle"} /\ exec[c] = exec[k]
             => c = k

\* From CancelMark to CancelFire: the execution to be cancelled is shown as
\* canceling wherever it is shown.
Marked ==
    \A c \in Clients : pc[c] = "fire" =>
        /\ exec[c] # NoExec
        /\ \A s \in Sessions : control[s] = exec[c] => snapshot[s].status = "canceling"

IInv ==
    /\ Base
    /\ Ids
    /\ SlotTruthful
    /\ Marked
    /\ CancelHitsExpected
    /\ CancelIsVisible
    /\ CheckpointInert
    /\ ClosedIsQuiet

\* IInv holds at first: no session exists and nobody calls.
LEMMA InitIInv == Init => IInv
  BY InitBase
  DEF Init, IInv, Base, TypeOK, RecordTypes, Ids, SlotTruthful, Marked, CancelHitsExpected,
      CancelIsVisible, CheckpointInert, ClosedIsQuiet, NewSnapshot, Occupies, NoExec
-----------------------------------------------------------------------------
(***************************************************************************)
(* What a step does to the slots: Effects.                                 *)
(***************************************************************************)
LEMMA Fields ==
    ASSUME NEW snap \in Snapshots
    PROVE  /\ snap.exec \in Nat /\ snap.status \in Statuses
           /\ WithoutExecution(snap).exec = NoExec
           /\ WithoutExecution(snap).status = "none"
           /\ \A e \in Nat : /\ WithExecution(snap, e).exec = e
                             /\ WithExecution(snap, e).status = "running"
           /\ \A g \in Nat : /\ Projected(snap, g).exec = snap.exec
                             /\ Projected(snap, g).status = snap.status
           /\ \A rt \in Runtimes : /\ MergeSessionState(snap, rt).exec = snap.exec
                                   /\ MergeSessionState(snap, rt).status = snap.status
  BY DEF Snapshots, WithoutExecution, WithExecution, Projected, MergeSessionState

\* The slot of s is shown as empty.
Vacant(s) == control[s] = NoExec /\ snapshot[s].exec = NoExec /\ snapshot[s].status = "none"

Inside == {"run", "settle", "fire"}

SameSlot(s) ==
    /\ control'[s] = control[s]
    /\ snapshot'[s].exec = snapshot[s].exec
    /\ snapshot'[s].status = snapshot[s].status

\* A step of c that has nothing to do with slots.
Quiet(c) ==
    /\ \A s \in Sessions : SameSlot(s)
    /\ UNCHANGED global
    /\ pc[c] \notin Inside /\ pc'[c] \notin Inside
    /\ exec'[c] \in {exec[c], NoExec}

\* A step of c that empties the slot of s, whose command has finished.
Emptied(c, s) ==
    /\ Vacant(s)'
    /\ \A r \in Sessions \ {s} : SameSlot(r)
    /\ UNCHANGED global
    /\ pc[c] \notin {"run", "fire"} /\ pc'[c] \notin Inside
    /\ pc[c] = "settle" => SessionOf(c) = s
    /\ exec'[c] \in {exec[c], NoExec}
    /\ \A k \in Clients : Occupies(k, s) => pc[k] = "settle"

\* Nobody occupies a session that another client holds, or that is not open.
LEMMA VacantWhen ==
    ASSUME IInv, NEW s \in Sessions,
           \/ \E c \in Clients : /\ pc[c] \in Held \ {"run", "settle"}
                                 /\ SessionOf(c) = s
           \/ life[s] # "open"
    PROVE  Vacant(s)
  <1>1. ASSUME NEW k \in Clients, Occupies(k, s)
        PROVE  FALSE
    <2>1. /\ executeMu[s] = k /\ pc[k] \in {"run", "settle"}
          /\ life[s] = "open"
      BY <1>1 DEF Occupies, IInv, Base, CriticalSections, Held, OpenHasRuntime, IsClosed
    <2> QED BY <2>1 DEF IInv, Base, CriticalSections
  <1>2. control[s] = NoExec
    BY <1>1 DEF IInv, SlotTruthful
  <1> QED BY <1>2 DEF Vacant, IInv, SlotTruthful

\* A client's own session is one.
LEMMA Own ==
    ASSUME IInv, NEW c \in Clients
    PROVE  /\ SessionOf(c) \in Sessions
           /\ \A s \in Sessions : snapshot[s] \in Snapshots /\ checkpoint[s] \in Snapshots
           /\ \A s \in Sessions : control[s] \in Nat /\ generation[s] \in Nat
           /\ exec[c] \in Nat /\ exec[c] < nextExec
           /\ LocalTypes /\ RecordTypes /\ ExecTypes /\ LockTypes
  BY DEF IInv, Base, TypeOK, LocalTypes, RecordTypes, SessionOf, Calls, Ids

\* ClearSlot, where the code has found the done channel closed.
LEMMA Clears ==
    ASSUME IInv, NEW c \in Clients, NEW s \in Sessions, ClearSlot(s), ExecutionFinished(s),
           UNCHANGED global, pc[c] \notin Inside, pc'[c] \notin Inside,
           exec'[c] \in {exec[c], NoExec}
    PROVE  Emptied(c, s)
  <1>1. \A k \in Clients : Occupies(k, s) => pc[k] = "settle"
    BY DEF IInv, SlotTruthful, Ids, Occupies, ExecutionFinished
  <1>2. Vacant(s)' /\ \A r \in Sessions \ {s} : SameSlot(r)
    BY Own, Fields DEF ClearSlot, Vacant, SameSlot, RecordTypes
  <1> QED BY <1>1, <1>2 DEF Emptied, Inside

\* Every step either leaves the slots alone, or empties the slot of one session,
\* or is one of the four steps that set, mark, cancel or end an execution.
LEMMA Effects ==
    ASSUME IInv, TypeOK', NEW c \in Clients, Step(c)
    PROVE  \/ Quiet(c)
           \/ \E s \in Sessions : Emptied(c, s)
           \/ CancelMark(c)
           \/ CancelFire(c)
           \/ ExecuteInstall(c)
           \/ EndCommand(c)
  <1> USE DEF records, locks, local, Inside
  <1>t. /\ SessionOf(c) \in Sessions
        /\ snapshot \in [Sessions -> Snapshots] /\ control \in [Sessions -> Nat]
        /\ pc \in [Clients -> Locations] /\ exec \in [Clients -> Nat]
    BY Own DEF LocalTypes, RecordTypes
  <1>f. /\ snapshot[SessionOf(c)] \in Snapshots /\ checkpoint[SessionOf(c)] \in Snapshots
        /\ NextGeneration(SessionOf(c)) \in Nat
    BY Own DEF RecordTypes, NextGeneration
  <1>r. ASSUME NEW r, Return(c, r)
        PROVE  pc'[c] = "idle" /\ exec'[c] = NoExec
    BY <1>t, <1>r DEF Return, Goto
  <1>a. ASSUME NEW r, Answer(c, r)
        PROVE  pc[c] = "idle" /\ pc'[c] = "idle" /\ exec' = exec
    BY <1>a DEF Answer, MayCall
  <1>e. ASSUME NEW k, NEW l, Enter(c, k, l)
        PROVE  pc[c] = "idle" /\ pc'[c] = l /\ exec' = exec
    BY <1>t, <1>e DEF Enter, Goto, MayCall
  <1>c. ASSUME NEW l, Continue(c, l)
        PROVE  pc'[c] = l
    BY <1>t, <1>c DEF Continue, Goto
  <1>q. ASSUME UNCHANGED <<control, snapshot, global>>,
               pc[c] \notin Inside, pc'[c] \notin Inside, exec'[c] \in {exec[c], NoExec}
        PROVE  Quiet(c)
    BY <1>q DEF Quiet, SameSlot
  <1>v. ASSUME NEW s \in Sessions, Vacant(s), Vacant(s)',
               \A r \in Sessions \ {s} : snapshot'[r] = snapshot[r] /\ control'[r] = control[r],
               UNCHANGED global,
               pc[c] \notin Inside, pc'[c] \notin Inside, exec'[c] \in {exec[c], NoExec}
        PROVE  Quiet(c)
    BY <1>v DEF Quiet, SameSlot, Vacant
  <1>1. CASE StartSomeCall(c)
    <2>1. ASSUME NEW s \in Sessions, NEW d \in Dirs, NEW p, Create(c, s, d, p)
          PROVE  Quiet(c)
      <3>1. Vacant(s)
        BY <2>1, VacantWhen DEF Create
      <3>2. /\ snapshot'[s] = NewSnapshot(d, FirstGeneration(s)) /\ control'[s] = control[s]
            /\ \A r \in Sessions \ {s} : snapshot'[r] = snapshot[r] /\ control'[r] = control[r]
        BY <1>t, <2>1 DEF Create
      <3>3. Vacant(s)'
        BY <3>1, <3>2 DEF NewSnapshot, Vacant
      <3> QED BY <1>a, <1>v, <2>1, <3>1, <3>2, <3>3 DEF Create
    <2>2. ASSUME NEW s \in Sessions, Get(c, s)
          PROVE  Quiet(c) \/ Emptied(c, s)
      <3>1. pc[c] = "idle" /\ pc'[c] = "idle" /\ exec' = exec /\ UNCHANGED global
        BY <1>a, <2>2 DEF Get
      <3> QED BY <1>q, <2>2, <3>1, Clears DEF Get
    <2>3. ASSUME NEW s, NEW expect, CancelCall(c, s, expect)
          PROVE  Quiet(c)
      <3>1. pc[c] = "idle" /\ pc'[c] = "cancel" /\ exec' = exec
        BY <1>e, <2>3 DEF CancelCall
      <3> QED BY <1>q, <2>3, <3>1 DEF CancelCall
    <2>4. ASSUME NEW op, NEW s, NEW ask, NEW blank, LookupManaged(c, op, s, ask, blank)
          PROVE  Quiet(c)
      BY <1>a, <1>e, <1>q, <2>4 DEF LookupManaged
    <2> QED BY <1>1, <2>1, <2>2, <2>3, <2>4 DEF StartSomeCall
  <1>2. CASE CancelRefused(c)
    <2>1. /\ pc[c] = "cancel" /\ pc'[c] = "idle" /\ exec'[c] = NoExec /\ UNCHANGED global
      BY <1>r, <1>2 DEF CancelRefused
    <2>2. CASE ClearSlot(SessionOf(c)) /\ ExecutionFinished(SessionOf(c))
      BY <1>t, <2>1, <2>2, Clears
    <2>3. CASE UNCHANGED <<control, snapshot>>
      BY <1>q, <2>1, <2>3
    <2> QED BY <1>2, <2>2, <2>3 DEF CancelRefused, CancelRefusal
  <1>3. CASE CancelAgain(c)
    BY <1>r, <1>q, <1>3 DEF CancelAgain
  <1>4. CASE ExecuteStep(c)
    <2>s. PICK s \in Sessions : s = SessionOf(c)
      BY <1>t
    <2>1. CASE ExecuteRefused(c)
      BY <2>s, <1>r, <1>q, <2>1 DEF ExecuteRefused
    <2>2. CASE ExecuteAdmitted(c)
      BY <2>s, <1>c, <1>q, <2>2 DEF ExecuteAdmitted
    <2>o. ASSUME pc[c] = "settle", NEW k \in Clients, Occupies(k, s)
          PROVE  pc[k] = "settle"
      <3>1. executeMu[s] = c /\ executeMu[s] = k
        BY <2>s, <1>t, <2>o DEF IInv, SlotTruthful, Base, CriticalSections, Held
      <3> QED BY <2>s, <2>o, <3>1
    <2>3. CASE ExecuteSettle(c)
      <3> DEFINE cleared == WithoutExecution(snapshot[s])
                 merged == MergeSessionState(cleared, RuntimeOf(c))
      <3>1. /\ pc[c] = "settle" /\ pc'[c] = "idle" /\ exec'[c] = NoExec /\ UNCHANGED global
            /\ control' = [control EXCEPT ![s] = NoExec]
            /\ RuntimeOf(c) \in Runtimes
        BY <2>s, <1>r, <2>3, RuntimeThere DEF ExecuteSettle, IInv
      <3>2. cleared \in Snapshots /\ cleared.exec = NoExec /\ cleared.status = "none"
        BY <2>s, <1>f, Fields, SnapshotsTyped
      <3>3. merged.exec = NoExec /\ merged.status = "none"
        BY <2>s, <3>1, <3>2, Fields
      <3>4. /\ snapshot'[s] = cleared \/ snapshot'[s] = merged
            /\ \A r \in Sessions \ {s} : snapshot'[r] = snapshot[r]
        <4>1. CASE snapshot' = [snapshot EXCEPT ![s] = cleared]
          <5> HIDE DEF cleared
          <5> QED BY <2>s, <1>t, <4>1
        <4>2. CASE snapshot' = [snapshot EXCEPT ![s] = merged]
          <5> HIDE DEF merged
          <5> QED BY <2>s, <1>t, <4>2
        <4> QED BY <2>s, <2>3, <4>1, <4>2 DEF ExecuteSettle
      <3>5. control'[s] = NoExec /\ \A r \in Sessions \ {s} : control'[r] = control[r]
        BY <2>s, <1>t, <3>1
      <3>6. Vacant(s)' /\ \A r \in Sessions \ {s} : SameSlot(r)
        <4> HIDE DEF cleared, merged
        <4> QED BY <2>s, <3>2, <3>3, <3>4, <3>5 DEF Vacant, SameSlot
      <3> QED BY <2>s, <1>t, <2>o, <3>1, <3>6 DEF Emptied
    <2>4. CASE ExecuteObserve(c)
      <3>1. /\ pc[c] = "settle" /\ pc'[c] = "observe" /\ exec'[c] = exec[c] /\ UNCHANGED global
            /\ ClearSlot(s)
        BY <2>s, <1>c, <2>4 DEF ExecuteObserve
      <3>2. /\ WithoutExecution(snapshot[s]).exec = NoExec
            /\ WithoutExecution(snapshot[s]).status = "none"
        BY <2>s, <1>f, Fields
      <3>3. /\ snapshot'[s] = WithoutExecution(snapshot[s]) /\ control'[s] = NoExec
            /\ \A r \in Sessions \ {s} : snapshot'[r] = snapshot[r] /\ control'[r] = control[r]
        BY <2>s, <1>t, <3>1 DEF ClearSlot
      <3>4. Vacant(s)' /\ \A r \in Sessions \ {s} : SameSlot(r)
        BY <2>s, <3>2, <3>3 DEF Vacant, SameSlot
      <3> QED BY <2>s, <1>t, <2>o, <3>1, <3>4 DEF Emptied
    <2>5. CASE ExecuteObserved(c)
      <3> DEFINE g == NextGeneration(s)
                 merged == Projected(MergeSessionState(snapshot[s], RuntimeOf(c)), g)
      <3>1. /\ pc[c] = "observe" /\ pc'[c] = "idle" /\ exec'[c] = NoExec
            /\ UNCHANGED global /\ UNCHANGED control
            /\ RuntimeOf(c) \in Runtimes
        BY <2>s, <1>r, <2>5, RuntimeThere DEF ExecuteObserved, IInv
      <3>2. Vacant(s)
        BY <2>s, <1>t, <3>1, VacantWhen DEF Held
      <3>3. MergeSessionState(snapshot[s], RuntimeOf(c)) \in Snapshots
        BY <2>s, <1>f, <3>1, SnapshotsTyped
      <3>4. merged.exec = NoExec /\ merged.status = "none"
        BY <2>s, <1>f, <3>1, <3>2, <3>3, Fields DEF Vacant
      <3>5. \/ UNCHANGED snapshot
            \/ snapshot' = [snapshot EXCEPT ![s] = merged]
        BY <2>s, <2>5 DEF ExecuteObserved
      <3>6. CASE UNCHANGED snapshot
        BY <2>s, <1>q, <3>1, <3>6
      <3>7. CASE snapshot' = [snapshot EXCEPT ![s] = merged]
        <4> HIDE DEF merged
        <4> QED BY <2>s, <1>t, <1>v, <3>1, <3>2, <3>4, <3>7 DEF Vacant
      <3> QED BY <2>s, <3>5, <3>6, <3>7
    <2> QED BY <2>s, <1>4, <2>1, <2>2, <2>3, <2>4, <2>5 DEF ExecuteStep
  <1>5. CASE StoreStep(c)
    <2>s. PICK s \in Sessions : s = SessionOf(c)
      BY <1>t
    <2>1. CASE StoreRefused(c)
      BY <2>s, <1>r, <1>q, <2>1 DEF StoreRefused
    <2>2. CASE StoreAdmitted(c)
      BY <2>s, <1>c, <1>q, <2>2 DEF StoreAdmitted
    <2>3. CASE StoreHook(c)
      BY <2>s, <1>c, <1>q, <2>3 DEF StoreHook
    <2>n. ASSUME NEW next \in Snapshots, StoreSession(c, next), Vacant(s),
                 next.exec = NoExec, next.status = "none"
          PROVE  /\ Vacant(s)'
                 /\ \A r \in Sessions \ {s} : snapshot'[r] = snapshot[r] /\ control'[r] = control[r]
      <3>1. WithoutExecution(next).exec = NoExec /\ WithoutExecution(next).status = "none"
        BY <2>s, <2>n, Fields
      <3>2. CASE CheckpointStore(s, next)
        BY <2>s, <1>t, <2>n, <3>2 DEF CheckpointStore, Vacant
      <3>3. CASE CloseStore(s, next)
        BY <2>s, <1>t, <2>n, <3>1, <3>3 DEF CloseStore, Vacant
      <3> QED BY <2>s, <2>n, <3>2, <3>3 DEF StoreSession
    <2>4. CASE Store(c)
      <3> DEFINE next == MergeSessionState(snapshot[s], runtime[s])
      <3>1. /\ pc[c] = "store" /\ pc'[c] = "idle" /\ exec'[c] = NoExec /\ UNCHANGED global
            /\ runtime[s] \in Runtimes
        BY <2>s, <1>r, <2>4, RuntimeThere DEF Store, IInv, Held
      <3>2. Vacant(s)
        BY <2>s, <1>t, <3>1, VacantWhen DEF Held
      <3>3. next \in Snapshots /\ next.exec = NoExec /\ next.status = "none"
        BY <2>s, <1>f, <3>1, <3>2, Fields, SnapshotsTyped DEF Vacant
      <3>4. StoreSession(c, next)
        BY <2>s, <2>4 DEF Store
      <3> HIDE DEF next
      <3> QED BY <2>s, <1>t, <1>v, <2>n, <3>1, <3>2, <3>3, <3>4
    <2>5. CASE StoreHooked(c)
      <3> DEFINE g == NextGeneration(s)
                 next == Projected(MergeSessionState(snapshot[s], runtime[s]), g)
      <3>1. /\ pc[c] = "hook" /\ pc'[c] = "idle" /\ exec'[c] = NoExec /\ UNCHANGED global
            /\ runtime[s] \in Runtimes
        BY <2>s, <1>r, <2>5, RuntimeThere DEF StoreHooked, IInv, Held
      <3>2. Vacant(s)
        BY <2>s, <1>t, <3>1, VacantWhen DEF Held
      <3>3. MergeSessionState(snapshot[s], runtime[s]) \in Snapshots
        BY <2>s, <1>f, <3>1, SnapshotsTyped
      <3>4. next \in Snapshots /\ next.exec = NoExec /\ next.status = "none"
        <4> DEFINE m == MergeSessionState(snapshot[s], runtime[s])
        <4>1. m \in Snapshots /\ m.exec = NoExec /\ m.status = "none" /\ g \in Nat
          BY <2>s, <1>f, <3>1, <3>2, <3>3, Fields DEF Vacant
        <4> HIDE DEF m, g
        <4>2. Projected(m, g).exec = NoExec /\ Projected(m, g).status = "none"
          BY <4>1, Fields
        <4>3. Projected(m, g) \in Snapshots
          BY <4>1, SnapshotsTyped
        <4> QED BY <4>2, <4>3 DEF m
      <3>5. StoreSession(c, next) \/ UNCHANGED <<control, snapshot>>
        BY <2>s, <2>5 DEF StoreHooked
      <3> HIDE DEF next
      <3>6. CASE StoreSession(c, next)
        BY <2>s, <1>t, <1>v, <2>n, <3>1, <3>2, <3>4, <3>6
      <3>7. CASE UNCHANGED <<control, snapshot>>
        BY <2>s, <1>q, <3>1, <3>7
      <3> QED BY <2>s, <3>5, <3>6, <3>7
    <2> QED BY <2>s, <1>5, <2>1, <2>2, <2>3, <2>4, <2>5 DEF StoreStep
  <1>6. CASE ResumeStep(c)
    <2>s. PICK s \in Sessions : s = SessionOf(c)
      BY <1>t
    <2>1. CASE ResumeOpen(c)
      BY <2>s, <1>r, <1>q, <2>1 DEF ResumeOpen
    <2>2. CASE ResumeClosed(c)
      BY <2>s, <1>c, <1>q, <2>2 DEF ResumeClosed
    <2>3. CASE ResumeRebuild(c)
      BY <2>s, <1>r, <1>c, <1>q, <2>3 DEF ResumeRebuild
    <2>4. CASE ResumeStore(c)
      <3> DEFINE next == Projected(checkpoint[s], scratch[c].mounts)
      <3>1. /\ pc[c] = "reopen" /\ pc'[c] = "idle" /\ exec'[c] = NoExec
            /\ UNCHANGED global /\ UNCHANGED control
        BY <2>s, <1>r, <2>4 DEF ResumeStore
      <3>2. Vacant(s)
        BY <2>s, <1>t, <3>1, VacantWhen DEF Held
      <3>3. scratch[c].mounts \in Nat
        BY <2>s, <3>1, Own DEF IInv, Base, Locals, LocalTypes, Runtimes
      <3>4. next.exec = NoExec /\ next.status = "none"
        <4>1. /\ checkpoint[s] \in Snapshots
              /\ checkpoint[s].exec = NoExec /\ checkpoint[s].status = "none"
          BY <2>s, <1>f DEF IInv, CheckpointInert
        <4> QED BY <3>3, <4>1, Fields
      <3>5. snapshot' = [snapshot EXCEPT ![s] = next]
        BY <2>s, <2>4 DEF ResumeStore
      <3> HIDE DEF next
      <3> QED BY <2>s, <1>t, <1>v, <3>1, <3>2, <3>4, <3>5 DEF Vacant
    <2> QED BY <2>s, <1>6, <2>1, <2>2, <2>3, <2>4 DEF ResumeStep
  <1> QED BY <1>1, <1>2, <1>3, <1>4, <1>5, <1>6 DEF Step, CallStep, CancelStep, ExecuteStep
-----------------------------------------------------------------------------
(***************************************************************************)
(* Each part of IInv is kept by every step.                                *)
(***************************************************************************)
\* The facts about a step that all parts use.
StepFacts(c) ==
    /\ Frame(c)
    /\ Base'
    /\ \/ Quiet(c)
       \/ \E s \in Sessions : Emptied(c, s)
       \/ CancelMark(c)
       \/ CancelFire(c)
       \/ ExecuteInstall(c)
       \/ EndCommand(c)

\* Any step of a client has the facts the lemmas below use.
LEMMA StepsHaveFacts ==
    ASSUME IInv, [Next]_vars, NEW c \in Clients, Step(c)
    PROVE  StepFacts(c)
  <1>1. Base'
    BY NextBase DEF IInv
  <1>2. TypeOK'
    BY <1>1 DEF Base
  <1> QED BY <1>1, <1>2, StepFrame, Effects DEF StepFacts, IInv

\* The sessions of the other clients are theirs still.
LEMMA OthersOccupy ==
    ASSUME NEW c \in Clients, Frame(c), NEW k \in Clients \ {c}, NEW s \in Sessions
    PROVE  /\ Occupies(k, s)' <=> Occupies(k, s)
           /\ pc'[k] = pc[k] /\ exec'[k] = exec[k] /\ SessionOf(k)' = SessionOf(k)
           /\ call'[k] = call[k]
  BY DEF Frame, OthersKept, Occupies, SessionOf

\* What the four steps that concern a slot do to it.
LEMMA MarkEffect ==
    ASSUME IInv, NEW c \in Clients, CancelMark(c)
    PROVE  \E s \in Sessions :
              /\ pc[c] = "cancel" /\ pc'[c] = "fire"
              /\ control[s] # NoExec /\ exec'[c] = control[s] /\ call[c].expect = control[s]
              /\ call'[c] = call[c]
              /\ UNCHANGED <<control, global>>
              /\ snapshot'[s].exec = snapshot[s].exec /\ snapshot'[s].status = "canceling"
              /\ \A r \in Sessions \ {s} : SameSlot(r)
  <1> PICK s \in Sessions : s = SessionOf(c)
    BY Own
  <1>1. /\ snapshot \in [Sessions -> Snapshots]
        /\ pc \in [Clients -> Locations] /\ exec \in [Clients -> Nat]
    BY Own DEF LocalTypes, RecordTypes
  <1>2. control[s] # NoExec /\ snapshot[s].exec = call[c].expect /\ control[s] = snapshot[s].exec
    BY DEF CancelMark, CancelRefusal, IInv, SlotTruthful
  <1>3. /\ pc[c] = "cancel" /\ pc'[c] = "fire" /\ call'[c] = call[c]
        /\ exec'[c] = control[s] /\ UNCHANGED <<control, global>>
    BY <1>1 DEF CancelMark, Continue, Goto
  <1>4. /\ snapshot'[s] = [snapshot[s] EXCEPT !.status = "canceling"]
        /\ \A r \in Sessions \ {s} : snapshot'[r] = snapshot[r]
    BY <1>1 DEF CancelMark
  <1>5. snapshot'[s].exec = snapshot[s].exec /\ snapshot'[s].status = "canceling"
    BY <1>1, <1>4 DEF Snapshots
  <1> QED BY <1>2, <1>3, <1>4, <1>5 DEF SameSlot

\* CancelFire cancels the marked execution and touches no slot.
LEMMA FireEffect ==
    ASSUME IInv, NEW c \in Clients, CancelFire(c)
    PROVE  /\ pc[c] = "fire" /\ pc'[c] = "idle" /\ exec'[c] = NoExec
           /\ \A s \in Sessions : SameSlot(s)
           /\ cancelled' = cancelled \cup {exec[c]}
           /\ UNCHANGED <<done, nextExec>>
  BY Own DEF CancelFire, Return, Goto, LocalTypes, records, SameSlot

\* ExecuteInstall fills an empty slot with an execution never seen before.
LEMMA InstallEffect ==
    ASSUME IInv, NEW c \in Clients, ExecuteInstall(c)
    PROVE  \E s \in Sessions :
              /\ s = SessionOf(c)
              /\ pc[c] = "install" /\ pc'[c] = "run" /\ call'[c] = call[c]
              /\ exec'[c] = nextExec /\ nextExec' = nextExec + 1
              /\ UNCHANGED <<done, cancelled, executeMu>>
              /\ control'[s] = nextExec
              /\ snapshot'[s].exec = nextExec /\ snapshot'[s].status = "running"
              /\ \A r \in Sessions \ {s} : SameSlot(r)
              /\ Vacant(s)
  <1> PICK s \in Sessions : s = SessionOf(c)
    BY Own
  <1>1. /\ snapshot \in [Sessions -> Snapshots] /\ control \in [Sessions -> Nat]
        /\ pc \in [Clients -> Locations] /\ exec \in [Clients -> Nat] /\ nextExec \in Nat
    BY Own DEF LocalTypes, RecordTypes, ExecTypes
  <1>2. /\ pc[c] = "install" /\ pc'[c] = "run" /\ call'[c] = call[c]
        /\ exec'[c] = nextExec /\ nextExec' = nextExec + 1
        /\ UNCHANGED <<done, cancelled, executeMu>>
    BY <1>1 DEF ExecuteInstall, Continue, Goto, locks
  <1>3. /\ snapshot'[s] = WithExecution(snapshot[s], nextExec) /\ control'[s] = nextExec
        /\ \A r \in Sessions \ {s} : snapshot'[r] = snapshot[r] /\ control'[r] = control[r]
    BY <1>1 DEF ExecuteInstall
  <1>4. snapshot'[s].exec = nextExec /\ snapshot'[s].status = "running"
    BY <1>1, <1>3, Fields
  <1>5. Vacant(s)
    BY <1>2, VacantWhen DEF Held
  <1> QED BY <1>2, <1>3, <1>4, <1>5 DEF SameSlot

\* The end of a command closes its done channel and leaves its slot as it is.
LEMMA FinishEffect ==
    ASSUME IInv, NEW c \in Clients, EndCommand(c)
    PROVE  /\ pc[c] = "run" /\ pc'[c] = "settle" /\ call'[c] = call[c] /\ exec' = exec
           /\ done' = done \cup {exec[c]}
           /\ UNCHANGED <<cancelled, nextExec, executeMu>>
           /\ \A s \in Sessions : SameSlot(s)
  BY Own DEF EndCommand, ExecuteFinish, Continue, Goto, LocalTypes, locks, SameSlot

\* Ids are never used twice.
LEMMA NextIds ==
    ASSUME IInv, NEW c \in Clients, StepFacts(c)
    PROVE  Ids'
  <1> USE DEF Ids, NoExec
  <1>o. /\ Frame(c) /\ Ids
        /\ \A k \in Clients \ {c} : pc'[k] = pc[k] /\ exec'[k] = exec[k]
    BY OthersOccupy DEF StepFacts, IInv, Frame, OthersKept
  <1>t. /\ nextExec \in Nat /\ exec[c] \in Nat /\ 0 < nextExec
        /\ \A s \in Sessions : control[s] \in Nat
    BY Own DEF ExecTypes
  <1>p. ASSUME UNCHANGED global, pc'[c] \notin Inside, exec'[c] \in {exec[c], NoExec},
               \A s \in Sessions : control'[s] \in {control[s], NoExec}
        PROVE  Ids'
    BY <1>o, <1>t, <1>p DEF global, Inside
  <1>1. CASE Quiet(c)
    BY <1>1, <1>p DEF Quiet, SameSlot
  <1>2. ASSUME NEW s \in Sessions, Emptied(c, s)
        PROVE  Ids'
    BY <1>2, <1>p DEF Emptied, SameSlot, Vacant
  <1>3. CASE CancelMark(c)
    <2>1. PICK s \in Sessions : /\ pc'[c] = "fire" /\ exec'[c] = control[s]
                                /\ UNCHANGED <<control, global>>
      BY <1>3, MarkEffect
    <2> QED BY <1>o, <1>t, <2>1 DEF global
  <1>4. CASE CancelFire(c)
    <2>1. /\ pc'[c] = "idle" /\ exec'[c] = 0 /\ cancelled' = cancelled \cup {exec[c]}
          /\ UNCHANGED <<done, nextExec>> /\ \A s \in Sessions : control'[s] = control[s]
      BY <1>4, FireEffect DEF SameSlot
    <2> QED BY <1>o, <1>t, <2>1
  <1>5. CASE ExecuteInstall(c)
    <2>1. PICK s \in Sessions :
             /\ pc'[c] = "run" /\ exec'[c] = nextExec /\ nextExec' = nextExec + 1
             /\ UNCHANGED <<done, cancelled>> /\ control'[s] = nextExec
             /\ \A r \in Sessions \ {s} : control'[r] = control[r]
      BY <1>5, InstallEffect DEF SameSlot
    <2>2. /\ \A e \in (done \cup cancelled)' : e < nextExec'
          /\ \A r \in Sessions : control'[r] < nextExec'
          /\ \A k \in Clients : exec'[k] < nextExec'
      <3>1. done \subseteq Nat /\ cancelled \subseteq Nat /\ \A k \in Clients : exec[k] \in Nat
        BY Own DEF ExecTypes
      <3> QED BY <1>o, <1>t, <2>1, <3>1
    <2>3. /\ \A k \in Clients : pc'[k] \in {"run", "settle"} => exec'[k] # 0
          /\ \A k \in Clients : pc'[k] = "run" => exec'[k] \notin done'
      BY <1>o, <1>t, <2>1
    <2>4. \A k \in Clients \ {c} : exec'[k] # exec'[c]
      BY <1>o, <1>t, <2>1
    <2> QED BY <1>o, <2>1, <2>2, <2>3, <2>4
  <1>6. CASE EndCommand(c)
    <2>1. /\ pc[c] = "run" /\ pc'[c] = "settle" /\ exec' = exec
          /\ done' = done \cup {exec[c]} /\ UNCHANGED <<cancelled, nextExec>>
          /\ \A s \in Sessions : control'[s] = control[s]
      BY <1>6, FinishEffect DEF SameSlot
    <2> QED BY <1>o, <1>t, <2>1
  <1> QED BY <1>1, <1>2, <1>3, <1>4, <1>5, <1>6 DEF StepFacts

\* What is shown is what occupies the session.
LEMMA NextSlotTruthful ==
    ASSUME IInv, NEW c \in Clients, StepFacts(c)
    PROVE  SlotTruthful'
  <1>b. /\ SlotTruthful /\ Ids /\ Frame(c) /\ CriticalSections'
        /\ nextExec # NoExec /\ c # Free
    BY Own, SessionsAssumption DEF IInv, StepFacts, Base, ExecTypes, NoExec
  <1>s. SUFFICES ASSUME NEW s \in Sessions
        PROVE  /\ control'[s] = snapshot'[s].exec
               /\ (control'[s] = NoExec) <=> (snapshot'[s].status = "none")
               /\ control'[s] # NoExec =>
                     \E k \in Clients : Occupies(k, s)' /\ exec'[k] = control'[s]
               /\ \A k \in Clients : Occupies(k, s)' =>
                     executeMu'[s] = k /\ (pc'[k] = "run" => control'[s] = exec'[k])
    BY DEF SlotTruthful
  <1>o. \A k \in Clients \ {c} :
           /\ Occupies(k, s)' <=> Occupies(k, s)
           /\ pc'[k] = pc[k] /\ exec'[k] = exec[k]
    BY <1>b, OthersOccupy
  <1>l. \A k \in Clients : Occupies(k, s)' => executeMu'[s] = k
    BY <1>b DEF Occupies, CriticalSections, Held, SessionOf
  <1>k. ASSUME SameSlot(s), ~ Occupies(c, s), ~ Occupies(c, s)'
        PROVE  /\ control'[s] # NoExec =>
                     \E k \in Clients : Occupies(k, s)' /\ exec'[k] = control'[s]
               /\ \A k \in Clients : Occupies(k, s)' /\ pc'[k] = "run" => control'[s] = exec'[k]
    BY <1>b, <1>o, <1>k DEF SlotTruthful, SameSlot
  <1>v. ASSUME Vacant(s)', \A k \in Clients : Occupies(k, s) => pc[k] = "settle",
               ~ Occupies(c, s)'
        PROVE  \A k \in Clients : Occupies(k, s)' /\ pc'[k] = "run" => control'[s] = exec'[k]
    BY <1>o, <1>v DEF Vacant
  <1>1. CASE Quiet(c)
    <2>1. ~ Occupies(c, s) /\ ~ Occupies(c, s)' /\ SameSlot(s)
      BY <1>1 DEF Quiet, Occupies, Inside
    <2> QED BY <1>b, <1>l, <1>k, <2>1 DEF SlotTruthful, SameSlot
  <1>2. ASSUME NEW r \in Sessions, Emptied(c, r)
        PROVE  /\ control'[s] = snapshot'[s].exec
               /\ (control'[s] = NoExec) <=> (snapshot'[s].status = "none")
               /\ control'[s] # NoExec =>
                     \E k \in Clients : Occupies(k, s)' /\ exec'[k] = control'[s]
               /\ \A k \in Clients : Occupies(k, s)' =>
                     executeMu'[s] = k /\ (pc'[k] = "run" => control'[s] = exec'[k])
    <2>0. ~ Occupies(c, s)'
      BY <1>2 DEF Emptied, Occupies, Inside
    <2>1. CASE s = r
      BY <1>l, <1>v, <1>2, <2>0, <2>1 DEF Emptied, Vacant
    <2>2. CASE s # r
      <3>1. ~ Occupies(c, s) /\ SameSlot(s)
        BY <1>2, <2>2 DEF Emptied, Occupies
      <3> QED BY <1>b, <1>l, <1>k, <2>0, <3>1 DEF SlotTruthful, SameSlot
    <2> QED BY <2>1, <2>2
  <1>3. CASE CancelMark(c)
    <2>1. PICK r \in Sessions : /\ pc[c] = "cancel" /\ pc'[c] = "fire" /\ control[r] # NoExec
                                /\ UNCHANGED control
                                /\ snapshot'[r].exec = snapshot[r].exec
                                /\ snapshot'[r].status = "canceling"
                                /\ \A q \in Sessions \ {r} : SameSlot(q)
      BY <1>3, MarkEffect
    <2>2. ~ Occupies(c, s) /\ ~ Occupies(c, s)'
      BY <2>1 DEF Occupies
    <2>3. /\ control'[s] = snapshot'[s].exec
          /\ (control'[s] = NoExec) <=> (snapshot'[s].status = "none")
      BY <1>b, <2>1 DEF SlotTruthful, SameSlot
    <2> QED BY <1>b, <1>o, <1>l, <2>1, <2>2, <2>3 DEF SlotTruthful
  <1>4. CASE CancelFire(c)
    <2>1. ~ Occupies(c, s) /\ ~ Occupies(c, s)' /\ SameSlot(s)
      BY <1>4, FireEffect DEF Occupies
    <2> QED BY <1>b, <1>l, <1>k, <2>1 DEF SlotTruthful, SameSlot
  <1>5. CASE ExecuteInstall(c)
    <2>1. PICK r \in Sessions :
             /\ r = SessionOf(c) /\ pc[c] = "install" /\ pc'[c] = "run" /\ call'[c] = call[c]
             /\ exec'[c] = nextExec /\ control'[r] = nextExec
             /\ snapshot'[r].exec = nextExec /\ snapshot'[r].status = "running"
             /\ \A q \in Sessions \ {r} : SameSlot(q)
             /\ Vacant(r)
      BY <1>5, InstallEffect
    <2>2. call[c].op = "execute" /\ ~ Occupies(c, s) /\ (s # r => ~ Occupies(c, s)')
      BY <2>1 DEF IInv, Base, Locals, Occupies, SessionOf
    <2>3. CASE s = r
      <3>1. Occupies(c, s)'
        BY <2>1, <2>2, <2>3 DEF Occupies, SessionOf
      <3>2. \A k \in Clients : Occupies(k, s) => pc[k] # "run"
        BY <1>b, <2>1, <2>3 DEF SlotTruthful, Ids, Vacant
      <3> QED BY <1>b, <1>o, <1>l, <2>1, <2>3, <3>1, <3>2
    <2>4. CASE s # r
      BY <1>b, <1>l, <1>k, <2>1, <2>2, <2>4 DEF SlotTruthful, SameSlot
    <2> QED BY <2>3, <2>4
  <1>6. CASE EndCommand(c)
    <2>1. /\ pc[c] = "run" /\ pc'[c] = "settle" /\ call'[c] = call[c] /\ exec' = exec
          /\ SameSlot(s)
      BY <1>6, FinishEffect
    <2>2. Occupies(c, s) <=> Occupies(c, s)'
      BY <2>1 DEF Occupies, SessionOf
    <2>3. /\ control'[s] = snapshot'[s].exec
          /\ (control'[s] = NoExec) <=> (snapshot'[s].status = "none")
      BY <1>b, <2>1 DEF SlotTruthful, SameSlot
    <2>4. control'[s] # NoExec => \E k \in Clients : Occupies(k, s)' /\ exec'[k] = control'[s]
      BY <1>b, <1>o, <2>1, <2>2 DEF SlotTruthful, SameSlot
    <2>5. \A k \in Clients : Occupies(k, s)' /\ pc'[k] = "run" => control'[s] = exec'[k]
      BY <1>b, <1>o, <2>1, <2>2 DEF SlotTruthful, SameSlot
    <2> QED BY <1>l, <2>3, <2>4, <2>5
  <1> QED BY <1>1, <1>2, <1>3, <1>4, <1>5, <1>6 DEF StepFacts

\* An execution is in one session only: no two clients run it.
LEMMA OneSession ==
    ASSUME IInv, NEW r \in Sessions, NEW s \in Sessions,
           control[r] = control[s], control[s] # NoExec
    PROVE  r = s
  <1>1. PICK j \in Clients : Occupies(j, r) /\ exec[j] = control[r]
    BY DEF IInv, SlotTruthful
  <1>2. PICK k \in Clients : Occupies(k, s) /\ exec[k] = control[s]
    BY DEF IInv, SlotTruthful
  <1>3. j = k
    BY <1>1, <1>2 DEF Occupies, IInv, Ids
  <1> QED BY <1>1, <1>2, <1>3 DEF Occupies

\* A cancel function is called on what the caller has named and marked.
LEMMA NextMarked ==
    ASSUME IInv, NEW c \in Clients, StepFacts(c)
    PROVE  Marked' /\ CancelHitsExpected'
  <1>b. Marked /\ CancelHitsExpected /\ Ids
    BY DEF IInv
  <1>o. /\ Frame(c)
        /\ \A k \in Clients \ {c} : pc'[k] = pc[k] /\ exec'[k] = exec[k] /\ call'[k] = call[k]
    BY DEF StepFacts, Frame, OthersKept
  <1>h. ASSUME NEW s \in Sessions, NEW k \in Clients \ {c}, pc'[k] = "fire",
               control'[s] = exec'[k], SameSlot(s)
        PROVE  snapshot'[s].status = "canceling"
    BY <1>b, <1>o, <1>h DEF Marked, SameSlot
  <1>n. ASSUME NEW k \in Clients \ {c}, pc'[k] = "fire"
        PROVE  exec'[k] # NoExec /\ exec'[k] = call'[k].expect /\ exec'[k] # nextExec
    <2>1. exec[k] < nextExec /\ exec[k] \in Nat /\ nextExec \in Nat
      BY Own DEF ExecTypes
    <2> QED BY <1>b, <1>o, <1>n, <2>1 DEF Marked, CancelHitsExpected
  <1>p. ASSUME pc'[c] # "fire", \A s \in Sessions : SameSlot(s) \/ Vacant(s)'
        PROVE  Marked' /\ CancelHitsExpected'
    BY <1>h, <1>n, <1>p DEF Marked, CancelHitsExpected, Vacant
  <1>1. CASE Quiet(c)
    BY <1>1, <1>p DEF Quiet, Inside
  <1>2. ASSUME NEW s \in Sessions, Emptied(c, s)
        PROVE  Marked' /\ CancelHitsExpected'
    BY <1>2, <1>p DEF Emptied, Inside
  <1>3. CASE CancelMark(c)
    <2>1. PICK s \in Sessions :
             /\ pc'[c] = "fire" /\ call'[c] = call[c]
             /\ control[s] # NoExec /\ exec'[c] = control[s] /\ call[c].expect = control[s]
             /\ UNCHANGED control /\ snapshot'[s].status = "canceling"
             /\ \A r \in Sessions \ {s} : SameSlot(r)
      BY <1>3, MarkEffect
    <2>2. CancelHitsExpected'
      BY <1>n, <2>1 DEF CancelHitsExpected
    <2>3. ASSUME NEW r \in Sessions, control'[r] = exec'[c]
          PROVE  snapshot'[r].status = "canceling"
      BY <2>1, <2>3, OneSession
    <2>4. ASSUME NEW k \in Clients \ {c}, pc'[k] = "fire", NEW r \in Sessions,
                 control'[r] = exec'[k]
          PROVE  snapshot'[r].status = "canceling"
      BY <1>h, <2>1, <2>4
    <2> QED BY <1>n, <2>1, <2>2, <2>3, <2>4 DEF Marked
  <1>4. CASE CancelFire(c)
    BY <1>4, <1>p, FireEffect
  <1>5. CASE ExecuteInstall(c)
    <2>1. PICK s \in Sessions : /\ pc'[c] = "run" /\ control'[s] = nextExec
                                /\ \A r \in Sessions \ {s} : SameSlot(r)
      BY <1>5, InstallEffect
    <2> QED BY <1>h, <1>n, <2>1 DEF Marked, CancelHitsExpected
  <1>6. CASE EndCommand(c)
    BY <1>6, <1>p, FinishEffect
  <1> QED BY <1>1, <1>2, <1>3, <1>4, <1>5, <1>6 DEF StepFacts

\* What a Cancel call has cancelled is shown as canceling.
LEMMA NextCancelIsVisible ==
    ASSUME IInv, NEW c \in Clients, StepFacts(c)
    PROVE  CancelIsVisible'
  <1>b. CancelIsVisible /\ Marked /\ Ids /\ nextExec \in Nat
    BY Own DEF IInv, ExecTypes
  <1>s. SUFFICES ASSUME NEW s \in Sessions, control'[s] # NoExec, control'[s] \in cancelled'
        PROVE  snapshot'[s].status = "canceling"
    BY DEF CancelIsVisible
  <1>p. ASSUME SameSlot(s) \/ Vacant(s)', UNCHANGED cancelled
        PROVE  snapshot'[s].status = "canceling"
    BY <1>b, <1>s, <1>p DEF CancelIsVisible, SameSlot, Vacant
  <1>1. CASE Quiet(c)
    BY <1>1, <1>p DEF Quiet, global
  <1>2. ASSUME NEW r \in Sessions, Emptied(c, r)
        PROVE  snapshot'[s].status = "canceling"
    BY <1>2, <1>p DEF Emptied, global
  <1>3. CASE CancelMark(c)
    <2>1. PICK r \in Sessions : /\ UNCHANGED global /\ snapshot'[r].status = "canceling"
                                /\ \A q \in Sessions \ {r} : SameSlot(q)
      BY <1>3, MarkEffect
    <2> QED BY <1>p, <2>1 DEF global
  <1>4. CASE CancelFire(c)
    <2>1. pc[c] = "fire" /\ SameSlot(s) /\ cancelled' = cancelled \cup {exec[c]}
      BY <1>4, FireEffect
    <2> QED BY <1>b, <1>s, <2>1 DEF CancelIsVisible, Marked, SameSlot
  <1>5. CASE ExecuteInstall(c)
    <2>1. PICK r \in Sessions : /\ control'[r] = nextExec /\ UNCHANGED cancelled
                                /\ \A q \in Sessions \ {r} : SameSlot(q)
      BY <1>5, InstallEffect
    <2>2. nextExec \notin cancelled
      BY <1>b DEF Ids
    <2> QED BY <1>s, <1>p, <2>1, <2>2
  <1>6. CASE EndCommand(c)
    BY <1>6, <1>p, FinishEffect
  <1> QED BY <1>1, <1>2, <1>3, <1>4, <1>5, <1>6 DEF StepFacts
-----------------------------------------------------------------------------
(***************************************************************************)
(* What is kept for Resume.                                                *)
(***************************************************************************)
\* The checkpoint of s shows no execution, and is all a closed s shows.
Stored(s) ==
    /\ checkpoint[s].exec = NoExec /\ checkpoint[s].status = "none"
    /\ life[s] = "closed" => snapshot[s] = checkpoint[s]

\* A snapshot that shows no execution stays as it is when that is cleared.
LEMMA ClearedTwice ==
    ASSUME NEW snap \in Snapshots, snap.exec = NoExec, snap.status = "none"
    PROVE  WithoutExecution(snap) = snap
  BY DEF Snapshots, WithoutExecution

\* What Checkpoint or Close stores of an unoccupied session.
LEMMA StoreStores ==
    ASSUME IInv, NEW c \in Clients, NEW s \in Sessions, s = SessionOf(c), life[s] # "closed",
           NEW next \in Snapshots, next.exec = NoExec, next.status = "none",
           StoreSession(c, next)
    PROVE  \A r \in Sessions : Stored(r)'
  <1>1. RecordTypes /\ \A r \in Sessions : Stored(r)
    BY Own DEF IInv, CheckpointInert, ClosedIsQuiet, Stored
  <1>2. CASE CheckpointStore(s, next)
    BY <1>1, <1>2 DEF CheckpointStore, Stored, RecordTypes
  <1>3. CASE CloseStore(s, next)
    <2>1. WithoutExecution(next) = next
      BY ClearedTwice
    <2> QED BY <1>1, <1>3, <2>1 DEF CloseStore, Stored, RecordTypes
  <1> QED BY <1>2, <1>3 DEF StoreSession

\* No step checkpoints an execution, or changes what a closed session shows.
LEMMA NextStored ==
    ASSUME IInv, NEW c \in Clients, Step(c)
    PROVE  \A s \in Sessions : Stored(s)'
  <1> USE DEF records, Held
  <1>t. RecordTypes /\ \A s \in Sessions : Stored(s)
    BY Own DEF IInv, CheckpointInert, ClosedIsQuiet, Stored
  <1>s. PICK s \in Sessions : s = SessionOf(c)
    BY Own
  <1>o. /\ pc[c] \in Held \ {"rebuild", "reopen"} => life[s] # "closed"
        /\ pc[c] \in Held \ {"run", "settle"} => Vacant(s)
    BY <1>s, VacantWhen DEF IInv, Base, CriticalSections, IsClosed
  <1>q. ASSUME UNCHANGED <<checkpoint, life, snapshot>>
        PROVE  \A r \in Sessions : Stored(r)'
    BY <1>t, <1>q DEF Stored
  <1>p. ASSUME NEW q \in Sessions, life[q] # "closed", UNCHANGED <<checkpoint, life>>,
               \A r \in Sessions \ {q} : snapshot'[r] = snapshot[r]
        PROVE  \A r \in Sessions : Stored(r)'
    BY <1>t, <1>p DEF Stored
  <1>v. ASSUME NEW q \in Sessions, control[q] # NoExec
        PROVE  life[q] # "closed"
    BY <1>v DEF IInv, ClosedIsQuiet
  <1>1. ASSUME NEW q \in Sessions, NEW d \in Dirs, NEW p, Create(c, q, d, p)
        PROVE  \A r \in Sessions : Stored(r)'
    <2> DEFINE created == NewSnapshot(d, FirstGeneration(q))
    <2>1. created.exec = NoExec /\ created.status = "none"
      BY DEF NewSnapshot
    <2>2. /\ checkpoint'[q] = created /\ snapshot'[q] = created
          /\ \A r \in Sessions \ {q} : /\ checkpoint'[r] = checkpoint[r]
                                       /\ snapshot'[r] = snapshot[r] /\ life'[r] = life[r]
      BY <1>t, <1>1 DEF Create, RecordTypes
    <2> HIDE DEF created
    <2> QED BY <1>t, <2>1, <2>2 DEF Stored
  <1>2. ASSUME NEW q \in Sessions, Get(c, q)
        PROVE  \A r \in Sessions : Stored(r)'
    BY <1>t, <1>p, <1>q, <1>v, <1>2 DEF Get, ClearSlot, RecordTypes
  <1>3. CASE StartSomeCall(c)
    BY <1>q, <1>1, <1>2, <1>3 DEF StartSomeCall, CancelCall, LookupManaged
  <1>4. CASE CancelStep(c)
    <2>1. CASE CancelRefused(c)
      BY <1>s, <1>t, <1>p, <1>q, <1>v, <2>1 DEF CancelRefused, ClearSlot, RecordTypes
    <2>2. CASE CancelMark(c)
      <3>1. life[s] # "closed"
        BY <1>s, <1>v, <2>2 DEF CancelMark, CancelRefusal
      <3>2. \A r \in Sessions \ {s} : snapshot'[r] = snapshot[r]
        BY <1>s, <1>t, <2>2 DEF CancelMark, RecordTypes
      <3> QED BY <1>p, <2>2, <3>1, <3>2 DEF CancelMark
    <2> QED BY <1>4, <1>q, <2>1, <2>2 DEF CancelStep, CancelAgain, CancelFire
  <1>5. CASE ExecuteStep(c)
    <2>1. CASE ExecuteRefused(c) \/ ExecuteAdmitted(c)
      BY <1>q, <2>1 DEF ExecuteRefused, ExecuteAdmitted
    <2>2. CASE ExecuteInstall(c) \/ ExecuteSettle(c) \/ ExecuteObserve(c) \/ ExecuteObserved(c)
      <3>1. /\ pc[c] \in {"install", "settle", "observe"} /\ UNCHANGED <<checkpoint, life>>
        BY <2>2 DEF ExecuteInstall, ExecuteSettle, ExecuteObserve, ExecuteObserved
      <3>2. \A r \in Sessions \ {s} : snapshot'[r] = snapshot[r]
        BY <1>s, <1>t, <2>2 DEF ExecuteInstall, ExecuteSettle, ExecuteObserve, ExecuteObserved,
           ClearSlot, RecordTypes
      <3> QED BY <1>o, <1>p, <3>1, <3>2
    <2> QED BY <1>5, <2>1, <2>2 DEF ExecuteStep
  <1>6. CASE EndCommand(c)
    BY <1>q, <1>6 DEF EndCommand, ExecuteFinish
  <1>7. CASE StoreStep(c)
    <2>r. pc[c] \in {"store", "hook"} => runtime[s] \in Runtimes
      BY <1>s, RuntimeThere DEF IInv
    <2>m. /\ snapshot[s] \in Snapshots /\ NextGeneration(s) \in Nat
      BY Own DEF NextGeneration
    <2>1. CASE StoreRefused(c) \/ StoreAdmitted(c) \/ StoreHook(c)
      BY <1>q, <2>1 DEF StoreRefused, StoreAdmitted, StoreHook
    <2>2. CASE Store(c)
      <3> DEFINE next == MergeSessionState(snapshot[s], runtime[s])
      <3>1. next \in Snapshots /\ next.exec = NoExec /\ next.status = "none"
        BY <1>o, <2>r, <2>m, <2>2, Fields, SnapshotsTyped DEF Store, Vacant
      <3>2. StoreSession(c, next) /\ life[s] # "closed"
        BY <1>s, <1>o, <2>2 DEF Store
      <3> HIDE DEF next
      <3> QED BY <1>s, <3>1, <3>2, StoreStores
    <2>3. CASE StoreHooked(c)
      <3> DEFINE merged == MergeSessionState(snapshot[s], runtime[s])
                 next == Projected(merged, NextGeneration(s))
      <3>1. merged \in Snapshots /\ merged.exec = NoExec /\ merged.status = "none"
        BY <1>o, <2>r, <2>m, <2>3, Fields, SnapshotsTyped DEF StoreHooked, Vacant
      <3>2. next \in Snapshots /\ next.exec = NoExec /\ next.status = "none"
        <4> HIDE DEF merged
        <4> QED BY <2>m, <3>1, Fields, SnapshotsTyped
      <3>3. /\ StoreSession(c, next) \/ UNCHANGED <<life, snapshot, checkpoint>>
            /\ life[s] # "closed"
        BY <1>s, <1>o, <2>3 DEF StoreHooked
      <3> HIDE DEF next
      <3> QED BY <1>q, <1>s, <3>2, <3>3, StoreStores
    <2> QED BY <1>7, <2>1, <2>2, <2>3 DEF StoreStep
  <1>8. CASE ResumeStep(c)
    <2>1. CASE ResumeStore(c)
      BY <1>s, <1>t, <2>1 DEF ResumeStore, Stored, RecordTypes
    <2> QED BY <1>8, <1>q, <2>1 DEF ResumeStep, ResumeOpen, ResumeClosed, ResumeRebuild
  <1> QED BY <1>3, <1>4, <1>5, <1>6, <1>7, <1>8 DEF Step, CallStep

\* IInv is inductive.
LEMMA NextIInv == IInv /\ [Next]_vars => IInv'
  <1> SUFFICES ASSUME IInv, [Next]_vars PROVE IInv'
    OBVIOUS
  <1>1. CASE UNCHANGED vars
    <2>1. Base'
      BY NextBase DEF IInv
    <2> QED BY <1>1, <2>1
            DEF vars, locks, records, global, local, IInv, Ids, SlotTruthful, Marked,
                CancelHitsExpected, CancelIsVisible, CheckpointInert, ClosedIsQuiet,
                Occupies, SessionOf
  <1>2. ASSUME NEW c \in Clients, Step(c)
        PROVE  IInv'
    <2>1. StepFacts(c)
      BY <1>2, StepsHaveFacts
    <2>2. Base' /\ Ids' /\ SlotTruthful' /\ Marked' /\ CancelHitsExpected' /\ CancelIsVisible'
      BY <2>1, NextIds, NextSlotTruthful, NextMarked, NextCancelIsVisible DEF StepFacts
    <2>3. \A s \in Sessions : Stored(s)'
      BY <1>2, NextStored
    <2>4. CheckpointInert'
      BY <2>3 DEF CheckpointInert, Stored
    <2>5. ASSUME NEW s \in Sessions, life'[s] # "open"
          PROVE  /\ runtime'[s] = Nil /\ control'[s] = NoExec
                 /\ \A k \in Clients : ~ Occupies(k, s)'
      <3>1. runtime'[s] = Nil
        BY <2>2, <2>5 DEF Base, OpenHasRuntime
      <3>2. \A k \in Clients : ~ Occupies(k, s)'
        BY <2>2, <3>1 DEF Occupies, Base, CriticalSections, Held, IsClosed, SessionOf
      <3> QED BY <2>2, <3>1, <3>2 DEF SlotTruthful
    <2>6. ClosedIsQuiet'
      BY <2>3, <2>5 DEF ClosedIsQuiet, Stored
    <2> QED BY <2>2, <2>4, <2>6 DEF IInv
  <1> QED BY <1>1, <1>2 DEF Next, Step, AllReturned

\* IInv is an invariant of the session manager.
LEMMA AlwaysIInv == Spec => []IInv
  BY InitIInv, NextIInv, PTL DEF Spec
-----------------------------------------------------------------------------
\* Get, Cancel and Execute keep the live slot of every session true: it names
\* the execution that runs there, by the client that holds the session.
THEOREM SlotsHold == Spec => []SlotTruthful
  <1>1. IInv => SlotTruthful
    BY DEF IInv
  <1> QED BY <1>1, AlwaysIInv, PTL

\* Cancel cancels what it was asked to and shows that it did.
THEOREM CancelsPrecise == Spec => []CancelIsPrecise
  <1>1. IInv => CancelIsPrecise
    BY DEF IInv, CancelIsPrecise
  <1> QED BY <1>1, AlwaysIInv, PTL

\* Checkpoint and Close never store an active execution.
THEOREM CheckpointsInert == Spec => []CheckpointInert
  <1>1. IInv => CheckpointInert
    BY DEF IInv
  <1> QED BY <1>1, AlwaysIInv, PTL

\* Nothing happens in a closed session, and it shows what Resume restores.
THEOREM ClosedStaysQuiet == Spec => []ClosedIsQuiet
  <1>1. IInv => ClosedIsQuiet
    BY DEF IInv
  <1> QED BY <1>1, AlwaysIInv, PTL
-----------------------------------------------------------------------------
\* The refinement.

\* The phase of an unoccupied session s changes as SessionLifecycle has it,
\* and nothing else that it shows.
Moves(s) ==
    /\ \/ life[s] = "absent" /\ life'[s] = "open"
       \/ life[s] = "open" /\ life'[s] = "closed"
       \/ life[s] = "closed" /\ life'[s] = "open"
    /\ \A r \in Sessions \ {s} : life'[r] = life[r]
    /\ \A r \in Sessions : SameSlot(r)
    /\ Vacant(s)
    /\ nextExec' = nextExec

\* Create, Close and Resume move a session, and no other step does.
LEMMA LifeEffect ==
    ASSUME IInv, IInv', NEW c \in Clients, Step(c)
    PROVE  life' = life \/ \E s \in Sessions : Moves(s)
  <1> USE DEF records, global
  <1>t. RecordTypes /\ SlotTruthful /\ SlotTruthful'
    BY DEF IInv, Base, TypeOK
  <1>s. PICK s \in Sessions : s = SessionOf(c)
    BY Own
  <1>v. ASSUME NEW q \in Sessions, Vacant(q), control'[q] \in {control[q], NoExec},
               \A r \in Sessions \ {q} : snapshot'[r] = snapshot[r] /\ control'[r] = control[r]
        PROVE  \A r \in Sessions : SameSlot(r)
    BY <1>t, <1>v DEF SlotTruthful, SameSlot, Vacant
  <1>h. ASSUME pc[c] \in {"store", "hook", "reopen"}
        PROVE  /\ Vacant(s)
               /\ life[s] = IF pc[c] = "reopen" THEN "closed" ELSE "open"
    <2>1. Vacant(s)
      BY <1>s, <1>h, VacantWhen DEF Held
    <2>2. /\ runtime[s] = Nil <=> life[s] # "open"
          /\ life[s] # "absent"
          /\ pc[c] \in {"store", "hook"} => ~ IsClosed(s)
          /\ pc[c] = "reopen" => IsClosed(s)
      BY <1>s, <1>h DEF IInv, Base, CriticalSections, Locals, OpenHasRuntime, Held
    <2> QED BY <1>t, <1>h, <2>1, <2>2 DEF IsClosed, RecordTypes
  <1>1. ASSUME NEW q \in Sessions, NEW d \in Dirs, NEW p, Create(c, q, d, p)
        PROVE  Moves(q)
    <2>1. Vacant(q)
      BY <1>1, VacantWhen DEF Create
    <2>2. /\ life[q] = "absent" /\ life'[q] = "open" /\ nextExec' = nextExec
          /\ control' = control
          /\ \A r \in Sessions \ {q} : snapshot'[r] = snapshot[r] /\ life'[r] = life[r]
      BY <1>t, <1>1 DEF Create, RecordTypes
    <2> QED BY <1>v, <2>1, <2>2 DEF Moves
  <1>2. CASE StartSomeCall(c)
    BY <1>1, <1>2 DEF StartSomeCall, Get, CancelCall, LookupManaged
  <1>3. CASE CancelStep(c)
    BY <1>3 DEF CancelStep, CancelRefused, CancelAgain, CancelMark, CancelFire
  <1>4. CASE ExecuteStep(c)
    BY <1>4 DEF ExecuteStep, ExecuteRefused, ExecuteAdmitted, ExecuteInstall, ExecuteSettle,
       ExecuteObserve, ExecuteObserved
  <1>5. CASE EndCommand(c)
    BY <1>5 DEF EndCommand, ExecuteFinish
  <1>6. CASE StoreStep(c)
    <2>1. ASSUME NEW next, StoreSession(c, next), pc[c] \in {"store", "hook"},
                 nextExec' = nextExec
          PROVE  life' = life \/ Moves(s)
      <3>1. CASE CheckpointStore(s, next)
        BY <3>1 DEF CheckpointStore
      <3>2. CASE CloseStore(s, next)
        <4>1. /\ life'[s] = "closed" /\ control'[s] = NoExec
              /\ \A r \in Sessions \ {s} : /\ snapshot'[r] = snapshot[r]
                                           /\ control'[r] = control[r] /\ life'[r] = life[r]
          BY <1>t, <3>2 DEF CloseStore, RecordTypes
        <4> QED BY <1>v, <1>h, <2>1, <4>1 DEF Moves
      <3> QED BY <1>s, <2>1, <3>1, <3>2 DEF StoreSession
    <2> QED BY <1>6, <2>1
            DEF StoreStep, StoreRefused, StoreAdmitted, Store, StoreHook, StoreHooked
  <1>7. CASE ResumeStep(c)
    <2>1. CASE ResumeStore(c)
      <3>1. /\ pc[c] = "reopen" /\ life'[s] = "open" /\ control' = control
            /\ nextExec' = nextExec
            /\ \A r \in Sessions \ {s} : snapshot'[r] = snapshot[r] /\ life'[r] = life[r]
        BY <1>s, <1>t, <2>1 DEF ResumeStore, RecordTypes
      <3> QED BY <1>v, <1>h, <3>1 DEF Moves
    <2> QED BY <1>7, <2>1 DEF ResumeStep, ResumeOpen, ResumeClosed, ResumeRebuild
  <1> QED BY <1>2, <1>3, <1>4, <1>5, <1>6, <1>7 DEF Step, CallStep

\* The variables of SessionLifecycle in a state of SessionManager.
Shown == [s \in Sessions |-> snapshot[s].exec]
Status == [s \in Sessions |-> snapshot[s].status]

\* Nothing that is shown changes.
LEMMA Stutters ==
    ASSUME life' = life, nextExec' = nextExec, \A s \in Sessions : SameSlot(s)
    PROVE  UNCHANGED Abstract!vars
  BY DEF Abstract!vars, SameSlot

\* What a step shows is a step of SessionLifecycle.
LEMMA StepRefines ==
    ASSUME IInv, IInv', NEW c \in Clients, Step(c)
    PROVE  [Abstract!Next]_Abstract!vars
  <1>t. RecordTypes /\ SlotTruthful /\ nextExec \in Nat
    BY Own DEF IInv, ExecTypes
  <1>o. ASSUME NEW s \in Sessions, ~ Vacant(s)
        PROVE  life[s] = "open" /\ snapshot[s].exec # 0
    BY <1>o, VacantWhen DEF Vacant, IInv, SlotTruthful, NoExec
  <1>1. ASSUME NEW s \in Sessions, Moves(s)
        PROVE  Abstract!Next
    <2>1. /\ [r \in Sessions |-> snapshot'[r].exec] = Shown
          /\ [r \in Sessions |-> snapshot'[r].status] = Status
          /\ nextExec' - 1 = nextExec - 1
          /\ Shown[s] = 0
      BY <1>1 DEF Moves, SameSlot, Vacant, NoExec, Shown, Status
    <2>2. life' = [life EXCEPT ![s] = life'[s]]
      BY <1>1, <1>t DEF Moves, RecordTypes, IInv, Base, TypeOK
    <2>3. Abstract!Appear(s) \/ Abstract!Shut(s) \/ Abstract!Reopen(s)
      BY <1>1, <2>1, <2>2
      DEF Moves, Shown, Status, Abstract!Appear, Abstract!Shut, Abstract!Reopen
    <2> QED BY <2>3 DEF Abstract!Next
  <1>2. ASSUME life' = life
        PROVE  [Abstract!Next]_Abstract!vars
    <2>1. CASE Quiet(c)
      BY <1>2, <2>1, Stutters DEF Quiet, global
    <2>2. ASSUME NEW s \in Sessions, Emptied(c, s)
          PROVE  [Abstract!Next]_Abstract!vars
      <3>0. /\ nextExec' = nextExec /\ Vacant(s)'
            /\ \A r \in Sessions \ {s} : SameSlot(r)
        BY <2>2 DEF Emptied, global
      <3>1. CASE Vacant(s)
        <4>1. SameSlot(s)
          BY <3>0, <3>1 DEF Vacant, SameSlot
        <4> QED BY <1>2, <3>0, <4>1, Stutters
      <3>2. CASE ~ Vacant(s)
        <4>1. /\ [r \in Sessions |-> snapshot'[r].exec] = [Shown EXCEPT ![s] = 0]
              /\ [r \in Sessions |-> snapshot'[r].status] = [Status EXCEPT ![s] = "none"]
          BY <3>0 DEF Vacant, SameSlot, Shown, Status, NoExec
        <4>2. Abstract!Leave(s)
          BY <1>2, <1>o, <3>0, <3>2, <4>1 DEF Abstract!Leave, Shown, Status
        <4> QED BY <4>2 DEF Abstract!Next
      <3> QED BY <3>1, <3>2
    <2>3. CASE CancelMark(c)
      <3>1. PICK s \in Sessions :
               /\ control[s] # NoExec /\ UNCHANGED <<control, global>>
               /\ exec'[c] = control[s]
               /\ snapshot'[s].exec = snapshot[s].exec /\ snapshot'[s].status = "canceling"
               /\ \A r \in Sessions \ {s} : SameSlot(r)
        BY <2>3, MarkEffect
      <3>2. s = SessionOf(c) /\ snapshot[s].status # "canceling"
        <4>1. PICK q \in Sessions : q = SessionOf(c)
          BY Own
        <4>2. exec'[c] = control[q]
          BY <2>3, <4>1, Own DEF CancelMark, LocalTypes
        <4>3. q = s
          BY <3>1, <4>2, OneSession
        <4> QED BY <2>3, <4>1, <4>3 DEF CancelMark
      <3>3. snapshot[s].status = "running"
        BY <1>t, <3>1, <3>2, Own, Fields DEF SlotTruthful, Statuses
      <3>4. /\ [r \in Sessions |-> snapshot'[r].exec] = Shown
            /\ [r \in Sessions |-> snapshot'[r].status] = [Status EXCEPT ![s] = "canceling"]
            /\ nextExec' = nextExec
        BY <3>1 DEF SameSlot, Shown, Status, global
      <3>5. life[s] = "open"
        BY <1>o, <3>1 DEF Vacant
      <3>6. Abstract!AskToStop(s)
        BY <1>2, <3>3, <3>4, <3>5 DEF Abstract!AskToStop, Shown, Status
      <3> QED BY <3>6 DEF Abstract!Next
    <2>4. CASE CancelFire(c)
      BY <1>2, <2>4, FireEffect, Stutters
    <2>5. CASE ExecuteInstall(c)
      <3>1. PICK s \in Sessions :
               /\ s = SessionOf(c) /\ pc[c] = "install" /\ nextExec' = nextExec + 1
               /\ snapshot'[s].exec = nextExec /\ snapshot'[s].status = "running"
               /\ \A r \in Sessions \ {s} : SameSlot(r)
               /\ Vacant(s)
        BY <2>5, InstallEffect
      <3>2. life[s] = "open"
        BY <1>t, <3>1 DEF IInv, Base, CriticalSections, Locals, Held, IsClosed, RecordTypes
      <3>3. /\ [r \in Sessions |-> snapshot'[r].exec] = [Shown EXCEPT ![s] = nextExec]
            /\ [r \in Sessions |-> snapshot'[r].status] = [Status EXCEPT ![s] = "running"]
            /\ Shown[s] = 0
        BY <3>1 DEF SameSlot, Vacant, Shown, Status, NoExec
      <3>4. nextExec = (nextExec - 1) + 1 /\ nextExec' - 1 = (nextExec - 1) + 1
        BY <1>t, <3>1
      <3>5. Abstract!Begin(s)
        BY <1>2, <3>2, <3>3, <3>4 DEF Abstract!Begin, Shown, Status
      <3> QED BY <3>5 DEF Abstract!Next
    <2>6. CASE EndCommand(c)
      BY <1>2, <2>6, FinishEffect, Stutters
    <2> QED BY <2>1, <2>2, <2>3, <2>4, <2>5, <2>6, Effects DEF IInv, Base
  <1> QED BY <1>1, <1>2, LifeEffect

\* Watched with Get, a session goes through its life cycle and nothing else:
\* the session manager implements SessionLifecycle.
THEOREM Refinement == Spec => Lifecycle
  <1>1. Init => Abstract!Init
    BY DEF Init, NewSnapshot, NoExec, Abstract!Init
  <1>2. IInv /\ IInv' /\ [Next]_vars => [Abstract!Next]_Abstract!vars
    <2> SUFFICES ASSUME IInv, IInv', [Next]_vars PROVE [Abstract!Next]_Abstract!vars
      OBVIOUS
    <2>1. CASE UNCHANGED vars
      BY <2>1 DEF vars, records, global, Abstract!vars
    <2>2. ASSUME NEW c \in Clients, Step(c)
          PROVE  [Abstract!Next]_Abstract!vars
      BY <2>2, StepRefines
    <2> QED BY <2>1, <2>2 DEF Next, Step, AllReturned
  <1> QED BY <1>1, <1>2, AlwaysIInv, PTL DEF Spec, Lifecycle, Abstract!Spec

-----------------------------------------------------------------------------

\* ProjectionsAgree of one session.  Without adapters there is no projection.
Agrees(s) ==
    /\ snapshot[s].opaque = adapterMounts[s]
    /\ adapterMounts[s] <= generation[s]
    /\ checkpoint[s].opaque <= snapshot[s].opaque
    /\ runtime[s] # Nil => runtime[s].mounts <= adapterMounts[s]
    /\ s \notin Adapted => generation[s] = 0

\* The command of session s has ended and its Execute has not returned.
Finishing(s) ==
    /\ executeMu[s] \in Clients
    /\ SessionOf(executeMu[s]) = s
    /\ pc[executeMu[s]] \in {"settle", "observe"}

\* The next Execute or Resume of the session starts where its last command left
\* it, a narrowed run only if the snapshot has not stayed behind.
Starts(s) ==
    /\ HeldDir(s) = lastDir[s]
    /\ s \in behind \/ snapshot[s].cwd = lastDir[s]

\* That holds unless what the command left is lost or its Execute still carries it.
Kept(s) ==
    life[s] # "absent" => s \in dropped \/ Finishing(s) \/ Starts(s)

\* What a call carries until it stores it in the record.
Carries(c) ==
    /\ pc[c] \in {"settle", "observe"} => RuntimeOf(c).cwd = lastDir[SessionOf(c)]
    /\ pc[c] \in {"observe", "hook"} => SessionOf(c) \in Adapted
    /\ pc[c] = "reopen" =>
          /\ scratch[c].cwd = checkpoint[SessionOf(c)].cwd
          /\ adapterMounts[SessionOf(c)] <= scratch[c].mounts
          /\ scratch[c].mounts <= generation[SessionOf(c)]

StateInv ==
    /\ Base
    /\ \A s \in Sessions : Agrees(s) /\ Kept(s)
    /\ \A c \in Clients : Carries(c)

\* What the state of session s says, apart from its slot.
Same(s) ==
    /\ life'[s] = life[s] /\ runtime'[s] = runtime[s]
    /\ snapshot'[s].opaque = snapshot[s].opaque
    /\ snapshot'[s].cwd = snapshot[s].cwd
    /\ checkpoint'[s] = checkpoint[s]
    /\ adapterMounts'[s] = adapterMounts[s]
    /\ generation'[s] = generation[s]
    /\ lastDir'[s] = lastDir[s]
    /\ (s \in dropped') <=> (s \in dropped)
    /\ (s \in behind') <=> (s \in behind)

\* The operators on snapshots and runtimes set what they are named for and keep
\* the rest.
LEMMA StateFields ==
    /\ \A snap \in Snapshots :
          /\ WithoutExecution(snap).opaque = snap.opaque
          /\ WithoutExecution(snap).cwd = snap.cwd
          /\ \A e \in Nat : /\ WithExecution(snap, e).opaque = snap.opaque
                            /\ WithExecution(snap, e).cwd = snap.cwd
          /\ \A g \in Nat : /\ Projected(snap, g).opaque = g
                            /\ Projected(snap, g).cwd = snap.cwd
          /\ \A rt \in Runtimes :
                /\ MergeSessionState(snap, rt).opaque = snap.opaque
                /\ MergeSessionState(snap, rt).cwd = rt.cwd
          /\ [snap EXCEPT !.status = "canceling"].opaque = snap.opaque
          /\ [snap EXCEPT !.status = "canceling"].cwd = snap.cwd
    /\ \A snap, p, g : /\ BuildRuntime(snap, p, g).cwd = snap.cwd
                       /\ BuildRuntime(snap, p, g).mounts = g
    /\ \A d, g : /\ NewSnapshot(d, g).cwd = d
                 /\ NewSnapshot(d, g).opaque = g
  BY DEF Snapshots, WithoutExecution, WithExecution, Projected, MergeSessionState,
         BuildRuntime, NewSnapshot

\* The fields of snapshots and runtimes are numbers and directories.
LEMMA FieldTypes ==
    /\ \A snap \in Snapshots : snap.opaque \in Nat /\ snap.cwd \in Dirs
    /\ \A rt \in Runtimes : rt.mounts \in Nat /\ rt.cwd \in Dirs
    /\ Nil \notin Runtimes
  BY NilAssumption DEF Snapshots, Runtimes

\* At first nothing has been projected and nobody is in a session.
LEMMA InitState == Init => StateInv
  <1> SUFFICES ASSUME Init PROVE StateInv
    OBVIOUS
  <1>1. ASSUME NEW s \in Sessions
        PROVE  Agrees(s) /\ Kept(s)
    BY StateFields DEF Init, Agrees, Kept
  <1>2. ASSUME NEW c \in Clients
        PROVE  Carries(c)
    BY DEF Init, Carries
  <1> QED BY <1>1, <1>2, InitBase DEF StateInv

\* A session that a step of client c leaves as it is agrees and is kept as before,
\* if c has nothing to do with it or goes on in its call.
LEMMA SameHolds ==
    ASSUME StateInv, NEW c \in Clients, Frame(c), NEW s \in Sessions, Same(s),
           ~ (executeMu[s] = c /\ SessionOf(c) = s /\ pc[c] \in {"settle", "observe"})
    PROVE  Agrees(s)' /\ Kept(s)'
  <1>1. Agrees(s)'
    BY DEF StateInv, Agrees, Same
  <1>2. Finishing(s) => Finishing(s)'
    <2> SUFFICES ASSUME Finishing(s) PROVE Finishing(s)'
      OBVIOUS
    <2>1. PICK k \in Clients : executeMu[s] = k
      BY DEF Finishing
    <2>2. k # c
      BY <2>1 DEF Finishing
    <2>3. executeMu'[s] = k
      BY <2>1, <2>2, SessionsAssumption DEF Frame, LocksKept
    <2>4. pc'[k] = pc[k] /\ call'[k] = call[k]
      BY <2>2 DEF Frame, OthersKept
    <2> QED BY <2>1, <2>3, <2>4 DEF Finishing, SessionOf
  <1>3. Starts(s) => Starts(s)'
    BY DEF Starts, HeldDir, Same
  <1> QED BY <1>1, <1>2, <1>3 DEF StateInv, Kept, Same

\* Of another session than the one client c is in, c touches at most one that is
\* not there yet; so what the other clients carry stays.
LEMMA OthersCarry ==
    ASSUME StateInv, NEW c \in Clients, Frame(c),
           \A s \in Sessions : Same(s) \/ executeMu[s] = c \/ life[s] = "absent",
           NEW k \in Clients \ {c}
    PROVE  Carries(k)'
  <1> DEFINE s == SessionOf(k)
  <1>1. /\ s \in Sessions /\ SessionOf(k)' = s
        /\ pc'[k] = pc[k] /\ narrowed'[k] = narrowed[k] /\ scratch'[k] = scratch[k]
    BY DEF StateInv, Base, TypeOK, LocalTypes, Calls, Frame, OthersKept, SessionOf
  <1>2. CASE pc[k] \in Held
    <2>1. executeMu[s] = k /\ life[s] # "absent"
      BY <1>2 DEF StateInv, Base, CriticalSections, Locals
    <2>2. Same(s)
      BY <1>1, <2>1
    <2>3. RuntimeOf(k)' = RuntimeOf(k)
      BY <1>1, <2>2 DEF RuntimeOf, Same
    <2> QED BY <1>1, <2>2, <2>3 DEF StateInv, Carries, Same
  <1>3. CASE pc[k] \notin Held
    BY <1>1, <1>3 DEF Carries, Held
  <1> QED BY <1>2, <1>3
-----------------------------------------------------------------------------
(***************************************************************************)
(* The steps that leave every session as it is.                            *)
(***************************************************************************)
QuietState(c) ==
    \/ \E s \in Sessions : Get(c, s)
    \/ \E s \in Sessions, expect \in KnownExecs : CancelCall(c, s, expect)
    \/ \E s \in Sessions, op \in Ops, ask \in Requests, blank \in BOOLEAN :
          LookupManaged(c, op, s, ask, blank)
    \/ CancelStep(c)
    \/ ExecuteRefused(c) \/ ExecuteAdmitted(c) \/ ExecuteInstall(c) \/ ExecuteObserve(c)
    \/ StoreRefused(c) \/ StoreAdmitted(c) \/ StoreHook(c)
    \/ ResumeOpen(c) \/ ResumeClosed(c)

\* Clearing or marking a slot leaves the rest of the snapshots.
LEMMA SlotSame ==
    ASSUME StateInv, NEW r \in Sessions, ClearSlot(r), NEW s \in Sessions
    PROVE  snapshot'[s].opaque = snapshot[s].opaque /\ snapshot'[s].cwd = snapshot[s].cwd
  <1>1. snapshot \in [Sessions -> Snapshots]
    BY DEF StateInv, Base, TypeOK, RecordTypes
  <1> QED BY <1>1, StateFields DEF ClearSlot

\* Steps that store nothing leave every session as it was.
LEMMA QuietSame ==
    ASSUME StateInv, NEW c \in Clients, QuietState(c), NEW s \in Sessions
    PROVE  Same(s)
  <1> USE DEF locks, records, global, ghosts, Same
  <1>t. /\ snapshot \in [Sessions -> Snapshots] /\ SessionOf(c) \in Sessions
        /\ nextExec \in Nat
    BY DEF StateInv, Base, TypeOK, RecordTypes, ExecTypes, LocalTypes, Calls, SessionOf
  <1>1. CASE \E r \in Sessions : Get(c, r)
    BY <1>1, SlotSame DEF Get
  <1>2. CASE CancelStep(c)
    <2>1. CASE CancelMark(c)
      BY <1>t, <2>1, StateFields DEF CancelMark
    <2>2. CASE CancelRefused(c)
      BY <1>t, <2>2, SlotSame DEF CancelRefused
    <2> QED BY <1>2, <2>1, <2>2 DEF CancelStep, CancelAgain, CancelFire
  <1>3. CASE ExecuteInstall(c)
    BY <1>t, <1>3, StateFields DEF ExecuteInstall
  <1>4. CASE ExecuteObserve(c)
    BY <1>t, <1>4, SlotSame DEF ExecuteObserve
  <1> QED BY <1>1, <1>2, <1>3, <1>4
          DEF QuietState, CancelCall, LookupManaged, ExecuteRefused, ExecuteAdmitted, StoreRefused,
              StoreAdmitted, StoreHook, ResumeOpen, ResumeClosed

\* After a quiet step its client carries nothing, unless it goes on to let the
\* adapters observe what its command has done.
LEMMA QuietCarries ==
    ASSUME StateInv, NEW c \in Clients, QuietState(c)
    PROVE  /\ Carries(c)'
           /\ pc[c] \in {"settle", "observe"} => ExecuteObserve(c)
  <1>t. LocalTypes
    BY DEF StateInv, Base, TypeOK
  <1>p. /\ pc'[c] \notin {"settle", "reopen"}
        /\ pc'[c] = "observe" => ExecuteObserve(c)
        /\ pc'[c] = "hook" => StoreHook(c)
        /\ pc[c] \in {"settle", "observe"} => ExecuteObserve(c)
    BY <1>t
    DEF QuietState, Get, CancelCall, LookupManaged, CancelStep, CancelRefused, CancelAgain,
        CancelMark, CancelFire, ExecuteRefused, ExecuteAdmitted, ExecuteInstall,
        ExecuteObserve, StoreRefused, StoreAdmitted, StoreHook, ResumeOpen, ResumeClosed,
        Answer, Enter, MayCall, Return, Continue, Goto, LocalTypes
  <1>1. CASE ExecuteObserve(c)
    <2>1. /\ pc[c] = "settle" /\ pc'[c] = "observe"
          /\ SessionOf(c)' = SessionOf(c) /\ RuntimeOf(c)' = RuntimeOf(c)
          /\ lastDir' = lastDir
      BY <1>t, <1>1
      DEF ExecuteObserve, Continue, Goto, LocalTypes, SessionOf, RuntimeOf, local, ghosts
    <2> QED BY <1>1, <2>1 DEF StateInv, Carries, ExecuteObserve
  <1>2. CASE StoreHook(c)
    <2>1. pc'[c] = "hook" /\ SessionOf(c)' = SessionOf(c)
      BY <1>t, <1>2 DEF StoreHook, Continue, Goto, LocalTypes, SessionOf
    <2> QED BY <1>2, <2>1 DEF Carries, StoreHook
  <1>3. CASE ~ ExecuteObserve(c) /\ ~ StoreHook(c)
    BY <1>p, <1>3 DEF Carries
  <1> QED BY <1>p, <1>1, <1>2, <1>3

\* Steps that store nothing preserve StateInv.
LEMMA QuietHolds ==
    ASSUME StateInv, NEW c \in Clients, Frame(c), QuietState(c)
    PROVE  /\ \A s \in Sessions : Agrees(s)' /\ Kept(s)'
           /\ \A k \in Clients : Carries(k)'
  <1>1. \A s \in Sessions : Same(s)
    BY QuietSame
  <1>2. ASSUME NEW s \in Sessions
        PROVE  Agrees(s)' /\ Kept(s)'
    <2>1. CASE executeMu[s] = c /\ SessionOf(c) = s /\ pc[c] \in {"settle", "observe"}
      <3>1. ExecuteObserve(c)
        BY <2>1, QuietCarries
      <3>2. /\ pc'[c] = "observe" /\ SessionOf(c)' = s /\ executeMu'[s] = c
        BY <2>1, <3>1
        DEF ExecuteObserve, Continue, Goto, SessionOf, StateInv, Base, TypeOK, LocalTypes
      <3> QED BY <1>1, <3>2 DEF StateInv, Agrees, Same, Kept, Finishing
    <2>2. CASE ~ (executeMu[s] = c /\ SessionOf(c) = s /\ pc[c] \in {"settle", "observe"})
      BY <1>1, <2>2, SameHolds
    <2> QED BY <2>1, <2>2
  <1> QED BY <1>1, <1>2, QuietCarries, OthersCarry
-----------------------------------------------------------------------------
(***************************************************************************)
(* The steps that change the state of the session they are in.             *)
(***************************************************************************)
\* What such a step of client c in session s has to show.
Settles(c, s) ==
    /\ Agrees(s)' /\ Kept(s)' /\ Carries(c)'
    /\ \A r \in Sessions \ {s} : Same(r)

\* A call that has returned carries nothing.
LEMMA ReturnCarries ==
    ASSUME StateInv, NEW c \in Clients, NEW r, Return(c, r)
    PROVE  Carries(c)'
  <1>1. pc'[c] = "idle"
    BY DEF StateInv, Base, TypeOK, LocalTypes, Return, Goto
  <1> QED BY <1>1 DEF Carries

\* Create opens a session in the directory it is given, under one projection.
LEMMA CreateSettles ==
    ASSUME StateInv, NEW c \in Clients, NEW s \in Sessions, NEW d \in Dirs,
           NEW p \in Ceilings, Create(c, s, d, p)
    PROVE  Settles(c, s)
  <1> DEFINE g == FirstGeneration(s)
             created == NewSnapshot(d, g)
             built == BuildRuntime(created, p, g)
  <1>t. RecordTypes /\ LocalTypes /\ GhostTypes
    BY DEF StateInv, Base, TypeOK
  <1>1. g \in Nat /\ (s \notin Adapted => g = 0)
    BY DEF FirstGeneration
  <1>2. /\ created.cwd = d /\ created.opaque = g
        /\ built.cwd = d /\ built.mounts = g
    BY StateFields
  <1>3. /\ life'[s] = "open" /\ snapshot'[s] = created /\ checkpoint'[s] = created
        /\ runtime'[s] = built /\ adapterMounts'[s] = g /\ generation'[s] = g
        /\ lastDir'[s] = d
    BY <1>t DEF Create, RecordTypes, GhostTypes
  <1>4. \A r \in Sessions \ {s} : Same(r)
    BY <1>t DEF Create, RecordTypes, GhostTypes, Same
  <1>5. Carries(c)'
    BY DEF Create, Answer, MayCall, Carries
  <1> HIDE DEF g, created, built
  <1>6. Agrees(s)'
    BY <1>1, <1>2, <1>3 DEF Agrees
  <1>7. Kept(s)'
    BY <1>2, <1>3 DEF Kept, Starts, HeldDir
  <1> QED BY <1>4, <1>5, <1>6, <1>7 DEF Settles

\* The command ends: the runtime it ran on is where it left the session.
LEMMA FinishSettles ==
    ASSUME StateInv, NEW c \in Clients, NEW s \in Sessions, SessionOf(c) = s,
           NEW d \in Dirs, ExecuteFinish(c, d)
    PROVE  Settles(c, s)
  <1>t. RecordTypes /\ LocalTypes /\ GhostTypes
    BY DEF StateInv, Base, TypeOK
  <1>1. /\ runtime[s] \in Runtimes /\ (narrowed[c] => scratch[c] \in Runtimes)
        /\ executeMu[s] = c
    BY RuntimeThere
    DEF ExecuteFinish, Held, RuntimeOf, StateInv, Base, CriticalSections
  <1>2. /\ [runtime[s] EXCEPT !.cwd = d].mounts = runtime[s].mounts
        /\ [runtime[s] EXCEPT !.cwd = d].cwd = d
        /\ narrowed[c] => [scratch[c] EXCEPT !.cwd = d].cwd = d
    BY <1>1 DEF Runtimes
  <1>3. /\ pc'[c] = "settle" /\ SessionOf(c)' = s /\ executeMu'[s] = c
        /\ narrowed' = narrowed /\ lastDir'[s] = d
        /\ narrowed[c] => scratch'[c].cwd = d /\ runtime' = runtime
        /\ ~ narrowed[c] => runtime'[s] = [runtime[s] EXCEPT !.cwd = d]
        /\ UNCHANGED <<life, snapshot, checkpoint, adapterMounts, generation>>
    BY <1>t, <1>1, <1>2
    DEF ExecuteFinish, Continue, Goto, SessionOf, LocalTypes, RecordTypes, GhostTypes, locks
  <1>4. \A r \in Sessions \ {s} : Same(r)
    BY <1>t DEF ExecuteFinish, RecordTypes, GhostTypes, Same
  <1>5. Agrees(s)'
    BY <1>t, <1>1, <1>2, <1>3, FieldTypes DEF StateInv, Agrees
  <1>6. Kept(s)'
    BY <1>3 DEF Kept, Finishing
  <1>7. Carries(c)'
    BY <1>2, <1>3 DEF Carries, RuntimeOf
  <1> QED BY <1>4, <1>5, <1>6, <1>7 DEF Settles

\* A session without adapters keeps the directory when its Execute returns.
LEMMA SettleSettles ==
    ASSUME StateInv, NEW c \in Clients, NEW s \in Sessions, SessionOf(c) = s,
           ExecuteSettle(c)
    PROVE  Settles(c, s)
  <1> DEFINE cleared == WithoutExecution(snapshot[s])
             merged == MergeSessionState(cleared, RuntimeOf(c))
             built == BuildRuntime(merged, ceiling[s], adapterMounts[s])
  <1>t. RecordTypes /\ LocalTypes /\ GhostTypes
    BY DEF StateInv, Base, TypeOK
  <1>1. /\ RuntimeOf(c) \in Runtimes /\ runtime[s] \in Runtimes
        /\ RuntimeOf(c).cwd = lastDir[s]
        /\ Agrees(s)
    BY <1>t, RuntimeThere DEF ExecuteSettle, Held, StateInv, Carries
  <1>2. /\ cleared \in Snapshots /\ cleared.opaque = snapshot[s].opaque
        /\ merged.opaque = snapshot[s].opaque /\ merged.cwd = lastDir[s]
        /\ built.cwd = lastDir[s] /\ built.mounts = adapterMounts[s]
    <2>1. snapshot[s] \in Snapshots
      BY <1>t DEF RecordTypes
    <2>2. cleared \in Snapshots /\ cleared.opaque = snapshot[s].opaque
      BY <2>1, SnapshotsTyped, StateFields
    <2>3. merged.opaque = cleared.opaque /\ merged.cwd = RuntimeOf(c).cwd
      <3> HIDE DEF cleared
      <3> QED BY <1>1, <2>2, StateFields
    <2>4. built.cwd = merged.cwd /\ built.mounts = adapterMounts[s]
      <3> HIDE DEF merged
      <3> QED BY StateFields
    <2> HIDE DEF cleared, merged, built
    <2> QED BY <1>1, <2>2, <2>3, <2>4
  <1>3. life[s] = "open"
    BY <1>t, <1>1, FieldTypes DEF StateInv, Base, OpenHasRuntime
  <1>4. /\ snapshot'[s] \in {merged, cleared}
        /\ runtime'[s] \in {built, runtime[s]}
        /\ UNCHANGED <<life, checkpoint, adapterMounts, generation, lastDir>>
        /\ \/ s \in dropped'
           \/ snapshot'[s] = merged /\ narrowed[c] /\ runtime'[s] = built
           \/ snapshot'[s] = merged /\ ~ narrowed[c] /\ runtime'[s] = runtime[s]
    BY <1>t DEF ExecuteSettle, DropState, RecordTypes, ghosts
  <1>5. \A r \in Sessions \ {s} : Same(r)
    BY <1>t DEF ExecuteSettle, DropState, RecordTypes, GhostTypes, ghosts, Same
  <1>6. Carries(c)'
    BY ReturnCarries DEF ExecuteSettle
  <1> HIDE DEF cleared, merged, built
  <1>7. Agrees(s)'
    BY <1>t, <1>1, <1>2, <1>4, FieldTypes DEF Agrees, RecordTypes
  <1>8. Kept(s)'
    BY <1>1, <1>2, <1>3, <1>4 DEF Kept, Starts, HeldDir, RuntimeOf
  <1> QED BY <1>5, <1>6, <1>7, <1>8 DEF Settles

\* After the hook Execute stores the directory and the new projection together.
LEMMA ObservedSettles ==
    ASSUME StateInv, NEW c \in Clients, NEW s \in Sessions, SessionOf(c) = s,
           ExecuteObserved(c)
    PROVE  Settles(c, s)
  <1> DEFINE g == NextGeneration(s)
             observed == MergeSessionState(snapshot[s], RuntimeOf(c))
             merged == Projected(observed, g)
             built == BuildRuntime(merged, ceiling[s], g)
  <1>t. RecordTypes /\ LocalTypes /\ GhostTypes
    BY DEF StateInv, Base, TypeOK
  <1>1. /\ RuntimeOf(c) \in Runtimes /\ runtime[s] \in Runtimes
        /\ RuntimeOf(c).cwd = lastDir[s]
        /\ Agrees(s) /\ s \in Adapted
        /\ g = generation[s] + 1 /\ g \in Nat
    <2>1. s \in Adapted
      BY DEF ExecuteObserved, StateInv, Carries
    <2> QED BY <1>t, <2>1, RuntimeThere
            DEF ExecuteObserved, Held, StateInv, Carries, NextGeneration, RecordTypes
  <1>2. /\ merged.opaque = g /\ merged.cwd = lastDir[s]
        /\ built.cwd = lastDir[s] /\ built.mounts = g
    <2>1. observed \in Snapshots /\ observed.cwd = RuntimeOf(c).cwd
      BY <1>t, <1>1, SnapshotsTyped, StateFields DEF RecordTypes
    <2>2. merged.opaque = g /\ merged.cwd = observed.cwd
      <3> HIDE DEF observed, g
      <3> QED BY <1>1, <2>1, StateFields
    <2>3. built.cwd = merged.cwd /\ built.mounts = g
      <3> HIDE DEF merged
      <3> QED BY StateFields
    <2> HIDE DEF observed, merged, built
    <2> QED BY <1>1, <2>1, <2>2, <2>3
  <1>3. life[s] = "open"
    BY <1>t, <1>1, FieldTypes DEF StateInv, Base, OpenHasRuntime
  <1>4. /\ UNCHANGED <<life, checkpoint, lastDir>>
        /\ \/ /\ generation'[s] = g /\ adapterMounts'[s] = g
              /\ snapshot'[s] = merged /\ runtime'[s] = built
           \/ /\ generation'[s] \in {generation[s], g}
              /\ UNCHANGED <<runtime, adapterMounts, snapshot>>
              /\ s \in dropped' \/ (~ narrowed[c] /\ s \in behind')
    BY <1>t DEF ExecuteObserved, HookFails, DropState, RecordTypes, ghosts
  <1>5. \A r \in Sessions \ {s} : Same(r)
    BY <1>t DEF ExecuteObserved, HookFails, DropState, RecordTypes, GhostTypes, ghosts, Same
  <1>6. Carries(c)'
    BY ReturnCarries DEF ExecuteObserved
  <1>7. checkpoint[s].opaque \in Nat /\ snapshot[s].opaque \in Nat
    BY <1>t, FieldTypes DEF RecordTypes
  <1> HIDE DEF observed, merged, built, g
  <1>8. Agrees(s)'
    BY <1>t, <1>1, <1>2, <1>4, <1>7 DEF Agrees, RecordTypes
  <1>9. Kept(s)'
    BY <1>1, <1>2, <1>3, <1>4 DEF Kept, Starts, HeldDir, RuntimeOf
  <1> QED BY <1>5, <1>6, <1>8, <1>9 DEF Settles

\* Checkpoint and Close store a snapshot of the directory of the runtime.
LEMMA StoreSettles ==
    ASSUME StateInv, NEW c \in Clients, NEW s \in Sessions, SessionOf(c) = s,
           Store(c) \/ StoreHooked(c)
    PROVE  Settles(c, s)
  <1> DEFINE g == IF Store(c) THEN adapterMounts[s] ELSE NextGeneration(s)
             merged == MergeSessionState(snapshot[s], runtime[s])
             next == IF Store(c) THEN merged ELSE Projected(merged, g)
  <1>t. RecordTypes /\ LocalTypes /\ GhostTypes
    BY DEF StateInv, Base, TypeOK
  <1>0. /\ pc[c] \in {"store", "hook"} /\ executeMu[s] = c
        /\ s \in Adapted \/ Store(c)
    BY DEF Store, StoreHooked, StateInv, Base, CriticalSections, Held, Carries
  <1>1. /\ runtime[s] \in Runtimes /\ Agrees(s)
        /\ adapterMounts[s] \in Nat /\ generation[s] \in Nat
        /\ NextGeneration(s) = generation[s] + 1
    BY <1>t, <1>0, RuntimeThere DEF Held, StateInv, RecordTypes, NextGeneration
  <1>2. life[s] = "open"
    BY <1>t, <1>1, FieldTypes DEF StateInv, Base, OpenHasRuntime
  <1>3. Starts(s) \/ s \in dropped
    BY <1>0, <1>2 DEF StateInv, Kept, Finishing
  <1>4. /\ g \in Nat /\ adapterMounts[s] <= g
        /\ next \in Snapshots /\ next.opaque = g /\ next.cwd = runtime[s].cwd
        /\ WithoutExecution(next).opaque = g /\ WithoutExecution(next).cwd = runtime[s].cwd
    <2>1. g \in Nat /\ adapterMounts[s] <= g
      BY <1>1 DEF Agrees
    <2>2. merged \in Snapshots /\ merged.opaque = adapterMounts[s] /\ merged.cwd = runtime[s].cwd
      <3>1. snapshot[s] \in Snapshots /\ snapshot[s].opaque = adapterMounts[s]
        BY <1>t, <1>1 DEF RecordTypes, Agrees
      <3> QED BY <1>1, <3>1, SnapshotsTyped, StateFields
    <2>3. next \in Snapshots /\ next.opaque = g /\ next.cwd = runtime[s].cwd
      <3> HIDE DEF merged
      <3> QED BY <2>1, <2>2, SnapshotsTyped, StateFields
    <2> QED BY <2>1, <2>3, StateFields
  <1>5. /\ UNCHANGED <<lastDir, dropped>>
        /\ \/ /\ StoreSession(c, next)
              /\ adapterMounts'[s] = g
              /\ generation'[s] = IF Store(c) THEN generation[s] ELSE g
           \/ /\ UNCHANGED <<life, snapshot, checkpoint, runtime, adapterMounts, behind>>
              /\ s \in Adapted /\ generation'[s] \in {generation[s], NextGeneration(s)}
    <2>1. CASE Store(c)
      BY <1>t, <2>1 DEF Store, ghosts
    <2>2. CASE StoreHooked(c) /\ ~ Store(c)
      BY <1>t, <1>0, <2>2 DEF StoreHooked, HookFails, RecordTypes, ghosts
    <2> QED BY <2>1, <2>2
  <1>6. \A r \in Sessions \ {s} : Same(r)
    BY <1>t
    DEF Store, StoreHooked, HookFails, StoreSession, CheckpointStore, CloseStore, RecordTypes,
        ghosts, Same
  <1>7. Carries(c)'
    BY ReturnCarries DEF Store, StoreHooked
  <1>s. StoreSession(c, next) =>
           /\ checkpoint'[s] = next
           /\ snapshot'[s] \in {next, WithoutExecution(next)}
           /\ \/ runtime'[s] = runtime[s] /\ life'[s] = "open"
              \/ runtime'[s] = Nil /\ life'[s] = "closed"
    <2> HIDE DEF next
    <2> QED BY <1>t, <1>2 DEF StoreSession, CheckpointStore, CloseStore, RecordTypes
  <1>u. generation[s] <= generation'[s] \/ Store(c)
    BY <1>1, <1>5
  <1> HIDE DEF merged, next
  <1>8. Agrees(s)'
    <2>1. snapshot[s].opaque = adapterMounts[s] /\ checkpoint[s].opaque <= adapterMounts[s]
      BY <1>1 DEF Agrees
    <2>2. CASE /\ StoreSession(c, next) /\ adapterMounts'[s] = g
               /\ generation'[s] = IF Store(c) THEN generation[s] ELSE g
      <3>1. /\ checkpoint'[s].opaque = g /\ snapshot'[s].opaque = g
            /\ runtime'[s] # Nil => runtime'[s].mounts <= g
        BY <1>1, <1>4, <1>s, <2>2, FieldTypes DEF Agrees
      <3>2. g <= generation'[s] /\ (s \notin Adapted => generation'[s] = 0)
        BY <1>0, <1>1, <1>4, <2>2 DEF Agrees
      <3> HIDE DEF g
      <3> QED BY <1>4, <2>2, <3>1, <3>2 DEF Agrees
    <2>3. CASE /\ UNCHANGED <<life, snapshot, checkpoint, runtime, adapterMounts, behind>>
               /\ s \in Adapted /\ generation'[s] \in {generation[s], NextGeneration(s)}
      BY <1>1, <2>3 DEF Agrees
    <2> QED BY <1>5, <2>2, <2>3
  <1>9. Kept(s)'
    BY <1>2, <1>3, <1>4, <1>5, <1>s DEF Kept, Starts, HeldDir
  <1> QED BY <1>6, <1>7, <1>8, <1>9 DEF Settles

\* Resume rebuilds the runtime from the checkpoint.
LEMMA RebuildSettles ==
    ASSUME StateInv, NEW c \in Clients, NEW s \in Sessions, SessionOf(c) = s,
           ResumeRebuild(c)
    PROVE  Settles(c, s)
  <1> DEFINE g == IF s \in Adapted THEN NextGeneration(s) ELSE 0
             built == BuildRuntime(checkpoint[s], ceiling[s], g)
  <1>t. RecordTypes /\ LocalTypes /\ GhostTypes
    BY DEF StateInv, Base, TypeOK
  <1>1. /\ pc[c] = "rebuild" /\ executeMu[s] = c /\ Agrees(s)
        /\ adapterMounts[s] \in Nat /\ generation[s] \in Nat
        /\ NextGeneration(s) = generation[s] + 1
    BY <1>t
    DEF ResumeRebuild, StateInv, Base, CriticalSections, Held, RecordTypes, NextGeneration
  <1>2. Starts(s) \/ s \in dropped \/ life[s] = "absent"
    BY <1>1 DEF StateInv, Kept, Finishing
  <1>3. /\ UNCHANGED <<life, snapshot, checkpoint, runtime, adapterMounts, ghosts>>
        /\ \/ s \in Adapted /\ generation'[s] \in {generation[s], NextGeneration(s)}
           \/ generation'[s] = g
    BY <1>t DEF ResumeRebuild, HookFails, RecordTypes, records, ghosts
  <1>4. built.cwd = checkpoint[s].cwd /\ built.mounts = g
    BY StateFields
  <1>5. Agrees(s)'
    BY <1>1, <1>3 DEF Agrees
  <1>6. Kept(s)'
    BY <1>2, <1>3 DEF Kept, Starts, HeldDir, ghosts
  <1>7. Carries(c)'
    <2>1. CASE \E r \in {"adapter", "runtime"} : Return(c, r)
      BY <2>1, ReturnCarries
    <2>2. CASE /\ generation' = [generation EXCEPT ![s] = g]
               /\ scratch' = [scratch EXCEPT ![c] = built]
               /\ Continue(c, "reopen")
      <3>1. /\ pc'[c] = "reopen" /\ SessionOf(c)' = s
            /\ scratch'[c] = built /\ generation'[s] = g
        BY <1>t, <2>2 DEF Continue, Goto, LocalTypes, RecordTypes, SessionOf
      <3>2. adapterMounts[s] <= g /\ g \in Nat
        BY <1>1 DEF Agrees
      <3> HIDE DEF built, g
      <3> QED BY <1>3, <1>4, <3>1, <3>2 DEF Carries
    <2> QED BY <2>1, <2>2 DEF ResumeRebuild
  <1>8. \A r \in Sessions \ {s} : Same(r)
    BY <1>t DEF ResumeRebuild, HookFails, RecordTypes, records, ghosts, Same
  <1> QED BY <1>5, <1>6, <1>7, <1>8 DEF Settles

\* Resume stores what it has rebuilt, under the projection it was built with.
LEMMA ReopenSettles ==
    ASSUME StateInv, NEW c \in Clients, NEW s \in Sessions, SessionOf(c) = s,
           ResumeStore(c)
    PROVE  Settles(c, s)
  <1> DEFINE g == scratch[c].mounts
  <1>t. RecordTypes /\ LocalTypes /\ GhostTypes
    BY DEF StateInv, Base, TypeOK
  <1>1. /\ pc[c] = "reopen" /\ executeMu[s] = c /\ Agrees(s)
        /\ scratch[c] \in Runtimes
        /\ scratch[c].cwd = checkpoint[s].cwd
        /\ adapterMounts[s] <= g /\ g <= generation[s]
    BY <1>t
    DEF ResumeStore, StateInv, Base, CriticalSections, Held, Locals, LocalTypes, Carries
  <1>2. /\ g \in Nat /\ adapterMounts[s] \in Nat /\ generation[s] \in Nat
        /\ checkpoint[s].opaque \in Nat
        /\ Projected(checkpoint[s], g).opaque = g
        /\ Projected(checkpoint[s], g).cwd = checkpoint[s].cwd
    BY <1>t, <1>1, StateFields, FieldTypes DEF RecordTypes
  <1>3. life[s] = "closed"
    BY <1>t, <1>1 DEF StateInv, Base, CriticalSections, IsClosed, OpenHasRuntime, Locals, Held,
       RecordTypes
  <1>4. Starts(s) \/ s \in dropped
    BY <1>1, <1>3 DEF StateInv, Kept, Finishing
  <1>5. /\ life'[s] = "open" /\ runtime'[s] = scratch[c]
        /\ snapshot'[s] = Projected(checkpoint[s], g) /\ adapterMounts'[s] = g
        /\ UNCHANGED <<checkpoint, generation, lastDir, dropped, behind>>
    BY <1>t DEF ResumeStore, RecordTypes, ghosts
  <1>6. Agrees(s)'
    BY <1>1, <1>2, <1>5 DEF Agrees
  <1>7. Kept(s)'
    BY <1>1, <1>2, <1>3, <1>4, <1>5 DEF Kept, Starts, HeldDir
  <1>8. Carries(c)'
    BY ReturnCarries DEF ResumeStore
  <1>9. \A r \in Sessions \ {s} : Same(r)
    BY <1>t DEF ResumeStore, RecordTypes, ghosts, Same
  <1> QED BY <1>6, <1>7, <1>8, <1>9 DEF Settles

\* StateInv is inductive.
LEMMA NextState == StateInv /\ [Next]_vars => StateInv'
  <1> SUFFICES ASSUME StateInv, [Next]_vars PROVE StateInv'
    OBVIOUS
  <1>b. Base'
    BY NextBase DEF StateInv
  <1>1. CASE UNCHANGED vars
    BY <1>b, <1>1
    DEF vars, locks, records, local, ghosts, StateInv, Agrees, Kept, Starts, Finishing, Carries, HeldDir,
        SessionOf, RuntimeOf
  <1>2. ASSUME NEW c \in Clients, Step(c)
        PROVE  StateInv'
    <2>1. Frame(c)
      BY <1>b, <1>2, StepFrame DEF StateInv, Base
    <2>2. ASSUME NEW s \in Sessions, Settles(c, s), executeMu[s] = c \/ life[s] = "absent",
                 SessionOf(c) = s \/ pc[c] = "idle"
          PROVE  StateInv'
      <3>1. ASSUME NEW r \in Sessions \ {s}
            PROVE  Agrees(r)' /\ Kept(r)'
        BY <2>1, <2>2, SameHolds DEF Settles
      <3>2. ASSUME NEW k \in Clients \ {c}
            PROVE  Carries(k)'
        BY <2>1, <2>2, OthersCarry DEF Settles
      <3> QED BY <1>b, <2>2, <3>1, <3>2 DEF Settles, StateInv
    <2>3. SessionOf(c) \in Sessions /\ (pc[c] \in Held => executeMu[SessionOf(c)] = c)
      BY DEF StateInv, Base, TypeOK, LocalTypes, Calls, SessionOf, CriticalSections
    <2>4. CASE QuietState(c)
      BY <1>b, <2>1, <2>4, QuietHolds DEF StateInv
    <2>5. ASSUME NEW s \in Sessions, NEW d \in Dirs, NEW p \in Ceilings, Create(c, s, d, p)
          PROVE  StateInv'
      BY <2>2, <2>5, CreateSettles DEF Create, Answer, MayCall
    <2>6. CASE EndCommand(c)
      BY <2>2, <2>3, <2>6, FinishSettles DEF EndCommand, ExecuteFinish, Held
    <2>7. CASE ExecuteSettle(c) \/ ExecuteObserved(c)
      BY <2>2, <2>3, <2>7, SettleSettles, ObservedSettles
      DEF ExecuteSettle, ExecuteObserved, Held
    <2>8. CASE Store(c) \/ StoreHooked(c)
      BY <2>2, <2>3, <2>8, StoreSettles DEF Store, StoreHooked, Held
    <2>9. CASE ResumeRebuild(c) \/ ResumeStore(c)
      BY <2>2, <2>3, <2>9, RebuildSettles, ReopenSettles DEF ResumeRebuild, ResumeStore, Held
    <2>10. CASE StartSomeCall(c)
      <3>1. /\ Asks \subseteq Requests /\ NoRequest \in Requests
            /\ {"execute", "checkpoint", "close", "resume"} \subseteq Ops
            /\ FALSE \in BOOLEAN
        BY SessionsAssumption, RequestsTyped DEF Ops
      <3> QED BY <2>4, <2>5, <2>10, <3>1 DEF StartSomeCall, QuietState
    <2> QED BY <1>2, <2>4, <2>6, <2>7, <2>8, <2>9, <2>10
            DEF Step, CallStep, ExecuteStep, StoreStep, ResumeStep, QuietState
  <1> QED BY <1>1, <1>2 DEF Next, Step, AllReturned

\* session_manager.go:334, session_adapters.go: the opaque state of a snapshot and
\* the mounts kept for it are of one hook, whatever hook or rebuild fails, and
\* neither the runtime nor the checkpoint is ahead of them.
THEOREM ProjectionsHold == Spec => []ProjectionsAgree
  <1>1. StateInv => ProjectionsAgree
    BY DEF StateInv, Agrees, ProjectionsAgree
  <1> QED BY <1>1, InitState, NextState, PTL DEF Spec

\* README.md "Repeated requests within a session preserve runtime state": between
\* calls the runtime of a session, or the checkpoint of a closed one, and its
\* snapshot are where its last command left it, except after an Execute that failed
\* once its command had run: then, under a narrower policy, nothing is promised, and
\* otherwise the snapshot may stay behind until a Checkpoint or a Close.
THEOREM StateHolds == Spec => []StatePreserved
  <1>1. StateInv => StatePreserved
    BY SessionsAssumption DEF StateInv, Kept, Starts, Finishing, Rests, StatePreserved
  <1> QED BY <1>1, InitState, NextState, PTL DEF Spec
-----------------------------------------------------------------------------
\* The policy ceiling.

\* The record's own runtime enforces the ceiling.
Enforced(s) == runtime[s] # Nil => runtime[s].policy = ceiling[s]

\* What client c runs on, or is about to store, is confined to the ceiling.
Confined(c) ==
    /\ call[c].ask \in NonNegativeRequests
    /\ pc[c] \in {"install", "run"} /\ narrowed[c] =>
          NoWider(scratch[c].policy, ceiling[SessionOf(c)], Sizes)
    /\ pc[c] = "reopen" => scratch[c].policy = ceiling[SessionOf(c)]

CInv ==
    /\ Base
    /\ \A c \in Clients : Confined(c)
    /\ \A s \in Sessions : Enforced(s)

\* A session that has been created keeps its ceiling.
CeilingsKept == \A s \in Sessions : life[s] # "absent" => ceiling'[s] = ceiling[s]

\* A caller that asks for no policy sets no negative limit.
LEMMA NoRequestNonNegative == NoRequest \in NonNegativeRequests /\ NoCall.ask = NoRequest
  BY DEF NoRequest, NonNegativeRequests, PoliciesOver, NoCall, Request

\* No runtime exists at first.
LEMMA InitCInv == Init => CInv
  BY InitBase, NoRequestNonNegative DEF Init, CInv, Enforced, Confined

\* Only Create sets the ceiling of a session, and only of a new one.
LEMMA StepCeilings ==
    ASSUME Base, NEW c \in Clients, Step(c)
    PROVE  CeilingsKept
  <1> USE DEF records, CeilingsKept
  <1>t. RecordTypes
    BY DEF Base, TypeOK
  <1>1. CASE StartSomeCall(c)
    BY <1>t, <1>1 DEF StartSomeCall, Create, Get, CancelCall, LookupManaged, RecordTypes
  <1>2. CASE CancelStep(c)
    BY <1>2 DEF CancelStep, CancelRefused, CancelAgain, CancelMark, CancelFire
  <1>3. CASE ExecuteStep(c)
    BY <1>3 DEF ExecuteStep, ExecuteRefused, ExecuteAdmitted, ExecuteInstall, ExecuteSettle,
       ExecuteObserve, ExecuteObserved
  <1>4. CASE EndCommand(c)
    BY <1>4 DEF EndCommand, ExecuteFinish
  <1>5. CASE StoreStep(c)
    BY <1>5 DEF StoreStep, StoreRefused, StoreAdmitted, Store, StoreHook, StoreHooked
  <1>6. CASE ResumeStep(c)
    BY <1>6 DEF ResumeStep, ResumeOpen, ResumeClosed, ResumeRebuild, ResumeStore
  <1> QED BY <1>1, <1>2, <1>3, <1>4, <1>5, <1>6 DEF Step, CallStep

\* A runtime is built with the policy it is given.
LEMMA BuiltPolicy ==
    ASSUME NEW snap, NEW p, NEW g
    PROVE  BuildRuntime(snap, p, g).policy = p
  BY DEF BuildRuntime

\* A step of one client leaves the others confined.
LEMMA OthersConfined ==
    ASSUME CInv, NEW c \in Clients, Frame(c), CeilingsKept, NEW k \in Clients \ {c}
    PROVE  Confined(k)'
  <1>1. /\ SessionOf(k) \in Sessions /\ SessionOf(k)' = SessionOf(k)
        /\ pc'[k] = pc[k] /\ call'[k] = call[k]
        /\ narrowed'[k] = narrowed[k] /\ scratch'[k] = scratch[k]
    BY DEF CInv, Base, TypeOK, LocalTypes, Calls, Frame, OthersKept, SessionOf
  <1>2. pc[k] \in Held => ceiling'[SessionOf(k)] = ceiling[SessionOf(k)]
    BY <1>1 DEF CInv, Base, Locals, CeilingsKept
  <1> QED BY <1>1, <1>2 DEF CInv, Confined, Held

\* A step of a client leaves the client confined.
LEMMA OwnConfined ==
    ASSUME CInv, Asks \subseteq NonNegativeRequests, NEW c \in Clients, Step(c)
    PROVE  Confined(c)'
  <1> USE DEF records, local, Held
  <1>t. LocalTypes /\ RecordTypes /\ Confined(c)
    BY DEF CInv, Base, TypeOK
  <1>s. PICK s \in Sessions : s = SessionOf(c)
    BY <1>t DEF LocalTypes, SessionOf, Calls
  <1>r. ASSUME NEW r, Return(c, r)
        PROVE  Confined(c)'
    <2>1. pc'[c] = "idle" /\ call'[c] = NoCall
      BY <1>t, <1>r DEF Return, Goto, LocalTypes
    <2> QED BY <2>1, NoRequestNonNegative DEF Confined
  <1>a. ASSUME NEW r, Answer(c, r)
        PROVE  Confined(c)'
    BY <1>t, <1>a DEF Answer, MayCall, Confined
  <1>c. ASSUME NEW l, Continue(c, l)
        PROVE  pc'[c] = l /\ call'[c] = call[c] /\ SessionOf(c)' = s
    BY <1>s, <1>t, <1>c DEF Continue, Goto, LocalTypes, SessionOf
  <1>p. ASSUME NEW l, Continue(c, l), l \notin {"install", "run", "reopen"}
        PROVE  Confined(c)'
    BY <1>t, <1>c, <1>p DEF Confined
  <1>e. ASSUME NEW op, NEW q, NEW ask \in NonNegativeRequests, NEW blank, NEW expect, NEW l,
               Enter(c, Request(op, q, ask, blank, expect), l),
               l \notin {"install", "run", "reopen"}
        PROVE  Confined(c)'
    <2>1. pc'[c] = l /\ call'[c].ask = ask
      BY <1>t, <1>e DEF Enter, Goto, LocalTypes, Request
    <2> QED BY <1>e, <2>1 DEF Confined
  <1>1. CASE StartSomeCall(c)
    <2>1. ASSUME NEW q, NEW expect, CancelCall(c, q, expect)
          PROVE  Confined(c)'
      BY <1>e, <2>1, NoRequestNonNegative DEF CancelCall
    <2>2. ASSUME NEW op, NEW q, NEW ask \in NonNegativeRequests, NEW blank,
                 LookupManaged(c, op, q, ask, blank)
          PROVE  Confined(c)'
      BY <1>a, <1>e, <2>2 DEF LookupManaged
    <2>3. NoRequest \in NonNegativeRequests
      BY NoRequestNonNegative
    <2> QED BY <1>1, <1>a, <2>1, <2>2, <2>3 DEF StartSomeCall, Create, Get
  <1>2. CASE CancelStep(c)
    BY <1>2, <1>r, <1>p DEF CancelStep, CancelRefused, CancelAgain, CancelMark, CancelFire
  <1>3. CASE ExecuteStep(c)
    <2>1. CASE ExecuteAdmitted(c)
      <3> DEFINE p == EffectivePolicy(call[c].ask, ceiling[s])
      <3>1. ceiling[s] \in Policies
        BY <1>t DEF RecordTypes
      <3>2. NoWider(p, ceiling[s], Sizes)
        BY <1>s, <1>t, <2>1, <3>1, AdmittedNoWider, SessionsAssumption
        DEF ExecuteAdmitted, Confined
      <3>3. /\ pc'[c] = "install" /\ call'[c] = call[c] /\ SessionOf(c)' = s
            /\ UNCHANGED ceiling
            /\ narrowed'[c] => scratch'[c] = BuildRuntime(snapshot[s], p, adapterMounts[s])
        BY <1>s, <1>t, <1>c, <2>1 DEF ExecuteAdmitted, LocalTypes
      <3> HIDE DEF p
      <3> QED BY <1>t, <3>2, <3>3, BuiltPolicy DEF Confined
    <2>2. CASE ExecuteInstall(c)
      BY <1>s, <1>t, <1>c, <2>2 DEF ExecuteInstall, Confined
    <2> QED BY <1>3, <1>r, <1>p, <2>1, <2>2
            DEF ExecuteStep, ExecuteRefused, ExecuteSettle, ExecuteObserve, ExecuteObserved
  <1>4. CASE EndCommand(c)
    BY <1>4, <1>p DEF EndCommand, ExecuteFinish
  <1>5. CASE StoreStep(c)
    BY <1>5, <1>r, <1>p DEF StoreStep, StoreRefused, StoreAdmitted, Store, StoreHook, StoreHooked
  <1>6. CASE ResumeStep(c)
    <2>1. CASE ResumeRebuild(c)
      <3> DEFINE g == IF s \in Adapted THEN NextGeneration(s) ELSE 0
      <3>1. CASE \E r \in {"adapter", "runtime"} : Return(c, r)
        BY <1>r, <3>1
      <3>2. CASE /\ Continue(c, "reopen")
                 /\ scratch' = [scratch EXCEPT ![c] = BuildRuntime(checkpoint[s], ceiling[s], g)]
        <4>1. /\ pc'[c] = "reopen" /\ call'[c] = call[c] /\ SessionOf(c)' = s
              /\ scratch'[c] = BuildRuntime(checkpoint[s], ceiling[s], g)
              /\ UNCHANGED ceiling
          BY <1>t, <1>c, <2>1, <3>2 DEF ResumeRebuild, LocalTypes
        <4> HIDE DEF g
        <4> QED BY <1>t, <4>1, BuiltPolicy DEF Confined
      <3> QED BY <1>s, <2>1, <3>1, <3>2 DEF ResumeRebuild
    <2> QED BY <1>6, <1>r, <1>p, <2>1 DEF ResumeStep, ResumeOpen, ResumeClosed, ResumeStore
  <1> QED BY <1>1, <1>2, <1>3, <1>4, <1>5, <1>6 DEF Step, CallStep

\* Every runtime stored in a record is built under the ceiling.
LEMMA NextEnforced ==
    ASSUME CInv, NEW c \in Clients, Step(c)
    PROVE  \A s \in Sessions : Enforced(s)'
  <1> USE DEF records
  <1>t. LocalTypes /\ RecordTypes /\ \A s \in Sessions : Enforced(s)
    BY DEF CInv, Base, TypeOK
  <1>s. PICK s \in Sessions : s = SessionOf(c)
    BY <1>t DEF LocalTypes, SessionOf, Calls
  <1>q. ASSUME UNCHANGED <<runtime, ceiling>>
        PROVE  \A r \in Sessions : Enforced(r)'
    BY <1>t, <1>q DEF Enforced
  <1>p. ASSUME \A r \in Sessions \ {s} : runtime'[r] = runtime[r], UNCHANGED ceiling,
               \/ runtime'[s] \in {runtime[s], Nil}
               \/ runtime'[s].policy = ceiling[s]
        PROVE  \A r \in Sessions : Enforced(r)'
    BY <1>t, <1>p DEF Enforced
  <1>1. ASSUME NEW q \in Sessions, NEW d, NEW p, Create(c, q, d, p)
        PROVE  \A r \in Sessions : Enforced(r)'
    <2> DEFINE built == BuildRuntime(NewSnapshot(d, FirstGeneration(q)), p, FirstGeneration(q))
    <2>1. built.policy = p
      BY BuiltPolicy
    <2>2. /\ runtime'[q] = built /\ ceiling'[q] = p
          /\ \A r \in Sessions \ {q} : runtime'[r] = runtime[r] /\ ceiling'[r] = ceiling[r]
      BY <1>t, <1>1 DEF Create, RecordTypes
    <2> HIDE DEF built
    <2> QED BY <1>t, <2>1, <2>2 DEF Enforced
  <1>2. CASE StartSomeCall(c)
    BY <1>q, <1>1, <1>2 DEF StartSomeCall, Get, CancelCall, LookupManaged
  <1>3. CASE CancelStep(c)
    BY <1>q, <1>3 DEF CancelStep, CancelRefused, CancelAgain, CancelMark, CancelFire
  <1>4. CASE ExecuteStep(c)
    <2>1. ASSUME NEW snap, NEW g, runtime' = [runtime EXCEPT ![s] = BuildRuntime(snap, ceiling[s], g)]
          PROVE  /\ \A r \in Sessions \ {s} : runtime'[r] = runtime[r]
                 /\ runtime'[s].policy = ceiling[s]
      <3> DEFINE built == BuildRuntime(snap, ceiling[s], g)
      <3>1. built.policy = ceiling[s]
        BY BuiltPolicy
      <3> HIDE DEF built
      <3>2. runtime' = [runtime EXCEPT ![s] = built]
        BY <2>1 DEF built
      <3> QED BY <1>t, <3>1, <3>2 DEF RecordTypes
    <2>2. CASE ExecuteSettle(c)
      BY <1>s, <1>p, <1>q, <2>1, <2>2 DEF ExecuteSettle
    <2>3. CASE ExecuteObserved(c)
      BY <1>s, <1>p, <1>q, <2>1, <2>3 DEF ExecuteObserved
    <2> QED BY <1>4, <1>q, <2>2, <2>3
            DEF ExecuteStep, ExecuteRefused, ExecuteAdmitted, ExecuteInstall, ExecuteObserve
  <1>5. CASE EndCommand(c)
    <2>1. PICK d \in Dirs : ExecuteFinish(c, d)
      BY <1>5 DEF EndCommand
    <2>2. runtime[s] \in Runtimes
      BY <1>s, <2>1, RuntimeThere DEF CInv, ExecuteFinish, Held
    <2>3. [runtime[s] EXCEPT !.cwd = d].policy = runtime[s].policy
      BY <2>2 DEF Runtimes
    <2>4. runtime[s] # Nil
      BY <2>2, NilAssumption DEF Runtimes
    <2>5. \/ UNCHANGED runtime
          \/ /\ \A r \in Sessions \ {s} : runtime'[r] = runtime[r]
             /\ runtime'[s].policy = runtime[s].policy
      BY <1>s, <1>t, <2>1, <2>3 DEF ExecuteFinish, RecordTypes
    <2> QED BY <1>t, <1>q, <1>p, <2>1, <2>4, <2>5 DEF ExecuteFinish, Enforced
  <1>6. CASE StoreStep(c)
    <2>1. ASSUME NEW next, StoreSession(c, next)
          PROVE  /\ \A r \in Sessions \ {s} : runtime'[r] = runtime[r]
                 /\ runtime'[s] \in {runtime[s], Nil}
      BY <1>s, <1>t, <2>1 DEF StoreSession, CheckpointStore, CloseStore, RecordTypes
    <2> QED BY <1>6, <1>p, <1>q, <2>1
            DEF StoreStep, StoreRefused, StoreAdmitted, Store, StoreHook, StoreHooked
  <1>7. CASE ResumeStep(c)
    <2>1. CASE ResumeStore(c)
      <3>1. scratch[c].policy = ceiling[s]
        BY <1>s, <2>1 DEF CInv, Confined, ResumeStore
      <3> QED BY <1>s, <1>t, <1>p, <2>1, <3>1 DEF ResumeStore, RecordTypes
    <2> QED BY <1>7, <1>q, <2>1 DEF ResumeStep, ResumeOpen, ResumeClosed, ResumeRebuild
  <1> QED BY <1>2, <1>3, <1>4, <1>5, <1>6, <1>7 DEF Step, CallStep

\* CInv is inductive.
LEMMA NextCInv ==
    ASSUME Asks \subseteq NonNegativeRequests
    PROVE  CInv /\ [Next]_vars => CInv'
  <1> SUFFICES ASSUME CInv, [Next]_vars PROVE CInv'
    OBVIOUS
  <1>b. Base'
    BY NextBase DEF CInv
  <1>1. CASE UNCHANGED vars
    BY <1>b, <1>1 DEF vars, records, local, CInv, Confined, Enforced, SessionOf
  <1>2. ASSUME NEW c \in Clients, Step(c)
        PROVE  CInv'
    <2>1. Frame(c) /\ CeilingsKept
      BY <1>b, <1>2, StepFrame, StepCeilings DEF CInv, Base
    <2>2. \A k \in Clients : Confined(k)'
      BY <1>2, <2>1, OwnConfined, OthersConfined
    <2> QED BY <1>b, <1>2, <2>2, NextEnforced DEF CInv
  <1> QED BY <1>1, <1>2 DEF Next, Step, AllReturned

\* session_manager.go Execute: no command runs under a policy that permits what
\* the ceiling of its session forbids, as long as requests set no negative
\* limit.
THEOREM CeilingHolds ==
    ASSUME Asks \subseteq NonNegativeRequests
    PROVE  Spec => []ConfinedToCeiling
  <1>1. CInv /\ [Next]_vars => CInv'
    BY NextCInv
  <1>2. CInv => ConfinedToCeiling
    <2> SUFFICES ASSUME CInv PROVE ConfinedToCeiling
      OBVIOUS
    <2>1. ASSUME NEW c \in Clients, pc[c] = "run"
          PROVE  NoWider(RuntimeOf(c).policy, ceiling[SessionOf(c)], Sizes)
      <3>1. runtime[SessionOf(c)].policy = ceiling[SessionOf(c)]
        <4>1. SessionOf(c) \in Sessions /\ runtime[SessionOf(c)] \in Runtimes
          BY <2>1, RuntimeThere DEF CInv, Held
        <4> QED BY <4>1, NilAssumption DEF CInv, Enforced, Runtimes
      <3> QED BY <2>1, <3>1 DEF CInv, Confined, RuntimeOf, NoWider
    <2> QED BY <2>1 DEF CInv, Enforced, ConfinedToCeiling
  <1> QED BY <1>1, <1>2, InitCInv, PTL DEF Spec
==============================================================================
