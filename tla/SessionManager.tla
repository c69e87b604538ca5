--------------------------- MODULE SessionManager ---------------------------
(***************************************************************************)
(* The session manager of simsh: pkg/engine/runtime/session_manager.go and *)
(* session_adapters.go.                                                    *)
(*                                                                         *)
(* Clients (the goroutines of the HTTP server or of an embedding program)  *)
(* call Create, Get, Cancel, Execute, Checkpoint, Resume and Close on      *)
(* shared sessions.  Two kinds of lock order them: m.mu guards the map and *)
(* the records' fields, and each session's executeMu is held for the whole *)
(* of an Execute, Checkpoint, Resume or Close.  An action below is what    *)
(* one goroutine does between two points where another could interfere:    *)
(* the acquisition of a lock, the command it runs, the adapter hook it     *)
(* waits for, and the cancel function it calls after it has unlocked.      *)
(*                                                                         *)
(* Outside the manager, and nondeterministic here: the command (it leaves  *)
(* the runtime in any working directory), the adapters (a hook returns a   *)
(* new projection or an error), and runtime.New (it may fail, for instance *)
(* because the working directory to restore is gone).                      *)
(***************************************************************************)
EXTENDS Policy

CONSTANTS
    Clients,      \* goroutines that call the manager
    Sessions,     \* session ids
    Dirs,         \* runtime state kept from call to call: the working directory
    Ceilings,     \* policies a session may be created with
    Asks,         \* policies an Execute may request
    Sizes,        \* sizes, depths and times the confinement of a command is judged on
    Adapted,      \* the sessions created with session adapters
    MaxCalls,     \* bound: how many calls the clients make in all
    Free,         \* no client: an unlocked mutex
    Nil           \* the nil runtime

ASSUME SessionsAssumption ==
    /\ Free \notin Clients
    /\ Sessions # {} /\ Dirs # {}
    /\ Ceilings \subseteq Policies
    /\ Asks \subseteq Requests
    /\ Sizes \subseteq Nat
    /\ Adapted \subseteq Sessions
    /\ MaxCalls \in Nat

ASSUME NilAssumption == Nil \notin [cwd : Dirs, mounts : Nat, policy : Policies]

VARIABLES
    mu,             \* m.mu: the client holding it for writing, or Free
    executeMu,      \* per session: the client holding record.executeMu, or Free
    life,           \* per session: "absent" from m.sessions, "open", "closed"
    ceiling,        \* per session: snapshot.PolicyCeiling
    snapshot,       \* per session: record.snapshot
    checkpoint,     \* per session: record.checkpoint
    runtime,        \* per session: record.runtime, Nil when closed
    adapterMounts,  \* per session: projection generation of record.adapterMounts
    control,        \* per session: execution id of record.activeExecution, 0 if nil
    generation,     \* per session: projections its adapters have built (external)
    done,           \* ids of executions whose done channel is closed
    cancelled,      \* ids of executions whose context a Cancel call cancelled
    nextExec,       \* the next execution id
    calls,          \* calls made so far
    pc, call,       \* per client: where it is in which call
    exec,           \* per client: the execution its Execute installed
    narrowed,       \* per client: whether that Execute runs under a narrower policy
    scratch,        \* per client: a runtime built but not yet stored in the record
    reply,          \* per client: how its last call ended
    lastDir,        \* ghost, per session: where the last command left the runtime
    dropped,        \* ghost: sessions whose last command's state was lost to an error
    behind          \* ghost: sessions whose snapshot an error has kept behind the runtime

locks   == <<mu, executeMu>>
records == <<life, ceiling, snapshot, checkpoint, runtime, adapterMounts, control>>
global  == <<done, cancelled, nextExec>>
local   == <<exec, narrowed, scratch>>
ghosts  == <<lastDir, dropped, behind>>
vars    == <<locks, records, generation, global, calls, pc, call, local, reply, ghosts>>
-----------------------------------------------------------------------------
NoExec == 0    \* no execution id, and the empty expected id of a Cancel

Statuses == {"none", "running", "canceling"}

\* contract.Session as a record stores it: the merged runtime state, the
\* projection its opaque adapter state belongs to, and ActiveExecution.
Snapshots == [cwd : Dirs, opaque : Nat, exec : Nat, status : Statuses]

\* A Stack: its working directory, the projection generation of the adapter
\* mounts it was built with, and the policy it enforces.
Runtimes == [cwd : Dirs, mounts : Nat, policy : Policies]

Ops == {"none", "cancel", "execute", "checkpoint", "close", "resume"}

Calls == [op     : Ops,
          s      : Sessions,
          ask    : Requests,   \* Execute: the requested policy
          blank  : BOOLEAN,    \* Execute: the command line is empty
          expect : Nat]        \* Cancel: the expected execution id

Locations == {"idle", "lock", "install", "run", "settle", "observe",
              "store", "hook", "rebuild", "reopen", "cancel", "fire"}

Replies == {"none", "ok", "not_found", "closed", "ceiling", "runtime", "adapter",
            "not_running", "execution_required", "execution_changed"}

SessionOf(c) == call[c].s
RuntimeOf(c) == IF narrowed[c] THEN scratch[c] ELSE runtime[SessionOf(c)]

\* executionFinished: the done channel of the session's execution is closed.
ExecutionFinished(s) == control[s] \in done

WithoutExecution(snap) == [snap EXCEPT !.exec = NoExec, !.status = "none"]

\* newActiveExecutionState: a new execution in the slot.
WithExecution(snap, e) == [snap EXCEPT !.exec = e, !.status = "running"]

\* mergeSessionState: the runtime state of rt, the rest of snap.
MergeSessionState(snap, rt) == [snap EXCEPT !.cwd = rt.cwd]

\* runtimeOptionsFromSession: what New builds from a snapshot.
BuildRuntime(snap, policy, mounts) ==
    [cwd |-> snap.cwd, mounts |-> mounts, policy |-> policy]
-----------------------------------------------------------------------------
LockTypes ==
    /\ mu \in Clients \cup {Free}
    /\ executeMu \in [Sessions -> Clients \cup {Free}]

RecordTypes ==
    /\ life \in [Sessions -> {"absent", "open", "closed"}]
    /\ ceiling \in [Sessions -> Policies]
    /\ snapshot \in [Sessions -> Snapshots]
    /\ checkpoint \in [Sessions -> Snapshots]
    /\ runtime \in [Sessions -> Runtimes \cup {Nil}]
    /\ adapterMounts \in [Sessions -> Nat]
    /\ control \in [Sessions -> Nat]
    /\ generation \in [Sessions -> Nat]

ExecTypes ==
    /\ done \in SUBSET Nat
    /\ cancelled \in SUBSET Nat
    /\ nextExec \in Nat \ {0}
    /\ calls \in Nat

LocalTypes ==
    /\ pc \in [Clients -> Locations]
    /\ call \in [Clients -> Calls]
    /\ exec \in [Clients -> Nat]
    /\ narrowed \in [Clients -> BOOLEAN]
    /\ scratch \in [Clients -> Runtimes \cup {Nil}]
    /\ reply \in [Clients -> Replies]

GhostTypes ==
    /\ lastDir \in [Sessions -> Dirs]
    /\ dropped \in SUBSET Sessions
    /\ behind \in SUBSET Sessions

TypeOK == LockTypes /\ RecordTypes /\ ExecTypes /\ LocalTypes /\ GhostTypes
-----------------------------------------------------------------------------
AnyDir == CHOOSE d \in Dirs : TRUE

NewSnapshot(d, g) == [cwd |-> d, opaque |-> g, exec |-> NoExec, status |-> "none"]

Request(op, s, ask, blank, expect) ==
    [op |-> op, s |-> s, ask |-> ask, blank |-> blank, expect |-> expect]

NoCall == Request("none", CHOOSE s \in Sessions : TRUE, NoRequest, FALSE, NoExec)

Init ==
    /\ mu = Free
    /\ executeMu = [s \in Sessions |-> Free]
    /\ life = [s \in Sessions |-> "absent"]
    /\ ceiling = [s \in Sessions |-> DefaultPolicy]
    /\ snapshot = [s \in Sessions |-> NewSnapshot(AnyDir, 0)]
    /\ checkpoint = [s \in Sessions |-> NewSnapshot(AnyDir, 0)]
    /\ runtime = [s \in Sessions |-> Nil]
    /\ adapterMounts = [s \in Sessions |-> 0]
    /\ control = [s \in Sessions |-> NoExec]
    /\ generation = [s \in Sessions |-> 0]
    /\ done = {} /\ cancelled = {} /\ nextExec = 1
    /\ calls = 0
    /\ pc = [c \in Clients |-> "idle"]
    /\ call = [c \in Clients |-> NoCall]
    /\ exec = [c \in Clients |-> NoExec]
    /\ narrowed = [c \in Clients |-> FALSE]
    /\ scratch = [c \in Clients |-> Nil]
    /\ reply = [c \in Clients |-> "none"]
    /\ lastDir = [s \in Sessions |-> AnyDir] /\ dropped = {} /\ behind = {}
-----------------------------------------------------------------------------
(***************************************************************************)
(* Control flow of a call.                                                 *)
(***************************************************************************)
Goto(c, location) == pc' = [pc EXCEPT ![c] = location]

\* A step of client c that ends its call with reply r; the call's local
\* variables go out of scope.
Return(c, r) ==
    /\ Goto(c, "idle")
    /\ call' = [call EXCEPT ![c] = NoCall]
    /\ reply' = [reply EXCEPT ![c] = r]
    /\ exec' = [exec EXCEPT ![c] = NoExec]
    /\ narrowed' = [narrowed EXCEPT ![c] = FALSE]
    /\ scratch' = [scratch EXCEPT ![c] = Nil]

\* A step of client c that stays inside its call.
Continue(c, location) ==
    /\ Goto(c, location)
    /\ UNCHANGED <<call, reply>>

\* A new call of client c, within the bound.
MayCall(c) == pc[c] = "idle" /\ calls < MaxCalls

Enter(c, request, location) ==
    /\ MayCall(c)
    /\ calls' = calls + 1
    /\ Goto(c, location)
    /\ call' = [call EXCEPT ![c] = request]
    /\ reply' = [reply EXCEPT ![c] = "none"]
    /\ UNCHANGED local

\* A call that is over in one step.
Answer(c, r) ==
    /\ MayCall(c)
    /\ calls' = calls + 1
    /\ reply' = [reply EXCEPT ![c] = r]
    /\ UNCHANGED <<pc, call, local>>

LockExecute(c)   == /\ executeMu[SessionOf(c)] = Free
                    /\ executeMu' = [executeMu EXCEPT ![SessionOf(c)] = c]
UnlockExecute(c) == executeMu' = [executeMu EXCEPT ![SessionOf(c)] = Free]

\* Lock executeMu and return before unlocking it again: one step, since no
\* other client can tell.
PassExecute(c)   == /\ executeMu[SessionOf(c)] = Free
                    /\ UNCHANGED executeMu
-----------------------------------------------------------------------------
(***************************************************************************)
(* Create.  Nobody else knows the record before it is stored in m.sessions,*)
(* so the whole call is one step.  The session's adapters build their      *)
(* first projection; an error anywhere stores nothing.                     *)
(***************************************************************************)
FirstGeneration(s) == IF s \in Adapted THEN 1 ELSE 0

Create(c, s, d, p) ==
    LET g == FirstGeneration(s)
        created == NewSnapshot(d, g)
    IN  /\ mu = Free
        /\ life[s] = "absent"
        /\ life' = [life EXCEPT ![s] = "open"]
        /\ ceiling' = [ceiling EXCEPT ![s] = p]
        /\ snapshot' = [snapshot EXCEPT ![s] = created]
        /\ checkpoint' = [checkpoint EXCEPT ![s] = created]
        /\ runtime' = [runtime EXCEPT ![s] = BuildRuntime(created, p, g)]
        /\ adapterMounts' = [adapterMounts EXCEPT ![s] = g]
        /\ generation' = [generation EXCEPT ![s] = g]
        /\ lastDir' = [lastDir EXCEPT ![s] = d]
        /\ dropped' = dropped \ {s} /\ behind' = behind \ {s}
        /\ Answer(c, "ok")
        /\ UNCHANGED <<locks, control, global>>

(***************************************************************************)
(* Get.  It also drops the live slot of an execution whose done channel is *)
(* closed but whose Execute has not got m.mu back yet.                     *)
(***************************************************************************)
\* Broken: the snapshot keeps showing the execution.
Broken_ClearSlot(s) ==
    /\ control' = [control EXCEPT ![s] = NoExec]
    /\ UNCHANGED snapshot

ClearSlot(s) ==
    /\ control' = [control EXCEPT ![s] = NoExec]
    /\ snapshot' = [snapshot EXCEPT ![s] = WithoutExecution(@)]

Get(c, s) ==
    /\ mu = Free
    /\ IF life[s] # "absent" /\ control[s] # NoExec /\ ExecutionFinished(s)
       THEN ClearSlot(s)
       ELSE UNCHANGED <<control, snapshot>>
    /\ Answer(c, IF life[s] = "absent" THEN "not_found" ELSE "ok")
    /\ UNCHANGED <<locks, life, ceiling, checkpoint, runtime, adapterMounts,
                   generation, global, ghosts>>
-----------------------------------------------------------------------------
(***************************************************************************)
(* Cancel: decide under m.mu, call the cancel function after unlocking.    *)
(***************************************************************************)
CancelCall(c, s, expect) ==
    /\ Enter(c, Request("cancel", s, NoRequest, FALSE, expect), "cancel")
    /\ UNCHANGED <<locks, records, generation, global, ghosts>>

\* Broken: the expected execution id is required but not compared.
Broken_CancelRefusal(s, expect) ==
    CASE life[s] = "absent"                              -> "not_found"
      [] life[s] = "closed" \/ runtime[s] = Nil          -> "closed"
      [] control[s] = NoExec \/ snapshot[s].exec = NoExec -> "not_running"
      [] ExecutionFinished(s)                            -> "not_running"
      [] expect = NoExec                                 -> "execution_required"
      [] OTHER                                           -> "none"

CancelRefusal(s, expect) ==
    CASE life[s] = "absent"                              -> "not_found"
      [] life[s] = "closed" \/ runtime[s] = Nil          -> "closed"
      [] control[s] = NoExec \/ snapshot[s].exec = NoExec -> "not_running"
      [] ExecutionFinished(s)                            -> "not_running"
      [] expect = NoExec                                 -> "execution_required"
      [] snapshot[s].exec # expect                       -> "execution_changed"
      [] OTHER                                           -> "none"

CancelRefused(c) ==
    LET s == SessionOf(c)
        refusal == CancelRefusal(s, call[c].expect)
    IN  /\ pc[c] = "cancel" /\ mu = Free
        /\ refusal # "none"
        /\ IF refusal = "not_running" /\ control[s] # NoExec /\ snapshot[s].exec # NoExec
           THEN ClearSlot(s)
           ELSE UNCHANGED <<control, snapshot>>
        /\ Return(c, refusal)
        /\ UNCHANGED <<locks, life, ceiling, checkpoint, runtime, adapterMounts,
                       generation, global, calls, ghosts>>

\* The execution is canceling already: its cancel function is not called again.
CancelAgain(c) ==
    /\ pc[c] = "cancel" /\ mu = Free
    /\ CancelRefusal(SessionOf(c), call[c].expect) = "none"
    /\ snapshot[SessionOf(c)].status = "canceling"
    /\ Return(c, "ok")
    /\ UNCHANGED <<locks, records, generation, global, calls, ghosts>>

CancelMark(c) ==
    LET s == SessionOf(c)
    IN  /\ pc[c] = "cancel" /\ mu = Free
        /\ CancelRefusal(s, call[c].expect) = "none"
        /\ snapshot[s].status # "canceling"
        /\ snapshot' = [snapshot EXCEPT ![s].status = "canceling"]
        /\ exec' = [exec EXCEPT ![c] = control[s]]
        /\ Continue(c, "fire")
        /\ UNCHANGED <<locks, life, ceiling, checkpoint, runtime, adapterMounts, control,
                       generation, global, calls, narrowed, scratch, ghosts>>

\* Broken: the cancel function is never called.
Broken_CancelFire(c) ==
    /\ pc[c] = "fire"
    /\ Return(c, "ok")
    /\ UNCHANGED <<locks, records, generation, global, calls, ghosts>>

\* cancel(): the captured function of the execution marked above, whatever
\* has become of the session since.
CancelFire(c) ==
    /\ pc[c] = "fire"
    /\ cancelled' = cancelled \cup {exec[c]}
    /\ Return(c, "ok")
    /\ UNCHANGED <<locks, records, generation, done, nextExec, calls, ghosts>>
-----------------------------------------------------------------------------
(***************************************************************************)
(* Execute, Checkpoint, Resume and Close start alike: lookupManaged takes  *)
(* m.mu for reading, then the call queues for the session's executeMu.     *)
(***************************************************************************)
LookupManaged(c, op, s, ask, blank) ==
    /\ mu = Free
    /\ IF life[s] = "absent"
       THEN Answer(c, "not_found")
       ELSE Enter(c, Request(op, s, ask, blank, NoExec), "lock")
    /\ UNCHANGED <<locks, records, generation, global, ghosts>>

IsClosed(s) == life[s] = "closed" \/ runtime[s] = Nil

(***************************************************************************)
(* Execute.                                                                *)
(***************************************************************************)
\* samePolicy: the command runs on the record's own runtime.
SamePolicy(p, q) == p = q

\* The checks made under executeMu alone, in order; a narrower policy needs a
\* runtime of its own, and building it may fail.
ExecuteRefused(c) ==
    LET s == SessionOf(c)
        effective == EffectivePolicy(call[c].ask, ceiling[s])
    IN  /\ pc[c] = "lock" /\ call[c].op = "execute"
        /\ PassExecute(c)
        /\ \/ IsClosed(s) /\ Return(c, "closed")
           \/ /\ ~ IsClosed(s)
              /\ ~ Admitted(call[c].ask, ceiling[s])
              /\ Return(c, "ceiling")
           \/ /\ ~ IsClosed(s)
              /\ Admitted(call[c].ask, ceiling[s])
              /\ call[c].blank
              /\ Return(c, "ok")        \* UsageResult: nothing runs
           \/ /\ ~ IsClosed(s)
              /\ Admitted(call[c].ask, ceiling[s])
              /\ ~ call[c].blank
              /\ ~ SamePolicy(effective, ceiling[s])
              /\ Return(c, "runtime")   \* New failed
        /\ UNCHANGED <<mu, records, generation, global, calls, ghosts>>

ExecuteAdmitted(c) ==
    LET s == SessionOf(c)
        effective == EffectivePolicy(call[c].ask, ceiling[s])
        same == SamePolicy(effective, ceiling[s])
    IN  /\ pc[c] = "lock" /\ call[c].op = "execute"
        /\ ~ IsClosed(s)
        /\ Admitted(call[c].ask, ceiling[s])
        /\ ~ call[c].blank
        /\ LockExecute(c)
        /\ narrowed' = [narrowed EXCEPT ![c] = ~ same]
        /\ scratch' = [scratch EXCEPT ![c] =
                          IF same THEN Nil
                          ELSE BuildRuntime(snapshot[s], effective, adapterMounts[s])]
        /\ Continue(c, "install")
        /\ UNCHANGED <<mu, records, generation, global, calls, exec, ghosts>>

\* Broken: m.mu is not unlocked before the command runs.
Broken_ExecuteInstall(c) ==
    LET s == SessionOf(c)
    IN  /\ pc[c] = "install" /\ mu = Free
        /\ mu' = c
        /\ nextExec' = nextExec + 1
        /\ exec' = [exec EXCEPT ![c] = nextExec]
        /\ control' = [control EXCEPT ![s] = nextExec]
        /\ snapshot' = [snapshot EXCEPT ![s] = WithExecution(@, nextExec)]
        /\ Continue(c, "run")
        /\ UNCHANGED <<executeMu, life, ceiling, checkpoint, runtime, adapterMounts,
                       generation, done, cancelled, calls, narrowed, scratch, ghosts>>

\* The execution becomes the session's live one.
ExecuteInstall(c) ==
    LET s == SessionOf(c)
    IN  /\ pc[c] = "install" /\ mu = Free
        /\ nextExec' = nextExec + 1
        /\ exec' = [exec EXCEPT ![c] = nextExec]
        /\ control' = [control EXCEPT ![s] = nextExec]
        /\ snapshot' = [snapshot EXCEPT ![s] = WithExecution(@, nextExec)]
        /\ Continue(c, "run")
        /\ UNCHANGED <<locks, life, ceiling, checkpoint, runtime, adapterMounts, generation,
                       done, cancelled, calls, narrowed, scratch, ghosts>>

\* The command ends, by itself, by its timeout or because its context was
\* cancelled, having left the runtime it ran on in directory d; then
\* close(done).  Neither is under m.mu.
ExecuteFinish(c, d) ==
    LET s == SessionOf(c)
    IN  /\ pc[c] = "run"
        /\ IF narrowed[c]
           THEN scratch' = [scratch EXCEPT ![c].cwd = d] /\ UNCHANGED runtime
           ELSE runtime' = [runtime EXCEPT ![s].cwd = d] /\ UNCHANGED scratch
        /\ done' = done \cup {exec[c]}
        /\ lastDir' = [lastDir EXCEPT ![s] = d]
        /\ dropped' = dropped \ {s} /\ behind' = behind \ {s}
        /\ Continue(c, "settle")
        /\ UNCHANGED <<locks, life, ceiling, snapshot, checkpoint, adapterMounts, control,
                       generation, cancelled, nextExec, calls, exec, narrowed>>

\* An Execute fails after its command.  The runtime of a narrowed run is lost;
\* the record's own runtime keeps what the command did to it, but the snapshot,
\* from which the next narrowed run is built, does not have it.
DropState(c) ==
    /\ IF narrowed[c]
       THEN dropped' = dropped \cup {SessionOf(c)} /\ UNCHANGED behind
       ELSE behind' = behind \cup {SessionOf(c)} /\ UNCHANGED dropped
    /\ UNCHANGED lastDir

\* Broken: the record's runtime is not rebuilt after a narrowed run.
Broken_ExecuteSettle(c) ==
    LET s == SessionOf(c)
        cleared == WithoutExecution(snapshot[s])
    IN  /\ pc[c] = "settle" /\ mu = Free /\ s \notin Adapted
        /\ control' = [control EXCEPT ![s] = NoExec]
        /\ snapshot' = [snapshot EXCEPT ![s] = MergeSessionState(cleared, RuntimeOf(c))]
        /\ Return(c, "ok")
        /\ UnlockExecute(c)
        /\ UNCHANGED <<mu, life, ceiling, checkpoint, runtime, adapterMounts, generation,
                       global, calls, ghosts>>

\* Without adapters: m.mu is taken, the slot cleared and the state merged in
\* one go.  A narrowed run needs the record's runtime rebuilt; when that
\* fails the merged snapshot is dropped.
ExecuteSettle(c) ==
    LET s == SessionOf(c)
        cleared == WithoutExecution(snapshot[s])
        merged == MergeSessionState(cleared, RuntimeOf(c))
    IN  /\ pc[c] = "settle" /\ mu = Free /\ s \notin Adapted
        /\ control' = [control EXCEPT ![s] = NoExec]
        /\ \/ /\ snapshot' = [snapshot EXCEPT ![s] = merged]
              /\ runtime' = IF narrowed[c]
                            THEN [runtime EXCEPT ![s] =
                                     BuildRuntime(merged, ceiling[s], adapterMounts[s])]
                            ELSE runtime
              /\ UNCHANGED ghosts
              /\ Return(c, "ok")
           \/ /\ narrowed[c]
              /\ snapshot' = [snapshot EXCEPT ![s] = cleared]
              /\ UNCHANGED runtime
              /\ DropState(c)
              /\ Return(c, "runtime")
        /\ UnlockExecute(c)
        /\ UNCHANGED <<mu, life, ceiling, checkpoint, adapterMounts, generation, global,
                       calls>>

\* With adapters: the slot is cleared, and m.mu stays locked while the
\* adapters observe the result.
ExecuteObserve(c) ==
    /\ pc[c] = "settle" /\ mu = Free /\ SessionOf(c) \in Adapted
    /\ mu' = c
    /\ ClearSlot(SessionOf(c))
    /\ Continue(c, "observe")
    /\ UNCHANGED <<executeMu, life, ceiling, checkpoint, runtime, adapterMounts, generation,
                   global, calls, local, ghosts>>

\* A hook of the session's adapters that succeeds has built one projection.
NextGeneration(s) == generation[s] + 1

\* A hook that fails may have built it, or be stopped half-way through the
\* adapters: what they did stays done.
HookFails(s) ==
    \/ UNCHANGED generation
    \/ generation' = [generation EXCEPT ![s] = NextGeneration(s)]

\* Broken: the opaque state the adapters returned is not kept.
Broken_Projected(snap, g) == snap

Projected(snap, g) == [snap EXCEPT !.opaque = g]

\* The hook and the rebuild succeed, or one fails and the record keeps its
\* old snapshot, runtime and mounts.
ExecuteObserved(c) ==
    LET s == SessionOf(c)
        g == NextGeneration(s)
        merged == Projected(MergeSessionState(snapshot[s], RuntimeOf(c)), g)
    IN  /\ pc[c] = "observe"
        /\ \/ /\ generation' = [generation EXCEPT ![s] = g]
              /\ runtime' = [runtime EXCEPT ![s] = BuildRuntime(merged, ceiling[s], g)]
              /\ adapterMounts' = [adapterMounts EXCEPT ![s] = g]
              /\ snapshot' = [snapshot EXCEPT ![s] = merged]
              /\ UNCHANGED ghosts
              /\ Return(c, "ok")
           \/ /\ HookFails(s)
              /\ UNCHANGED <<runtime, adapterMounts, snapshot>>
              /\ DropState(c)
              /\ Return(c, "adapter")
           \/ /\ generation' = [generation EXCEPT ![s] = g]
              /\ UNCHANGED <<runtime, adapterMounts, snapshot>>
              /\ DropState(c)
              /\ Return(c, "runtime")
        /\ mu' = Free
        /\ UnlockExecute(c)
        /\ UNCHANGED <<life, ceiling, checkpoint, control, global, calls>>
-----------------------------------------------------------------------------
(***************************************************************************)
(* Checkpoint and Close: under executeMu, then under m.mu as well; with    *)
(* adapters m.mu stays locked while their hook runs.                       *)
(***************************************************************************)
StoreRefused(c) ==
    /\ pc[c] = "lock" /\ call[c].op \in {"checkpoint", "close"}
    /\ IsClosed(SessionOf(c))
    /\ PassExecute(c)
    /\ Return(c, "closed")
    /\ UNCHANGED <<mu, records, generation, global, calls, ghosts>>

\* Broken: Checkpoint and Close do not wait for the running command.
Broken_StoreAdmitted(c) ==
    /\ pc[c] = "lock" /\ call[c].op \in {"checkpoint", "close"}
    /\ ~ IsClosed(SessionOf(c))
    /\ executeMu' = [executeMu EXCEPT ![SessionOf(c)] = c]
    /\ Continue(c, "store")
    /\ UNCHANGED <<mu, records, generation, global, calls, local, ghosts>>

StoreAdmitted(c) ==
    /\ pc[c] = "lock" /\ call[c].op \in {"checkpoint", "close"}
    /\ ~ IsClosed(SessionOf(c))
    /\ LockExecute(c)
    /\ Continue(c, "store")
    /\ UNCHANGED <<mu, records, generation, global, calls, local, ghosts>>

\* Checkpoint stores the merged session; the runtime is not rebuilt.
CheckpointStore(s, next) ==
    /\ snapshot' = [snapshot EXCEPT ![s] = next]
    /\ checkpoint' = [checkpoint EXCEPT ![s] = next]
    /\ UNCHANGED <<life, runtime, control>>

\* Broken: Close forgets that the closing state is what Resume restores.
Broken_CloseStore(s, next) ==
    /\ snapshot' = [snapshot EXCEPT ![s] = WithoutExecution(next)]
    /\ life' = [life EXCEPT ![s] = "closed"]
    /\ runtime' = [runtime EXCEPT ![s] = Nil]
    /\ control' = [control EXCEPT ![s] = NoExec]
    /\ UNCHANGED checkpoint

\* Close stores it too, and drops the runtime and the live slot: the
\* checkpoint is taken before the slot of the snapshot is cleared.
CloseStore(s, next) ==
    /\ snapshot' = [snapshot EXCEPT ![s] = WithoutExecution(next)]
    /\ checkpoint' = [checkpoint EXCEPT ![s] = next]
    /\ life' = [life EXCEPT ![s] = "closed"]
    /\ runtime' = [runtime EXCEPT ![s] = Nil]
    /\ control' = [control EXCEPT ![s] = NoExec]

\* Either way the snapshot has caught up with the runtime.
StoreSession(c, next) ==
    /\ IF call[c].op = "checkpoint" THEN CheckpointStore(SessionOf(c), next)
                                    ELSE CloseStore(SessionOf(c), next)
    /\ behind' = behind \ {SessionOf(c)}

Store(c) ==
    LET s == SessionOf(c)
    IN  /\ pc[c] = "store" /\ mu = Free /\ s \notin Adapted
        /\ StoreSession(c, MergeSessionState(snapshot[s], runtime[s]))
        /\ UnlockExecute(c)
        /\ Return(c, "ok")
        /\ UNCHANGED <<mu, ceiling, adapterMounts, generation, global, calls, lastDir, dropped>>

StoreHook(c) ==
    /\ pc[c] = "store" /\ mu = Free /\ SessionOf(c) \in Adapted
    /\ mu' = c
    /\ Continue(c, "hook")
    /\ UNCHANGED <<executeMu, records, generation, global, calls, local, ghosts>>

StoreHooked(c) ==
    LET s == SessionOf(c)
        g == NextGeneration(s)
        next == Projected(MergeSessionState(snapshot[s], runtime[s]), g)
    IN  /\ pc[c] = "hook"
        /\ \/ /\ generation' = [generation EXCEPT ![s] = g]
              /\ adapterMounts' = [adapterMounts EXCEPT ![s] = g]
              /\ StoreSession(c, next)
              /\ Return(c, "ok")
           \/ /\ HookFails(s)
              /\ UNCHANGED <<life, snapshot, checkpoint, runtime, control, adapterMounts,
                             behind>>
              /\ Return(c, "adapter")
        /\ mu' = Free
        /\ UnlockExecute(c)
        /\ UNCHANGED <<ceiling, global, calls, lastDir, dropped>>
-----------------------------------------------------------------------------
(***************************************************************************)
(* Resume: nothing to do for an open session.  A closed one is rebuilt     *)
(* from its checkpoint without m.mu, then stored under it.                 *)
(***************************************************************************)
ResumeOpen(c) ==
    /\ pc[c] = "lock" /\ call[c].op = "resume"
    /\ ~ IsClosed(SessionOf(c))
    /\ PassExecute(c)
    /\ Return(c, "ok")
    /\ UNCHANGED <<mu, records, generation, global, calls, ghosts>>

ResumeClosed(c) ==
    /\ pc[c] = "lock" /\ call[c].op = "resume"
    /\ IsClosed(SessionOf(c))
    /\ LockExecute(c)
    /\ Continue(c, "rebuild")
    /\ UNCHANGED <<mu, records, generation, global, calls, local, ghosts>>

ResumeRebuild(c) ==
    LET s == SessionOf(c)
        g == IF s \in Adapted THEN NextGeneration(s) ELSE 0
    IN  /\ pc[c] = "rebuild"
        /\ \/ /\ generation' = [generation EXCEPT ![s] = g]
              /\ scratch' = [scratch EXCEPT ![c] = BuildRuntime(checkpoint[s], ceiling[s], g)]
              /\ Continue(c, "reopen")
              /\ UNCHANGED <<executeMu, exec, narrowed>>
           \/ /\ s \in Adapted /\ HookFails(s)
              /\ UnlockExecute(c)
              /\ Return(c, "adapter")
           \/ /\ generation' = [generation EXCEPT ![s] = g]   \* New failed
              /\ UnlockExecute(c)
              /\ Return(c, "runtime")
        /\ UNCHANGED <<mu, records, global, calls, ghosts>>

ResumeStore(c) ==
    LET s == SessionOf(c)
    IN  /\ pc[c] = "reopen" /\ mu = Free
        /\ runtime' = [runtime EXCEPT ![s] = scratch[c]]
        /\ life' = [life EXCEPT ![s] = "open"]
        /\ snapshot' = [snapshot EXCEPT ![s] = Projected(checkpoint[s], scratch[c].mounts)]
        /\ adapterMounts' = [adapterMounts EXCEPT ![s] = scratch[c].mounts]
        /\ UnlockExecute(c)
        /\ Return(c, "ok")
        /\ UNCHANGED <<mu, ceiling, checkpoint, control, generation, global, calls,
                       ghosts>>
-----------------------------------------------------------------------------
\* A caller names an execution it has seen, or none.
KnownExecs == 0 .. (nextExec - 1)

StartSomeCall(c) ==
    \/ \E s \in Sessions, d \in Dirs, p \in Ceilings : Create(c, s, d, p)
    \/ \E s \in Sessions : Get(c, s)
    \/ \E s \in Sessions, expect \in KnownExecs : CancelCall(c, s, expect)
    \/ \E s \in Sessions, ask \in Asks, blank \in BOOLEAN :
          LookupManaged(c, "execute", s, ask, blank)
    \/ \E s \in Sessions, op \in {"checkpoint", "close", "resume"} :
          LookupManaged(c, op, s, NoRequest, FALSE)

CancelStep(c) == CancelRefused(c) \/ CancelAgain(c) \/ CancelMark(c) \/ CancelFire(c)

EndCommand(c) == \E d \in Dirs : ExecuteFinish(c, d)

ExecuteStep(c) ==
    \/ ExecuteRefused(c) \/ ExecuteAdmitted(c) \/ ExecuteInstall(c)
    \/ ExecuteSettle(c) \/ ExecuteObserve(c) \/ ExecuteObserved(c)

StoreStep(c) == StoreRefused(c) \/ StoreAdmitted(c) \/ Store(c)
                \/ StoreHook(c) \/ StoreHooked(c)

ResumeStep(c) == ResumeOpen(c) \/ ResumeClosed(c) \/ ResumeRebuild(c) \/ ResumeStore(c)

\* What a client inside a call does by itself, the command apart.
CallStep(c) == CancelStep(c) \/ ExecuteStep(c) \/ StoreStep(c) \/ ResumeStep(c)

\* The bound on calls is reached and every call has returned.
AllReturned ==
    /\ calls = MaxCalls
    /\ \A c \in Clients : pc[c] = "idle"
    /\ UNCHANGED vars

Next ==
    \/ \E c \in Clients : StartSomeCall(c) \/ CallStep(c) \/ EndCommand(c)
    \/ AllReturned

Spec == Init /\ [][Next]_vars

(***************************************************************************)
(* Fairness.  A goroutine inside a call goes on, and gets a mutex that is  *)
(* free again and again (sync.Mutex hands over in FIFO order once a waiter *)
(* has starved for 1ms); an adapter hook returns.  A command is only known *)
(* to end when its context is cancelled: a policy may set no timeout.      *)
(***************************************************************************)
EndCancelledCommand(c) == exec[c] \in cancelled /\ EndCommand(c)

Fairness ==
    \A c \in Clients : SF_vars(CallStep(c)) /\ WF_vars(EndCancelledCommand(c))

FairSpec == Spec /\ Fairness
-----------------------------------------------------------------------------
(***************************************************************************)
(* Properties.                                                             *)
(***************************************************************************)
Held == {"install", "run", "settle", "observe", "store", "hook", "rebuild", "reopen"}

\* A call checks once, under executeMu, whether the session is open, and then
\* releases and takes m.mu again: what it found stays true, and the locks stay
\* its own, until it returns.  [Execute reads record.active and record.runtime
\* at the start and uses them after the command; Close writes them.]
CriticalSections ==
    \A c \in Clients :
        /\ pc[c] \in Held => executeMu[SessionOf(c)] = c
        /\ pc[c] \in {"observe", "hook"} => mu = c
        /\ pc[c] \in Held \ {"rebuild", "reopen"} => ~ IsClosed(SessionOf(c))
        /\ pc[c] \in {"rebuild", "reopen"} => IsClosed(SessionOf(c))

\* c is between installing an execution in session s and clearing the slot.
Occupies(c, s) ==
    /\ call[c].op = "execute" /\ SessionOf(c) = s
    /\ pc[c] \in {"run", "settle"}

\* What Get shows as active_execution is an execution that occupies the
\* session; the control block Cancel acts through (record.activeExecution) and
\* the snapshot always name the same one; a command that is still running is
\* always shown; and whoever occupies a session holds its executeMu, so that a
\* session runs one command at a time.  [Execute's install and settle, and the
\* clearing shortcuts of Get and Cancel, keep this together.]
SlotTruthful ==
    \A s \in Sessions :
        /\ control[s] = snapshot[s].exec
        /\ (control[s] = NoExec) <=> (snapshot[s].status = "none")
        /\ control[s] # NoExec =>
              \E c \in Clients : Occupies(c, s) /\ exec[c] = control[s]
        /\ \A c \in Clients : Occupies(c, s) =>
              /\ executeMu[s] = c
              /\ pc[c] = "run" => control[s] = exec[c]

\* active_execution is never checkpointed, so never resumed.  Checkpoint and
\* Close copy the snapshot with whatever is in its slot: only the fact that
\* they hold executeMu keeps it empty.
CheckpointInert ==
    \A s \in Sessions : checkpoint[s].exec = NoExec /\ checkpoint[s].status = "none"

\* A cancel function about to be called belongs to the execution the caller
\* named, even if that has finished and another occupies the session.
CancelHitsExpected ==
    \A c \in Clients : pc[c] = "fire" => exec[c] = call[c].expect

\* A command whose context a Cancel call cancelled is shown as canceling for
\* as long as it is shown.
CancelIsVisible ==
    \A s \in Sessions :
        (control[s] # NoExec /\ control[s] \in cancelled) => snapshot[s].status = "canceling"

\* Cancel cancels what it was asked to and shows that it did.
CancelIsPrecise == CancelHitsExpected /\ CancelIsVisible

\* Nothing runs in a closed session, nothing is shown as running, and it
\* holds exactly the state a Resume will restore.
ClosedIsQuiet ==
    \A s \in Sessions : life[s] = "closed" =>
        /\ runtime[s] = Nil /\ control[s] = NoExec
        /\ snapshot[s] = checkpoint[s]
        /\ \A c \in Clients : ~ Occupies(c, s)

\* "Each execution may request the same or a narrower policy": whatever the
\* policy of a running command permits, the session's ceiling permits, and the
\* record's own runtime enforces the ceiling itself.
ConfinedToCeiling ==
    /\ \A c \in Clients : pc[c] = "run" =>
          NoWider(RuntimeOf(c).policy, ceiling[SessionOf(c)], Sizes)
    /\ \A s \in Sessions : runtime[s] # Nil => runtime[s].policy = ceiling[s]

\* The opaque adapter state of a snapshot and the mounts kept for it come from
\* one and the same adapter hook, and neither the runtime nor the checkpoint
\* is ahead of them.
ProjectionsAgree ==
    \A s \in Sessions :
        /\ snapshot[s].opaque = adapterMounts[s]
        /\ adapterMounts[s] <= generation[s]
        /\ checkpoint[s].opaque <= snapshot[s].opaque
        /\ runtime[s] # Nil => runtime[s].mounts <= adapterMounts[s]

\* "Repeated requests within a session preserve runtime state": between calls
\* an open session's runtime, and a closed session's checkpoint, are where the
\* last command left them, and so is the snapshot: wherever the next Execute
\* takes its runtime from -- the record, the snapshot when its policy is
\* narrower, the checkpoint after a Resume -- it starts there, through narrowed
\* runs, checkpoints, closes, resumes and failures.  Two failures are excepted.
\* An Execute under a narrower policy that fails after its command loses what
\* the command left (dropped); one on the record's own runtime leaves the
\* snapshot behind, so that a run under a narrower policy would start in the old
\* directory, until a Checkpoint or a Close stores the session (behind).
Rests(s) == executeMu[s] = Free

HeldDir(s) == IF life[s] = "open" THEN runtime[s].cwd ELSE checkpoint[s].cwd

StatePreserved ==
    \A s \in Sessions :
        (life[s] # "absent" /\ Rests(s) /\ s \notin dropped) =>
            /\ HeldDir(s) = lastDir[s]
            /\ s \notin behind => snapshot[s].cwd = lastDir[s]

\* The first half without its exception.
StateNeverDropped ==
    \A s \in Sessions : (life[s] # "absent" /\ Rests(s)) => HeldDir(s) = lastDir[s]

\* An execution that a Cancel call has marked leaves the session's slot.
CancelEnds ==
    \A s \in Sessions, e \in 1 .. MaxCalls :
        (control[s] = e /\ snapshot[s].status = "canceling") ~> control[s] # e

\* A Cancel call never waits for the command it cancels or for any other, and
\* an Execute whose command has ended returns.
ControlReturns ==
    \A c \in Clients : /\ pc[c] = "cancel" ~> pc[c] = "idle"
                       /\ pc[c] = "settle" ~> pc[c] = "idle"

\* The session manager implements the abstract life cycle of a session.
Abstract == INSTANCE SessionLifecycle
            WITH phase  <- life,
                 shown  <- [s \in Sessions |-> snapshot[s].exec],
                 status <- [s \in Sessions |-> snapshot[s].status],
                 issued <- nextExec - 1

Lifecycle == Abstract!Spec
=============================================================================
