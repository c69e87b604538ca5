-------------------------- MODULE SessionLifecycle --------------------------
(***************************************************************************)
(* What a session promises to those who watch it with Get: an abstract     *)
(* specification of the session snapshot, without locks, goroutines,       *)
(* runtimes or adapters.                                                   *)
(*                                                                         *)
(*   - a session is created once; then it is open or closed;               *)
(*   - an open session shows at most one execution.  Each execution enters *)
(*     the slot once, running, may become canceling, and leaves for good;  *)
(*   - a session is closed only while no execution is shown, and nothing   *)
(*     is shown while it is closed.                                        *)
(*                                                                         *)
(* SessionManager implements it (SessionManager!Lifecycle).                *)
(***************************************************************************)
EXTENDS Naturals

CONSTANT Sessions

VARIABLES
    phase,     \* per session: "absent", "open", "closed"
    shown,     \* per session: the execution shown as active, 0 if none
    status,    \* per session: "none", "running", "canceling"
    issued     \* how many executions have been shown: they are numbered from 1

vars == <<phase, shown, status, issued>>

Init ==
    /\ phase = [s \in Sessions |-> "absent"]
    /\ shown = [s \in Sessions |-> 0]
    /\ status = [s \in Sessions |-> "none"]
    /\ issued = 0

Appear(s) ==
    /\ phase[s] = "absent"
    /\ phase' = [phase EXCEPT ![s] = "open"]
    /\ UNCHANGED <<shown, status, issued>>

Begin(s) ==
    /\ phase[s] = "open" /\ shown[s] = 0
    /\ shown' = [shown EXCEPT ![s] = issued + 1]
    /\ status' = [status EXCEPT ![s] = "running"]
    /\ issued' = issued + 1
    /\ UNCHANGED phase

AskToStop(s) ==
    /\ phase[s] = "open" /\ status[s] = "running"
    /\ status' = [status EXCEPT ![s] = "canceling"]
    /\ UNCHANGED <<phase, shown, issued>>

Leave(s) ==
    /\ phase[s] = "open" /\ shown[s] # 0
    /\ shown' = [shown EXCEPT ![s] = 0]
    /\ status' = [status EXCEPT ![s] = "none"]
    /\ UNCHANGED <<phase, issued>>

Shut(s) ==
    /\ phase[s] = "open" /\ shown[s] = 0
    /\ phase' = [phase EXCEPT ![s] = "closed"]
    /\ UNCHANGED <<shown, status, issued>>

Reopen(s) ==
    /\ phase[s] = "closed"
    /\ phase' = [phase EXCEPT ![s] = "open"]
    /\ UNCHANGED <<shown, status, issued>>

Next ==
    \E s \in Sessions :
        \/ Appear(s) \/ Begin(s) \/ AskToStop(s) \/ Leave(s)
        \/ Shut(s) \/ Reopen(s)

Spec == Init /\ [][Next]_vars
=============================================================================
