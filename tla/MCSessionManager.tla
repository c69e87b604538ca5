-------------------------- MODULE MCSessionManager --------------------------
(***************************************************************************)
(* Small instances of SessionManager for TLC.                              *)
(***************************************************************************)
EXTENDS SessionManager, TLC

\* A session ceiling, and requests for it: nothing, something narrower.
Limited(bytes, seconds) ==
    [mode |-> "write-limited", maxWriteBytes |-> bytes, maxPipelineDepth |-> 0,
     maxOutputBytes |-> 0, timeout |-> seconds]

MCCeilings == {Limited(2, 2)}
NarrowAsk == [NoRequest EXCEPT !.mode = "read-only", !.timeout = 1]
MCAsks == {NoRequest, NarrowAsk}

ClientSymmetry == Permutations(Clients)
=============================================================================
