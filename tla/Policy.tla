------------------------------- MODULE Policy -------------------------------
(***************************************************************************)
(* The execution policy of simsh and the arithmetic that narrows it:       *)
(* pkg/contract/safety_policy.go, with the places where the engine and the *)
(* filesystem consult a policy.                                            *)
(*                                                                         *)
(* A limit is a Go int.  0 has two readings in the code, and both are      *)
(* kept: in a REQUEST it means "not set, inherit the ceiling's value", in  *)
(* the policy a command runs under it means "no limit".  So does a         *)
(* negative number there, and nothing rejects one in a request.            *)
(***************************************************************************)
EXTENDS Integers

Unset == "unset"    \* the empty WriteMode of a request that names no policy

WriteModes == {"disabled", "read-only", "write-limited", "full"}

\* contract.ExecutionPolicy over the limits in L, with a write mode from M.
PoliciesOver(M, L) ==
    [mode             : M,
     maxWriteBytes    : L,
     maxPipelineDepth : L,
     maxOutputBytes   : L,
     timeout          : L]

Policies == PoliciesOver(WriteModes, Int)
Requests == PoliciesOver(WriteModes \cup {Unset}, Int)

\* The requests that do not use a negative number for a limit.
NonNegativeRequests == PoliciesOver(WriteModes \cup {Unset}, Nat)

\* The timeout is in seconds.
DefaultPolicy ==
    [mode             |-> "read-only",
     maxWriteBytes    |-> 1048576,
     maxPipelineDepth |-> 16,
     maxOutputBytes   |-> 4194304,
     timeout          |-> 15]

\* The request a caller sends when it asks for no policy at all.
NoRequest ==
    [mode |-> Unset, maxWriteBytes |-> 0, maxPipelineDepth |-> 0,
     maxOutputBytes |-> 0, timeout |-> 0]

PolicyPreset(name) == [DefaultPolicy EXCEPT !.mode = name]

-----------------------------------------------------------------------------
writeModeRank(mode) ==
    CASE mode = "disabled"      -> 0
      [] mode = "read-only"     -> 1
      [] mode = "write-limited" -> 2
      [] mode = "full"          -> 3
      [] OTHER                  -> 1

InheritLimit(requested, limit) == IF requested = 0 THEN limit ELSE requested

\* Broken: a request that sets no timeout runs without one.
Broken_WithInheritedUnset(p, limit) ==
    [mode             |-> IF p.mode = Unset THEN limit.mode ELSE p.mode,
     maxWriteBytes    |-> InheritLimit(p.maxWriteBytes, limit.maxWriteBytes),
     maxPipelineDepth |-> InheritLimit(p.maxPipelineDepth, limit.maxPipelineDepth),
     maxOutputBytes   |-> InheritLimit(p.maxOutputBytes, limit.maxOutputBytes),
     timeout          |-> p.timeout]

WithInheritedUnset(p, limit) ==
    [mode             |-> IF p.mode = Unset THEN limit.mode ELSE p.mode,
     maxWriteBytes    |-> InheritLimit(p.maxWriteBytes, limit.maxWriteBytes),
     maxPipelineDepth |-> InheritLimit(p.maxPipelineDepth, limit.maxPipelineDepth),
     maxOutputBytes   |-> InheritLimit(p.maxOutputBytes, limit.maxOutputBytes),
     timeout          |-> InheritLimit(p.timeout, limit.timeout)]

\* A limit of the request exceeds a limit the ceiling really sets.
LimitExceeded(requested, ceiling) == ceiling > 0 /\ requested > ceiling

PolicyWithinCeiling(requested, ceiling) ==
    /\ writeModeRank(requested.mode) <= writeModeRank(ceiling.mode)
    /\ ~ /\ ceiling.mode = "write-limited"
         /\ requested.mode = "write-limited"
         /\ LimitExceeded(requested.maxWriteBytes, ceiling.maxWriteBytes)
    /\ ~ LimitExceeded(requested.maxPipelineDepth, ceiling.maxPipelineDepth)
    /\ ~ LimitExceeded(requested.maxOutputBytes, ceiling.maxOutputBytes)
    /\ ~ LimitExceeded(requested.timeout, ceiling.timeout)

\* EffectivePolicyWithinCeiling returns an error unless Admitted, and then the
\* policy EffectivePolicy.
CeilingInForce(ceiling) == IF ceiling.mode = Unset THEN DefaultPolicy ELSE ceiling

EffectivePolicy(requested, ceiling) ==
    WithInheritedUnset(requested, CeilingInForce(ceiling))

Admitted(requested, ceiling) ==
    PolicyWithinCeiling(EffectivePolicy(requested, ceiling), CeilingInForce(ceiling))
-----------------------------------------------------------------------------
(***************************************************************************)
(* What a policy lets a command do: one operator per place that asks.      *)
(***************************************************************************)
AllowWrite(p) == p.mode \in {"full", "write-limited"}

CheckWriteSize(p, bytes) ==
    /\ AllowWrite(p)
    /\ ~ (p.mode = "write-limited" /\ LimitExceeded(bytes, p.maxWriteBytes))

PipelineAllowed(p, depth) == ~ LimitExceeded(depth, p.maxPipelineDepth)

\* Output longer than this is truncated.
OutputAllowed(p, bytes) == ~ LimitExceeded(bytes, p.maxOutputBytes)

\* A command that has run this long is still within its context's deadline.
TimeAllowed(p, seconds) == ~ LimitExceeded(seconds, p.timeout)

\* Everything policy p permits, policy q permits: the meaning of "the same or
\* a narrower policy", stated over what the engine consults and not over the
\* fields PolicyWithinCeiling compares.  n ranges over the sizes in N.
NoWider(p, q, N) ==
    \A n \in N : /\ CheckWriteSize(p, n)  => CheckWriteSize(q, n)
                 /\ PipelineAllowed(p, n) => PipelineAllowed(q, n)
                 /\ OutputAllowed(p, n)   => OutputAllowed(q, n)
                 /\ TimeAllowed(p, n)     => TimeAllowed(q, n)
=============================================================================
