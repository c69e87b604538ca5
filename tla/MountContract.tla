--------------------------- MODULE MountContract ---------------------------
(***************************************************************************)
(* What a virtual mount declares and what the engine refuses on its        *)
(* behalf: pkg/contract/mount_contract.go and mount_dispatch.go.           *)
(*                                                                         *)
(* A path is the sequence of its names, the root is <<>>.  An error is its *)
(* class, which is all its callers look at:                                *)
(*   "ok"           no error                                               *)
(*   "unsupported"  wraps ErrUnsupported and permits a fallback            *)
(*   "remote"       ErrUnsupported of a remote_high_latency mount          *)
(*   "denied"       a message of the code that the trace reads as a denial *)
(*   "worded"       a message of the host or of a mount that reads as one  *)
(*   "missing"      a message that says "no such file" or "not found"      *)
(*   "plain"        any other message                                      *)
(***************************************************************************)
EXTENDS Naturals, Sequences, SequencesExt, FiniteSetsExt

Ok(err) == err = "ok"

\* The first error of a sequence of checks made in order.
FirstError(checks) ==
  IF \A i \in DOMAIN checks : Ok(checks[i]) THEN "ok"
  ELSE checks[CHOOSE i \in DOMAIN checks :
                /\ ~Ok(checks[i])
                /\ \A j \in 1 .. (i - 1) : Ok(checks[j])]

Under(p, q) == Len(p) <= Len(q) /\ SubSeq(q, 1, Len(p)) = p
Below(p, q) == Len(p) < Len(q) /\ Under(p, q)

AllowsUnsupportedFallback(err) == err = "unsupported"
IsUnsupported(err) == err \in {"unsupported", "remote"}

\* Access of a path and what may be done with it (path_access.go); "" is an
\* access that is not stated.
WriteCapabilities == {"write", "append", "edit", "mkdir", "remove"}
DirCapabilities == {"describe", "list", "search"}
FileCapabilities == {"describe", "read"}
DefaultCapabilities(dir) == IF dir THEN DirCapabilities ELSE FileCapabilities

NormalizePathAccess(access) == IF access = "rw" THEN "rw" ELSE "ro"

NormalizePathCapabilities(caps) == IF caps = {} THEN {"describe"} ELSE caps

StripWriteCapabilities(caps) == NormalizePathCapabilities(caps \ WriteCapabilities)

Truths == {"projection", "factual"}
WriteSemantics == {"read_only", "staged_write", "write_through", "write_back"}
Latencies == {"local_fast", "local_heavy", "remote_moderate", "remote_high_latency"}
CLIClasses == {"list", "find", "read", "bulk_read", "content_search", "mutate"}
Capabilities == {"EntryLister", "PathEnumerator", "BulkReader", "ContentSearcher",
                 "Mutator", "Refresher"}

\* The profile of a mount after NormalizeMountProfile, with its mount point and
\* the capability interfaces its type implements.  Of the consistency flags only
\* their disjunction is used; a budget of 0 is no budget.  Its entries all state
\* the same access.
MountProfiles(points, budgets) ==
  [point : points, truth : Truths, write : WriteSemantics, latency : Latencies,
   consistent : BOOLEAN, access : {"", "ro", "rw"}, classes : SUBSET CLIClasses, caps : SUBSET Capabilities,
   maxCount : budgets, maxBytes : budgets, maxPaths : budgets, maxTargets : budgets]

MountSupportsCLIClass(m, class) == class \in m.classes
MountAllowsFallback(m) == m.latency \in {"local_fast", "local_heavy"}
Implements(m, capability) == capability \in m.caps

\* The error of a missing capability, a missing class and an exceeded budget.
MountUnsupported(m) ==
  IF m.latency = "remote_high_latency" THEN "remote" ELSE "unsupported"

RequireMountCLIClass(m, class) ==
  IF MountSupportsCLIClass(m, class) THEN "ok" ELSE MountUnsupported(m)

Exceeds(n, budget) == budget > 0 /\ n > budget
WithinBudget(m, n, budget) == IF Exceeds(n, budget) THEN MountUnsupported(m) ELSE "ok"

CheckMountSearchBudget(m, targets) == WithinBudget(m, Len(targets), m.maxPaths)
CheckMountReadManyBudget(m, paths) == WithinBudget(m, Len(paths), m.maxCount)

\* The size of a batch: what its operations write and the strings of an edit; a
\* directory that is made and a removal bring none.
SizeWith(size, op) ==
  IF op.kind \in {"mkdir", "rm", "rmdir"} THEN size
  ELSE size + Len(op.content) + Len(op.old)

BatchSize(ops) ==
  LET size[i \in 0 .. Len(ops)] == IF i = 0 THEN 0 ELSE SizeWith(size[i - 1], ops[i])
  IN size[Len(ops)]

CheckMountMutationBudget(m, ops) ==
  FirstError(<<WithinBudget(m, Len(ops), m.maxCount),
               WithinBudget(m, BatchSize(ops), m.maxBytes)>>)

\* Broken: a mount that takes no writes is asked for them all the same.
Broken_WritableError(m) == "ok"

WritableError(m) ==
  IF m.write = "read_only" \/ ~m.consistent THEN "unsupported" ELSE "ok"

CheckMountPathOp(m, op) ==
  CASE op = "read" -> RequireMountCLIClass(m, "read")
    [] op = "transfer_source" ->
         FirstError(<<RequireMountCLIClass(m, "read"),
                      IF m.truth = "projection" THEN "unsupported" ELSE "ok">>)
    [] op \in {"write", "mkdir", "remove"} ->
         FirstError(<<RequireMountCLIClass(m, "mutate"), WritableError(m)>>)

\* What ApplyMountMutations refuses before it calls the mount.
MountMutationError(m, ops) ==
  FirstError(<<CheckMountMutationBudget(m, ops), RequireMountCLIClass(m, "mutate"),
               WritableError(m),
               IF Implements(m, "Mutator") THEN "ok" ELSE MountUnsupported(m)>>)

----------------------------------------------------------------------------
\* Refresh: a request is narrow when every target lies strictly below the mount.

IsNarrowRefreshTarget(m, target) == Below(m.point, target)

MustBeNarrow(m, narrow) == narrow \/ m.latency = "remote_high_latency"

NarrowError(m, targets, narrow) ==
  IF MustBeNarrow(m, narrow)
       /\ (targets = {} \/ \E t \in targets : ~IsNarrowRefreshTarget(m, t))
  THEN MountUnsupported(m) ELSE "ok"

CheckMountRefreshBudget(m, targets, narrow) ==
  FirstError(<<NarrowError(m, targets, narrow),
               WithinBudget(m, Cardinality(targets), m.maxTargets)>>)

IsWithinRefreshRequestScope(target, requested) ==
  \E r \in requested : Under(r, target)

ScopedRefreshResult(m, targets, requested) ==
  \A t \in targets : /\ IsNarrowRefreshTarget(m, t)
                     /\ IsWithinRefreshRequestScope(t, requested)

\* A refresher reports the targets that took effect, those it has refreshed and those
\* it refused.  The effective ones are the requested ones when it names none.
EffectiveTargets(targets, result) ==
  IF result.effective = {} THEN targets ELSE result.effective

\* Broken: the refreshed targets are not looked at.
Broken_RefreshResultError(m, targets, narrow, result) ==
  IF MustBeNarrow(m, narrow)
       /\ \E reported \in {EffectiveTargets(targets, result), result.refused} :
            ~ScopedRefreshResult(m, reported, targets)
  THEN MountUnsupported(m) ELSE "ok"

\* A narrow request must not have been broadened, which is only seen afterwards.
RefreshResultError(m, targets, narrow, result) ==
  IF MustBeNarrow(m, narrow)
       /\ \E reported \in {EffectiveTargets(targets, result), result.refreshed, result.refused} :
            ~ScopedRefreshResult(m, reported, targets)
  THEN MountUnsupported(m) ELSE "ok"

RefreshMountRefused(m, targets, narrow) ==
  FirstError(<<CheckMountRefreshBudget(m, targets, narrow),
               IF Implements(m, "Refresher") THEN "ok" ELSE MountUnsupported(m)>>)
============================================================================
