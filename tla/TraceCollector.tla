--------------------------- MODULE TraceCollector ---------------------------
(***************************************************************************)
(* What an execution's trace records of the file operations it makes:      *)
(* pkg/engine/trace_collector.go.  The lists of paths have no repetitions  *)
(* and their order is not used, so they are sets; byte counts and the      *)
(* shape of the pipeline are left out.                                     *)
(***************************************************************************)
EXTENDS VirtualFS

EmptyTrace ==
  [requested |-> {}, read |-> {}, written |-> {}, appended |-> {}, edited |-> {},
   created |-> {}, removed |-> {}, denied |-> {}]

\* isDeniedPathError, over the classes of errors.
IsDeniedPathError(err) == IsUnsupported(err) \/ err \in {"denied", "worded"}

\* The root is never recorded.
RecordPaths(t, list, ps) == [t EXCEPT ![list] = @ \cup (ps \ {<<>>})]

RecordPath(t, list, p) == RecordPaths(t, list, {p})

\* The frame of every wrapped call on one path, for paths with the error of each:
\* requested first, then the list of its effect, or the denial.
RecordCalls(t, list, errors) ==
  LET asked == RecordPaths(t, "requested", DOMAIN errors)
      done == {p \in DOMAIN errors : Ok(errors[p])}
      denied == {p \in DOMAIN errors : IsDeniedPathError(errors[p])}
  IN RecordPaths(RecordPaths(asked, list, done), "denied", denied)

RecordCall(t, list, p, err) == RecordCalls(t, list, [q \in {p} |-> err])

\* Checks are made in order, up to the first that fails.
TraceChecks(t, paths, errors) ==
  LET made == {i \in DOMAIN errors : \A j \in 1 .. (i - 1) : Ok(errors[j])}
      denied == {i \in made : IsDeniedPathError(errors[i])}
  IN RecordPaths(RecordPaths(t, "requested", {paths[i] : i \in made}),
                 "denied", {paths[i] : i \in denied})

\* ListChildren, IsDirPath, DescribePath, ReadRawContent, ResolveSearchPaths and
\* CollectFilesUnder.
TraceReads(t, errors) == RecordCalls(t, "read", errors)
TraceRead(t, p, err) == RecordCall(t, "read", p, err)

MutationList(kind) ==
  CASE kind = "write" -> "written"
    [] kind = "append" -> "appended"
    [] kind = "edit" -> "edited"
    [] kind = "mkdir" -> "created"
    [] kind \in {"rm", "rmdir"} -> "removed"

\* WriteFile, AppendFile, EditFile, MakeDir, RemoveFile and RemoveDir.
TraceMutate(t, op, err) == RecordCall(t, MutationList(op.kind), op.path, err)

\* Kinds of operations with their paths, each in the list of its effect.
RecordEffects(t, done) ==
  [list \in DOMAIN t |->
     t[list] \cup ({d[2] : d \in {d \in done : MutationList(d[1]) = list}} \ {<<>>})]

\* Broken: only what the mount has recorded counts as done.
Broken_RecordMutationBatch(t, ops, records) ==
  RecordEffects(t, {<<records[i].kind, records[i].path>> : i \in DOMAIN records})

\* The records of a batch, whatever their status; an operation without a record
\* counts as done, and so does a record nobody asked for.
RecordMutationBatch(t, ops, records) ==
  RecordEffects(t, {<<ops[i].kind, ops[i].path>> : i \in DOMAIN ops}
                   \cup {<<records[i].kind, records[i].path>> : i \in DOMAIN records})

\* ApplyMutations: an error that is no denial leaves no effect in the trace.
TraceBatch(t, ops, result) ==
  LET paths == {ops[i].path : i \in DOMAIN ops}
      asked == RecordPaths(t, "requested", paths)
  IN CASE Ok(result.err) -> RecordMutationBatch(asked, ops, result.records)
       [] IsDeniedPathError(result.err) -> RecordPaths(asked, "denied", paths)
       [] OTHER -> asked

MarkTraceDenied(t, ps) == RecordPaths(RecordPaths(t, "requested", ps), "denied", ps)

Effects(t) == t.written \cup t.appended \cup t.edited \cup t.created \cup t.removed
============================================================================
