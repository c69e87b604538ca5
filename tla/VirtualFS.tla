----------------------------- MODULE VirtualFS -----------------------------
(***************************************************************************)
(* One virtual tree out of a host file system and its mounts: the router   *)
(* and the bridge of pkg/engine (virtualfs_router.go, virtualfs_bridge.go, *)
(* virtualfs_mutation_helpers.go).                                         *)
(*                                                                         *)
(* A world is what the calls read and change: the host tree, the data of   *)
(* every mount, the mounts that exist now, the adapter below the router    *)
(* and whether the policy allows writes.  Calls that change something      *)
(* return the set of their possible results, [err, world, records]: a host *)
(* call may fail, and what a mount answers is its own affair.              *)
(***************************************************************************)
EXTENDS HostZones

CONSTANT Mounts    \* the mounts, records of MountProfiles

\* What newMountRouter accepts.
NewMountRouter(mounts) ==
  /\ \A m \in mounts : m.point # <<>>
  /\ \A m, n \in mounts : m.point = n.point => m = n

ASSUME MountsAssumption == NewMountRouter(Mounts)

Adapters == {"agentfs", "localfs"}
Kinds == {"write", "append", "edit", "mkdir", "rm", "rmdir"}
Specs(paths, texts) ==
  [kind : Kinds, path : paths, content : texts, old : texts, all : BOOLEAN]
Faults == {"none", "fails", "torn"}

Failed(w, err) == [err |-> err, world |-> w, records |-> <<>>]

----------------------------------------------------------------------------
\* The router.

Deepest(mounts) == {m \in mounts : \A n \in mounts : Len(n.point) <= Len(m.point)}
Match(p) == Deepest({m \in Mounts : Under(m.point, p)})
IsMounted(p) == \E m \in Mounts : Under(m.point, p)
MountOf(p) == CHOOSE m \in Match(p) : TRUE

ActiveMounts(w) == {m \in Mounts : m.point \in w.active}
IsActive(w, p) == \E m \in Match(p) : m.point \in w.active

IsSyntheticPrefix(p) == p # <<>> /\ \E m \in Mounts : Below(p, m.point)

IsSyntheticDir(w, p) ==
  /\ p # <<>>
  /\ \A m \in ActiveMounts(w) : m.point # p
  /\ \E m \in ActiveMounts(w) : Below(p, m.point)

\* Broken: a mount further down does not show as the directory towards it.
Broken_SyntheticChildren(w, p) ==
  {m.point : m \in {m \in ActiveMounts(w) : Below(p, m.point) /\ Len(m.point) = Len(p) + 1}}

SyntheticChildren(w, p) ==
  {SubSeq(m.point, 1, Len(p) + 1) : m \in {m \in ActiveMounts(w) : Below(p, m.point)}}

\* The tree a mount holds, a function like a host tree without links.
Tree(w, m) == w.data[m.point]
MountKind(w, p) == Kind(Tree(w, MountOf(p)), p)

\* Answer of an active mount or of a synthetic directory; "none" is a path that
\* the mount does not have and "fs" one that is not the router's.
StatEntry(w, p) ==
  CASE IsActive(w, p) -> MountKind(w, p)
    [] ~IsActive(w, p) /\ IsSyntheticDir(w, p) -> "dir"
    [] OTHER -> "fs"

\* What a mount's lister and enumerator return.
MountEntries(w, m, p, recursive) ==
  {q \in DOMAIN Tree(w, m) : Below(p, q) /\ (recursive \/ Len(q) = Len(p) + 1)}
MountFiles(w, m, p, recursive) ==
  {q \in MountEntries(w, m, p, recursive) : Kind(Tree(w, m), q) = "file"}

\* A request without a depth: only the class and the interface may be missing.
ListMount(w, m, p) ==
  LET err == FirstError(<<Ensure(MountSupportsCLIClass(m, "list"), "plain"),
                          Ensure(Implements(m, "EntryLister"),
                                 IF m.latency = "remote_high_latency" THEN "remote" ELSE "plain"),
                          Ensure(Kind(Tree(w, m), p) = "dir", "missing")>>)
  IN IF Ok(err) THEN Answer(MountEntries(w, m, p, FALSE)) ELSE NoAnswer(err)

\* The files a mount answers with, unless there is an error.
FilesIf(err, w, m, p, recursive) ==
  CASE ~Ok(err) -> NoAnswer(err)
    [] Ok(err) /\ Kind(Tree(w, m), p) = "file" -> Answer({p})
    [] OTHER -> Answer(MountFiles(w, m, p, recursive))

EnumerateMount(w, m, p, recursive) ==
  FilesIf(FirstError(<<Ensure(MountSupportsCLIClass(m, "find"), "plain"),
                       Ensure(Implements(m, "PathEnumerator") \/ m.latency # "remote_high_latency",
                              "remote"),
                       Ensure({"PathEnumerator", "EntryLister"} \cap m.caps # {}, "plain"),
                       Ensure(Kind(Tree(w, m), p) # "none", "missing")>>),
          w, m, p, recursive)

\* EnumerateMountFiles: what a synthetic directory asks each mount below it.
EnumerateMountFiles(w, m, p) ==
  LET enumerates == \/ Kind(Tree(w, m), p) = "file" \/ Implements(m, "PathEnumerator")
                    \/ MountAllowsFallback(m) /\ Implements(m, "EntryLister")
  IN FilesIf(FirstError(<<Ensure(Kind(Tree(w, m), p) # "none", "missing"),
                          Ensure(MountSupportsCLIClass(m, "find"), MountUnsupported(m)),
                          Ensure(enumerates, MountUnsupported(m))>>), w, m, p, TRUE)

\* Paths of which one has no entry fail the call they are an answer of: a mount may
\* tell of paths that lie in another one, which is away or does not have them.
WithEntries(w, answer) ==
  IF \E p \in answer.paths : StatEntry(w, p) \in {"none", "fs"} THEN NoAnswer("missing")
  ELSE answer

CollectFilesForSyntheticDir(w, p) ==
  WithEntries(w, Union({EnumerateMountFiles(w, m, m.point) :
                          m \in {m \in ActiveMounts(w) : Below(p, m.point)}}))

ListEntries(w, p) ==
  IF IsActive(w, p) THEN ListMount(w, MountOf(p), p)
  ELSE WithEntries(w, Answer(SyntheticChildren(w, p)))

EnumeratePaths(w, p, recursive) ==
  CASE IsActive(w, p) -> EnumerateMount(w, MountOf(p), p, recursive)
    [] ~IsActive(w, p) /\ ~recursive -> NoAnswer("plain")
    [] OTHER -> CollectFilesForSyntheticDir(w, p)

RouterAnswers(w, p) == IsActive(w, p) \/ IsSyntheticDir(w, p)

----------------------------------------------------------------------------
\* The file system below the router.

OnAgent(w) == w.adapter = "agentfs"

FsRead(w, p) == IF OnAgent(w) THEN ZoneRead(w.host, p) ELSE LocalRead(w.host, p)
FsIsDir(w, p) == IF OnAgent(w) THEN ZoneIsDir(w.host, p) ELSE LocalIsDir(w.host, p)
FsList(w, p) == IF OnAgent(w) THEN ZoneList(w.host, p) ELSE LocalList(w.host, p)
FsCollect(w, p) ==
  IF OnAgent(w) THEN ZoneCollect(w.host, p) ELSE LocalCollect(w.host, p)
FsSearch(w, p, recursive) ==
  IF OnAgent(w) THEN ZoneSearch(w.host, p, recursive)
  ELSE LocalSearch(w.host, p, recursive)
FsRequire(w, p) ==
  IF OnAgent(w) THEN ZoneRequire(w.host, p) ELSE LocalRequire(w.host, p)
FsCheckPathOp(w, op, p) ==
  IF OnAgent(w) THEN ZoneCheckPathOp(w.host, op, p)
  ELSE LocalCheckPathOp(w.host, op, p, w.allowWrite)

AgentApply(h, op, torn) ==
  CASE op.kind = "write" -> ZoneWrite(h, op.path, op.content, torn)
    [] op.kind = "append" -> ZoneAppend(h, op.path, op.content, torn)
    [] op.kind = "edit" -> ZoneEdit(h, op.path, op.old, op.content, op.all, torn)
    [] op.kind = "mkdir" -> ZoneMakeDir(h, op.path)
    [] op.kind = "rm" -> ZoneRemoveFile(h, op.path)
    [] op.kind = "rmdir" -> Refused(h, "unsupported")

LocalApply(h, op, may, torn) ==
  CASE op.kind = "write" -> LocalWrite(h, op.path, op.content, may, torn)
    [] op.kind = "append" -> LocalAppend(h, op.path, op.content, may, torn)
    [] op.kind = "edit" -> LocalEdit(h, op.path, op.old, op.content, op.all, may, torn)
    [] op.kind = "mkdir" -> LocalMakeDir(h, op.path, may)
    [] op.kind = "rm" -> LocalRemoveFile(h, op.path, may)
    [] op.kind = "rmdir" -> LocalRemoveDir(h, op.path, may)

WithHost(w, result) ==
  [err |-> result.err, world |-> [w EXCEPT !.host = result.host], records |-> <<>>]

\* One call of the file system; it may fail before it does anything.
FsApply(w, op, fault) ==
  IF fault = "fails" THEN Failed(w, "plain")
  ELSE WithHost(w, IF OnAgent(w) THEN AgentApply(w.host, op, fault = "torn")
                   ELSE LocalApply(w.host, op, w.allowWrite, fault = "torn"))

\* Its error is the host's own, and its words, or those of the path in it, may read
\* as a denial: "permission denied", "read-only file system".
Worded(result) ==
  {result} \cup IF result.err = "plain" THEN {[result EXCEPT !.err = "worded"]} ELSE {}

FsResults(w, op, fault) == Worded(FsApply(w, op, fault))

----------------------------------------------------------------------------
\* The bridge: calls that read.

RequireAbsolutePath(w, p) ==
  IF IsMounted(p) \/ IsSyntheticPrefix(p) THEN "ok" ELSE FsRequire(w, p)

ReadRawContent(w, p) ==
  CASE ~IsActive(w, p) -> FsRead(w, p)
    [] IsActive(w, p) /\ MountKind(w, p) = "file" ->
         [err |-> "ok", text |-> Tree(w, MountOf(p))[p].text]
    [] OTHER -> [err |-> "missing", text |-> <<>>]

IsDirOf(w, p, kind) ==
  CASE kind = "none" -> [err |-> "missing", dir |-> FALSE]
    [] kind = "fs" -> FsIsDir(w, p)
    [] OTHER -> [err |-> "ok", dir |-> kind = "dir"]

IsDirPath(w, p) == IsDirOf(w, p, StatEntry(w, p))

\* The children of the file system and the first names of mounts below it.
WithSynthetic(listed, synthetic) ==
  IF Ok(listed.err) \/ synthetic # {} THEN Answer(listed.paths \cup synthetic) ELSE listed

ListChildren(w, p) ==
  IF RouterAnswers(w, p) THEN ListEntries(w, p)
  ELSE WithSynthetic(FsList(w, p), SyntheticChildren(w, p))

CollectFilesUnder(w, p) ==
  IF RouterAnswers(w, p) THEN EnumeratePaths(w, p, TRUE) ELSE FsCollect(w, p)

ResolveSearchPaths(w, p, recursive) ==
  IF RouterAnswers(w, p) THEN EnumeratePaths(w, p, recursive)
  ELSE FsSearch(w, p, recursive)

\* What a mount's entry, a synthetic directory or the file system says of a path.
MountMeta(kind, access) ==
  [err |-> Ensure(kind # "none", "missing"), dir |-> kind = "dir", access |-> access,
   caps |-> CASE access = "" -> {}
              [] access = "ro" -> DefaultCapabilities(kind = "dir")
              [] access = "rw" -> DefaultCapabilities(kind = "dir") \cup {"write"}]

EntryMeta(w, p) ==
  CASE IsActive(w, p) -> MountMeta(MountKind(w, p), MountOf(p).access)
    [] ~IsActive(w, p) /\ IsSyntheticDir(w, p) ->
         [err |-> "ok", dir |-> TRUE, access |-> "ro", caps |-> DirCapabilities]
    [] OTHER -> IF OnAgent(w) THEN ZoneDescribe(w.host, p) ELSE LocalDescribe(w.host, p)

\* An access that is not stated is what the policy allows.
DefaultAccess(access, allowWrite) ==
  IF access = "" THEN (IF allowWrite THEN "rw" ELSE "ro") ELSE NormalizePathAccess(access)

WithPathAccessPolicy(w, meta) ==
  LET access == DefaultAccess(meta.access, w.allowWrite)
      caps == NormalizePathCapabilities(meta.caps)
  IN IF w.allowWrite /\ access = "rw" THEN [meta EXCEPT !.access = access, !.caps = caps]
     ELSE [meta EXCEPT !.access = "ro", !.caps = StripWriteCapabilities(caps)]

DescribePath(w, p) == WithPathAccessPolicy(w, EntryMeta(w, p))

CheckPathOp(w, op, p) ==
  LET reads == op \in {"read", "transfer_source"}
  IN CASE reads /\ IsActive(w, p) ->
            (CASE MountKind(w, p) = "file" ->
                    FirstError(<<Ensure("read" \in MountMeta("file", MountOf(p).access).caps,
                                        "unsupported"),
                                 CheckMountPathOp(MountOf(p), op)>>)
               [] MountKind(w, p) = "dir" -> "unsupported"
               [] OTHER -> "missing")
       [] ~reads /\ IsSyntheticPrefix(p) -> "unsupported"
       [] ~reads /\ ~IsSyntheticPrefix(p) /\ IsMounted(p) -> CheckMountPathOp(MountOf(p), op)
       [] OTHER -> FsCheckPathOp(w, op, p)

\* What ReadManyFromMountRequest refuses before it reads.
ReadManyRefused(m, paths) ==
  FirstError(<<CheckMountReadManyBudget(m, paths),
               RequireMountCLIClass(m, IF Len(paths) > 1 THEN "bulk_read" ELSE "read"),
               Ensure(Implements(m, "BulkReader") \/ MountAllowsFallback(m), MountUnsupported(m))>>)

\* ReadMany keeps the order and the repetitions of the request; the mounts are
\* asked in one call each, and any failure fails the whole.
ReadMany(w, paths) ==
  LET mounted == {p \in Range(paths) : IsActive(w, p)}
      asked(m) == SelectSeq(paths, LAMBDA p : IsActive(w, p) /\ MountOf(p) = m)
      refusals == {ReadManyRefused(m, asked(m)) : m \in {MountOf(p) : p \in mounted}} \ {"ok"}
      errors == {ReadRawContent(w, p).err : p \in Range(paths)} \ {"ok"}
  IN CASE errors # {} -> [err |-> CHOOSE e \in errors : TRUE, texts |-> <<>>]
       [] errors = {} /\ refusals # {} -> [err |-> CHOOSE e \in refusals : TRUE, texts |-> <<>>]
       [] OTHER -> [err |-> "ok",
                    texts |-> [i \in DOMAIN paths |-> ReadRawContent(w, paths[i]).text]]

\* The files a mount searches: its own searcher knows them, and without one they are
\* enumerated and then read.
SearchedFiles(w, m, p) ==
  IF Implements(m, "ContentSearcher")
  THEN FilesIf(Ensure(Kind(Tree(w, m), p) # "none", "missing"), w, m, p, TRUE)
  ELSE EnumerateMountFiles(w, m, p)

SearchMountContent(w, m, targets, letter) ==
  LET files == Union({SearchedFiles(w, m, p) : p \in Range(targets)})
      searches == Implements(m, "ContentSearcher")
      err == FirstError(<<CheckMountSearchBudget(m, targets),
                          RequireMountCLIClass(m, "content_search"),
                          Ensure(searches \/ MountAllowsFallback(m), MountUnsupported(m)), files.err,
                          IF searches THEN "ok" ELSE ReadManyRefused(m, SetToSeq(files.paths))>>)
      holds(p) == letter \in Range(Tree(w, m)[p].text)
  IN IF Ok(err) THEN Answer({p \in files.paths : holds(p)}) ELSE NoAnswer(err)

\* Files of one mount whose text holds a letter; one mount answers a search, and
\* nobody answers one over the file system.
SearchContent(w, targets, letter) ==
  LET mounted == {p \in Range(targets) : IsActive(w, p)}
      mounts == {MountOf(p) : p \in mounted}
      split == \/ Cardinality(mounts) > 1
               \/ \E p \in Range(targets) \ mounted : IsSyntheticDir(w, p)
               \/ mounted # {} /\ Range(targets) # mounted
  IN CASE split -> NoAnswer("denied")
       [] ~split /\ mounts = {} -> NoAnswer("unsupported")
       [] OTHER -> SearchMountContent(w, CHOOSE m \in mounts : TRUE, targets, letter)

----------------------------------------------------------------------------
\* The bridge: calls that change something.

MutationSpecPathOp(kind) ==
  CASE kind \in {"write", "append", "edit"} -> "write"
    [] kind = "mkdir" -> "mkdir"
    [] kind \in {"rm", "rmdir"} -> "remove"

Record(op, status) == [kind |-> op.kind, path |-> op.path, status |-> status]
Records(ops) == [i \in DOMAIN ops |-> Record(ops[i], "ok")]

\* The effect of one operation on the tree of a mount, or the error of a mount
\* that does not have what it names.
MountEffect(tree, op) ==
  CASE op.kind = "write" -> WriteAt(tree, op.path, op.content, 0, FALSE)
    [] op.kind = "append" -> AppendAt(tree, op.path, op.content, 0, FALSE)
    [] op.kind = "edit" -> EditAt(tree, op.path, op.old, op.content, op.all, 0, FALSE)
    [] op.kind = "mkdir" -> MkdirAll(tree, op.path)
    [] op.kind = "rm" -> RemoveFileAt(tree, op.path)
    [] op.kind = "rmdir" -> Rmdir(tree, op.path)

\* A mutator applies a batch whole or not at all.  The records of one it applied
\* are complete, in any order, none, short of one or one too many.
MutatorAnswers(ops) ==
  {<<>>, Records(ops), Reverse(Records(ops)), Tail(Records(ops)),
   Append(Records(ops), Record(ops[1], "conflict"))}

\* A batch it did not apply it answers with an error or with a conflict.
MutatorResults(w, m, ops, result) ==
  LET conflict == [Records(ops) EXCEPT ![1].status = "conflict"]
  IN Worded(Failed(w, "plain")) \cup {[err |-> "ok", world |-> w, records |-> conflict]} \cup
     IF Ok(result.err)
     THEN {[err |-> "ok", world |-> [w EXCEPT !.data[m.point] = result.host],
            records |-> records] : records \in MutatorAnswers(ops)}
     ELSE {Failed(w, result.err)}

\* The tree after the operations, or after those before the first that fails.
Then(before, op) == Guarded(before.err, before.host, MountEffect(before.host, op))

Applied(tree, ops) ==
  LET after[i \in 0 .. Len(ops)] ==
        IF i = 0 THEN Done(tree) ELSE Then(after[i - 1], ops[i])
  IN after[Len(ops)]

MutatorApply(w, m, ops) == MutatorResults(w, m, ops, Applied(Tree(w, m), ops))

UnlessRefused(err, w, results) == IF Ok(err) THEN results ELSE {Failed(w, err)}

ApplyMountMutations(w, m, ops) ==
  UnlessRefused(MountMutationError(m, ops), w, MutatorApply(w, m, ops))

\* The checks of every operation, then an empty batch, which exceeds no budget.
ValidateMountedMutationBatch(m, ops) ==
  FirstError(<<FirstError([i \in DOMAIN ops |->
                             CheckMountPathOp(m, MutationSpecPathOp(ops[i].kind))]),
               MountMutationError(m, <<>>)>>)

\* Records in the order of the request: of those with the kind and the path of an
\* operation it gets the one of its rank, and those nobody asked for come last.
SameKey(r, s) == r.kind = s.kind /\ r.path = s.path
RecordsFor(records, op) == SelectSeq(records, LAMBDA r : SameKey(r, op))
Rank(s, i) == Cardinality({j \in 1 .. i : SameKey(s[j], s[i])})

IncompleteRecords(ops, records) ==
  \E i \in DOMAIN ops : Len(RecordsFor(records, ops[i])) < Rank(ops, i)
Leftover(ops, records) ==
  {i \in DOMAIN records : Rank(records, i) > Len(RecordsFor(ops, records[i]))}

OrderedRecords(ops, records) ==
  LET rest == SetToSeq(Leftover(ops, records))
  IN [i \in DOMAIN ops |-> RecordsFor(records, ops[i])[Rank(ops, i)]]
     \o [i \in DOMAIN rest |-> records[rest[i]]]

ReorderMutationRecords(ops, result) ==
  CASE ~Ok(result.err) \/ result.records = <<>> -> result
    [] Ok(result.err) /\ result.records # <<>> /\ IncompleteRecords(ops, result.records) ->
         Failed(result.world, "plain")
    [] OTHER -> [result EXCEPT !.records = OrderedRecords(ops, result.records)]

\* Broken: a batch over two mounts permits the calls one by one.
Broken_BatchError(ops) ==
  LET mounts == UNION {Match(ops[i].path) : i \in DOMAIN ops}
  IN CASE Cardinality(mounts) > 1 -> "unsupported"
       [] mounts = {} -> "ok"
       [] OTHER -> ValidateMountedMutationBatch(CHOOSE m \in mounts : TRUE, ops)

\* An operation on a directory towards a mount, and one of another mount than those
\* before it, in the order of the batch.
SortingError(ops, i) ==
  LET crosses(j) == /\ IsMounted(ops[j].path) /\ IsMounted(ops[i].path)
                    /\ MountOf(ops[j].path) # MountOf(ops[i].path)
  IN IF IsSyntheticPrefix(ops[i].path) THEN "unsupported"
     ELSE Ensure(\A j \in 1 .. (i - 1) : ~crosses(j), "denied")

\* What ApplyMutations refuses before it changes anything.
BatchError(ops) ==
  LET mounted == {i \in DOMAIN ops : IsMounted(ops[i].path)}
  IN FirstError(<<FirstError([i \in DOMAIN ops |-> SortingError(ops, i)]),
                  IF mounted = DOMAIN ops
                  THEN ValidateMountedMutationBatch(MountOf(ops[1].path), ops)
                  ELSE Ensure(mounted = {}, "denied")>>)

\* A batch of a mount is one call of it.
MountBatch(w, ops) ==
  UnlessRefused(BatchError(ops), w,
                {ReorderMutationRecords(ops, result) :
                   result \in ApplyMountMutations(w, MountOf(ops[1].path), ops)})

\* WriteFile, AppendFile, EditFile, MakeDir, RemoveFile and RemoveDir: a path of
\* a mount, active or not, goes there as a batch of one.
Mutate(w, op, fault) ==
  CASE IsSyntheticPrefix(op.path) -> {Failed(w, "unsupported")}
    [] ~IsSyntheticPrefix(op.path) /\ IsMounted(op.path) -> MountBatch(w, <<op>>)
    [] OTHER -> FsResults(w, op, fault)
============================================================================
