------------------------------- MODULE Listing -------------------------------
(***************************************************************************)
(* What the three places that show a path say of it: the long rows of ls   *)
(* and its directory entries (pkg/builtin/op_listing.go) and the path      *)
(* metadata of /v1/execute (describePathMeta of pkg/service/httpapi), over *)
(* a world of VirtualFS.                                                   *)
(*                                                                         *)
(* A row is [path, known, dir, access, caps]; the text of a row, its line  *)
(* counts and the formats are left out.                                    *)
(***************************************************************************)
EXTENDS VirtualFS

Row(p, known, meta) ==
  [path |-> p, known |-> known, dir |-> meta.dir, access |-> meta.access, caps |-> meta.caps]

Unknown == [dir |-> FALSE, access |-> "ro", caps |-> {"describe"}]
Undescribed(dir) == [dir |-> dir, access |-> "ro", caps |-> DefaultCapabilities(dir)]

\* The defaults both row builders fill in, and the strip that follows.
Filled(meta, access) ==
  LET caps == IF meta.caps = {} THEN DefaultCapabilities(meta.dir) ELSE meta.caps
  IN [dir |-> meta.dir, access |-> access,
      caps |-> IF access = "ro" THEN StripWriteCapabilities(caps)
               ELSE NormalizePathCapabilities(caps)]

\* A row of a directory's entry: the policy is not looked at.
EntryToLongRow(w, entry) ==
  Row(entry.path, TRUE, Filled(entry.meta, NormalizePathAccess(entry.meta.access)))

\* A row of a target, and of . and .., described for itself.
LongRow(p, meta, allowWrite) ==
  IF Ok(meta.err) THEN Row(p, TRUE, Filled(meta, DefaultAccess(meta.access, allowWrite)))
  ELSE Row(p, FALSE, Unknown)

BuildLongRow(w, p) == LongRow(p, DescribePath(w, p), w.allowWrite)

Entry(err, p, meta) == [err |-> err, path |-> p, meta |-> meta]

\* The entry of a child of the file system, or the error that fails the listing.
EntryOf(p, meta, isDir) ==
  IF IsUnsupported(meta.err)
  THEN Entry("ok", p, IF Ok(isDir.err) THEN Undescribed(isDir.dir) ELSE Unknown)
  ELSE Entry(meta.err, p, meta)

\* Broken: the policy is not asked about a child.
Broken_ChildEntry(w, p) == EntryOf(p, EntryMeta(w, p), IsDirPath(w, p))

ChildEntry(w, p) == EntryOf(p, DescribePath(w, p), IsDirPath(w, p))

AllEntries(err, entries) ==
  IF Ok(err) /\ \A entry \in entries : Ok(entry.err) THEN [err |-> "ok", entries |-> entries]
  ELSE [err |-> IF Ok(err) THEN (CHOOSE entry \in entries : ~Ok(entry.err)).err ELSE err,
        entries |-> {}]

EntriesOf(w, routed, listed) ==
  AllEntries(listed.err,
             {IF routed THEN Entry("ok", p, EntryMeta(w, p)) ELSE ChildEntry(w, p) :
                p \in listed.paths})

\* Entries as the router gives them, or else the children, described one by one.
ListDirectoryEntries(w, dir) == EntriesOf(w, RouterAnswers(w, dir), ListChildren(w, dir))

Parent(p) == IF p = <<>> THEN p ELSE Front(p)

\* The rows of ls -l of one directory; with -a its own and its parent's as well.
RenderLSOutput(w, dir, entries, includeDots) ==
  {EntryToLongRow(w, entry) : entry \in entries} \cup
  (IF includeDots THEN {BuildLongRow(w, dir), BuildLongRow(w, Parent(dir))} ELSE {})

LSTarget(w, p, includeDots, isDir, listed) ==
  CASE ~Ok(isDir.err) -> [err |-> isDir.err, rows |-> {}]
    [] Ok(isDir.err) /\ ~isDir.dir -> [err |-> "ok", rows |-> {BuildLongRow(w, p)}]
    [] OTHER -> [err |-> listed.err,
                 rows |-> IF Ok(listed.err)
                          THEN RenderLSOutput(w, p, listed.entries, includeDots) ELSE {}]

RunLSTarget(w, p, includeDots) ==
  LSTarget(w, p, includeDots, IsDirPath(w, p), ListDirectoryEntries(w, p))

\* What ls -R adds to the directories it has listed: their subdirectories that it
\* has not, until there are none or one cannot be listed.
SubDirs(w, dir) ==
  {entry.path : entry \in {e \in ListDirectoryEntries(w, dir).entries : e.meta.dir}}

Together(listings) ==
  IF \A listing \in listings : Ok(listing.err)
  THEN Answer({entry.path : entry \in UNION {listing.entries : listing \in listings}})
  ELSE NoAnswer("plain")

RunLSRecursive(w, p, depth) ==
  LET dirs == FoldLeft(LAMBDA seen, i : seen \cup UNION {SubDirs(w, d) : d \in seen},
                       {p}, [i \in 1 .. depth |-> i])
  IN Together({ListDirectoryEntries(w, d) : d \in dirs})

----------------------------------------------------------------------------
\* The metadata of /v1/execute, under the policy the command ran under.

DescribePathMeta(w, p, meta) ==
  LET access == IF w.allowWrite THEN DefaultAccess(meta.access, w.allowWrite) ELSE "ro"
  IN Row(p, TRUE, Filled(meta, access))

\* The row with the path itself among those of ls -al, if there is one; the path is a
\* word that the text of a script passes to ls whole, with nothing after it.
DescribePathMetaViaLS(w, p) ==
  IF Ok(RequireAbsolutePath(w, p))
  THEN {row \in UNION {ls.rows : ls \in {RunLSTarget(w, p, TRUE)}} : row.path = p}
  ELSE {}

----------------------------------------------------------------------------
\* What a reader of the rows relies on.

\* A mount states the access of its paths, and none the policy forbids.
StatesAccess(w, p) ==
  IsActive(w, p) => MountOf(p).access = "ro" \/ (MountOf(p).access = "rw" /\ w.allowWrite)

\* The row of a path is the same whether it is asked for, listed in its directory
\* or returned by the service, unless its mount leaves the access to be guessed or
\* states one that the policy takes back: the listing does not look at the policy.
RowsAgree(w, p) ==
  \A own \in {BuildLongRow(w, p)}, meta \in {DescribePath(w, p)} :
    /\ Ok(meta.err) => DescribePathMeta(w, p, meta) = own
    /\ (own.known /\ StatesAccess(w, p)) =>
         \A entry \in ListDirectoryEntries(w, Parent(p)).entries :
           entry.path = p => EntryToLongRow(w, entry) = own

\* A row of the file system offers a write exactly where one would be let through:
\* the policy, the adapter and its check of the path all say yes.
RowOffers(w, row, op) ==
  /\ (op \in row.caps) <=> (w.allowWrite /\ Ok(CheckPathOp(w, op, row.path)))
  /\ row.access = "rw" <=> row.caps \cap WriteCapabilities # {}

OffersWhatIsAllowed(w, p) ==
  \A row \in {BuildLongRow(w, p)} :
    (row.known /\ ~IsMounted(p) /\ ~IsSyntheticPrefix(p))
      => RowOffers(w, row, IF row.dir THEN "mkdir" ELSE "write")

\* ls -R lists every file that find lists.
RecursionFindsAll(w, p, depth) ==
  IsDirPath(w, p).dir =>
    \A listed \in {RunLSRecursive(w, p, depth)}, found \in {CollectFilesUnder(w, p)} :
      (Ok(listed.err) /\ Ok(found.err)) => found.paths \subseteq listed.paths
============================================================================
