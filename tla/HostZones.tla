----------------------------- MODULE HostZones -----------------------------
(***************************************************************************)
(* The two host file system adapters, pkg/adapter/agentfs (zones of a      *)
(* virtual tree, each writable or not) and pkg/adapter/localfs (one root,  *)
(* whose virtual paths are host paths), over a host tree with symbolic     *)
(* links, guarded by pkg/adapter/internal/pathguard.                       *)
(*                                                                         *)
(* A host tree is a function from the paths that exist to their nodes; a   *)
(* text is a sequence of letters.  Every call returns the class of its     *)
(* error and the tree it leaves.                                           *)
(***************************************************************************)
EXTENDS MountContract

CONSTANTS
  Zones,       \* zones of the agent file system: [root, base, writable]
  LocalRoot,   \* root of the local file system, a host path
  WriteLimit   \* MaxWriteBytes of a write_limited policy, 0 for none

\* What NewFilesystem accepts: some zone, no two with one root, none at /.
NewFilesystem(zones) ==
  /\ zones # {}
  /\ \A z \in zones : z.root # <<>> /\ z.writable \in BOOLEAN
  /\ \A y, z \in zones : y.root = z.root => y = z

ASSUME ZonesAssumption == NewFilesystem(Zones)

Folder == [kind |-> "dir"]
File(text) == [kind |-> "file", text |-> text]
Link(to) == [kind |-> "link", to |-> to]

None == [kind |-> "none"]

Exists(h, p) == p \in DOMAIN h
Kind(h, p) == IF Exists(h, p) THEN h[p].kind ELSE "none"
Put(h, p, node) == [q \in DOMAIN h \cup {p} |-> IF q = p THEN node ELSE h[q]]
Drop(h, p) == Restrict(h, DOMAIN h \ {p})
Rest(p, q) == SubSeq(q, Len(p) + 1, Len(q))

Done(h) == [err |-> "ok", host |-> h]
Refused(h, err) == [err |-> err, host |-> h]
Answer(paths) == [err |-> "ok", paths |-> paths]
NoAnswer(err) == [err |-> err, paths |-> {}]

\* An error unless a condition holds, a change unless there is an error, and the
\* answers of several calls, of which one that fails fails all.
Ensure(condition, err) == IF condition THEN "ok" ELSE err
Guarded(err, h, result) == IF Ok(err) THEN result ELSE Refused(h, err)
Union(answers) ==
  IF \A a \in answers : Ok(a.err) THEN Answer(UNION {a.paths : a \in answers})
  ELSE NoAnswer((CHOOSE a \in answers : ~Ok(a.err)).err)

----------------------------------------------------------------------------
\* Links.  A link names a path on which no other link lies, so one is followed.

LinksOn(h, p) == {i \in 0 .. Len(p) : Kind(h, SubSeq(p, 1, i)) = "link"}

Followed(h, p, i) == h[SubSeq(p, 1, i)].to \o SubSeq(p, i + 1, Len(p))

ResolveLinks(h, p, links) == IF links = {} THEN p ELSE Followed(h, p, Min(links))

Resolve(h, p) == ResolveLinks(h, p, LinksOn(h, p))

\* The path with its parent resolved: what os.Remove and Lstat name.
ResolveParent(h, p) == Append(Resolve(h, Front(p)), Last(p))

Dangling(h, p) ==
  \E i \in LinksOn(h, p) : ~Exists(h, h[SubSeq(p, 1, i)].to)

ThroughFile(h, r) == \E i \in 0 .. (Len(r) - 1) : Kind(h, SubSeq(r, 1, i)) = "file"

WithinRoot(base, r) == Under(base, r)

\* Broken: a path is checked as it is written, before its links are resolved.
Broken_Check(h, base, p) == Ensure(WithinRoot(base, p), "denied")

CheckResolved(h, base, p, r) ==
  FirstError(<<Ensure(WithinRoot(base, p), "denied"), Ensure(~Dangling(h, p), "missing"),
               Ensure(~ThroughFile(h, r), "plain"), Ensure(WithinRoot(base, r), "denied")>>)

\* Check after resolveWithExistingPrefix: missing descendants are allowed as
\* long as the deepest existing ancestor resolves under the root.
Check(h, base, p) == CheckResolved(h, base, p, Resolve(h, p))

----------------------------------------------------------------------------
\* The host calls both adapters make, on a path Check let pass.

Stat(h, p) == Kind(h, Resolve(h, p))

\* What a call that wants a file, or a directory, says to another kind of node.
IsKind(kind, wanted) ==
  CASE kind = wanted -> "ok"
    [] kind # wanted /\ kind = "none" -> "missing"
    [] OTHER -> "plain"

Ancestors(p) == {SubSeq(p, 1, i) : i \in 1 .. Len(p)}

MkdirAt(h, r) ==
  IF Kind(h, r) = "file" THEN Refused(h, "plain")
  ELSE Done([q \in DOMAIN h \cup Ancestors(r) |-> IF Exists(h, q) THEN h[q] ELSE Folder])

MkdirAll(h, p) == MkdirAt(h, Resolve(h, p))

ReadNode(h, r) ==
  [err |-> IsKind(Kind(h, r), "file"),
   text |-> IF Kind(h, r) = "file" THEN h[r].text ELSE <<>>]

ReadFile(h, p) == ReadNode(h, Resolve(h, p))

\* A file that cannot be written whole is left truncated.
StoreNode(h, r, text, torn) ==
  CASE Kind(h, r) = "dir" -> Refused(h, "plain")
    [] Kind(h, r) # "dir" /\ torn -> Refused(Put(h, r, File(<<>>)), "plain")
    [] OTHER -> Done(Put(h, r, File(text)))

StoreFile(h, p, text, torn) == StoreNode(h, Resolve(h, p), text, torn)

RmdirAt(h, r) ==
  IF \E q \in DOMAIN h : Below(r, q) THEN Refused(h, "plain") ELSE Done(Drop(h, r))

Rmdir(h, p) == RmdirAt(h, ResolveParent(h, p))

ReplaceLetters(text, old, new, all) ==
  LET first == Min({i \in DOMAIN text : text[i] = old})
  IN FlattenSeq([i \in DOMAIN text |->
       IF text[i] = old /\ (all \/ i = first) THEN new ELSE <<text[i]>>])

Occurrences(text, old) == Cardinality({i \in DOMAIN text : text[i] = old})

OverLimit(text, limit) == limit > 0 /\ Len(text) > limit

\* What both adapters do once the path is resolved and may be written.  A limit
\* of 0 is none.
StoreBelow(made, p, text, torn) ==
  Guarded(made.err, made.host, StoreFile(made.host, p, text, torn))

WriteAt(h, p, text, limit, torn) ==
  Guarded(Ensure(~OverLimit(text, limit), "plain"), h,
          StoreBelow(MkdirAll(h, Front(p)), p, text, torn))

\* A text that cannot be added whole leaves the file as it was.
AppendTo(h, p, old, text, torn) ==
  IF torn THEN Refused(StoreFile(h, p, old, FALSE).host, "plain")
  ELSE StoreFile(h, p, old \o text, FALSE)

AppendBelow(made, p, text, torn) ==
  Guarded(made.err, made.host,
          AppendTo(made.host, p, ReadFile(made.host, p).text, text, torn))

AppendAt(h, p, text, limit, torn) ==
  Guarded(Ensure(~OverLimit(text, limit), "plain"), h,
          AppendBelow(MkdirAll(h, Front(p)), p, text, torn))

EditError(read, count, edited, all, limit) ==
  FirstError(<<read.err, Ensure(count > 0, "missing"), Ensure(count <= 1 \/ all, "plain"),
               Ensure(~OverLimit(edited, limit), "plain")>>)

EditRead(h, p, read, count, edited, all, limit, torn) ==
  Guarded(EditError(read, count, edited, all, limit), h, StoreFile(h, p, edited, torn))

EditAt(h, p, old, new, all, limit, torn) ==
  LET read == ReadFile(h, p)
  IN EditRead(h, p, read, Occurrences(read.text, old),
              ReplaceLetters(read.text, old, new, all), all, limit, torn)

RemoveFileAt(h, p) ==
  Guarded(IsKind(Stat(h, p), "file"), h, Done(Drop(h, ResolveParent(h, p))))

\* The calls that read, on a path that was checked with an error.
ReadIf(err, h, p) == IF Ok(err) THEN ReadFile(h, p) ELSE [err |-> err, text |-> <<>>]
IsDirIf(err, h, p) == [err |-> err, dir |-> Ok(err) /\ Stat(h, p) = "dir"]
StatIf(err, h, p) == IF Ok(err) THEN Ensure(Stat(h, p) # "none", "missing") ELSE err

\* Names below a host directory r, as virtual paths below p.
ChildrenOf(h, p, r) ==
  {p \o Rest(r, q) : q \in {q \in DOMAIN h : Below(r, q) /\ Len(q) = Len(r) + 1}}

ListIf(err, h, p, r) ==
  CASE ~Ok(err) -> NoAnswer(err)
    [] Ok(err) /\ Kind(h, r) = "dir" -> Answer(ChildrenOf(h, p, r))
    [] OTHER -> NoAnswer(IsKind(Kind(h, r), "dir"))

\* The entries of a walk that are no directories, relative to its start and with
\* their kinds; a walk follows no link and one that starts at a link yields it alone.
WalkFrom(h, start) ==
  IF Kind(h, start) = "link" THEN {<<<<>>, "link">>}
  ELSE {<<Rest(start, q), h[q].kind>> :
          q \in {q \in DOMAIN h : Below(start, q) /\ h[q].kind # "dir"}}

Walk(h, p) == WalkFrom(h, ResolveParent(h, p))

\* The files below the host path of p, or p itself.
CollectIf(err, h, p, place, kinds) ==
  CASE ~Ok(err) -> NoAnswer(err)
    [] Ok(err) /\ Stat(h, place) = "file" -> Answer({p})
    [] OTHER -> Answer({p \o entry[1] : entry \in {e \in Walk(h, place) : e[2] \in kinds}})

\* A path is described by its kind, or by whether it can be read.
Description(isDir, read, access, writes) ==
  [err |-> IF Ok(isDir.err) /\ ~isDir.dir THEN read.err ELSE isDir.err,
   dir |-> isDir.dir, access |-> access, caps |-> DefaultCapabilities(isDir.dir) \cup writes]

----------------------------------------------------------------------------
\* The agent file system.

MatchZone(p) ==
  {z \in Zones : /\ Under(z.root, p)
                 /\ \A y \in Zones : Under(y.root, p) => Len(y.root) <= Len(z.root)}
ZoneOf(p) == CHOOSE z \in MatchZone(p) : TRUE
ToHostPath(z, p) == z.base \o Rest(z.root, p)
HostOf(p) == ToHostPath(ZoneOf(p), p)

ResolveIn(h, z, p) == Check(h, z.base, ToHostPath(z, p))

ZoneResolve(h, p) == IF MatchZone(p) = {} THEN "plain" ELSE ResolveIn(h, ZoneOf(p), p)

ZoneRequire(h, p) == IF p = <<>> THEN "ok" ELSE ZoneResolve(h, p)

\* Broken: the zone's own permission is not looked at.
Broken_ZoneCheckPathOp(h, op, p) == ZoneResolve(h, p)

ZoneAllows(err, op, p) ==
  IF Ok(err) /\ op \in {"write", "mkdir", "remove"}
  THEN Ensure(ZoneOf(p).writable, "unsupported") ELSE err

ZoneCheckPathOp(h, op, p) == ZoneAllows(ZoneResolve(h, p), op, p)

\* The start of every write.
ZoneMayWrite(h, p) == ZoneCheckPathOp(h, "write", p)

ZoneRead(h, p) == ReadIf(ZoneResolve(h, p), h, HostOf(p))

ZoneIsDir(h, p) ==
  CASE p = <<>> \/ (\E z \in MatchZone(p) : z.root = p) -> [err |-> "ok", dir |-> TRUE]
    [] p # <<>> /\ MatchZone(p) = {} -> [err |-> "ok", dir |-> FALSE]
    [] OTHER -> IsDirIf(ZoneResolve(h, p), h, HostOf(p))

ZoneChildren(h, p) ==
  IF p = <<>> THEN {z.root : z \in Zones} ELSE ChildrenOf(h, p, Resolve(h, HostOf(p)))

ZoneList(h, p) ==
  IF p = <<>> THEN Answer(ZoneChildren(h, p))
  ELSE ListIf(ZoneResolve(h, p), h, p, Resolve(h, HostOf(p)))

ZoneStat(h, p) == StatIf(ZoneResolve(h, p), h, HostOf(p))

\* Links are among the files of a walk.
CollectZoneFiles(h, p) == CollectIf(ZoneStat(h, p), h, p, HostOf(p), {"file", "link"})

\* The root is the union of the zones; one zone that fails fails it.
ZoneCollect(h, p) ==
  IF p = <<>> THEN Union({CollectZoneFiles(h, z.root) : z \in Zones})
  ELSE CollectZoneFiles(h, p)

SearchFrom(isDir, p, recursive, err, below) ==
  CASE ~Ok(isDir.err) -> NoAnswer(isDir.err)
    [] Ok(isDir.err) /\ isDir.dir -> IF recursive THEN below ELSE NoAnswer("plain")
    [] OTHER -> IF Ok(err) THEN Answer({p}) ELSE NoAnswer(err)

ZoneSearch(h, p, recursive) ==
  SearchFrom(ZoneIsDir(h, p), p, recursive, ZoneStat(h, p), ZoneCollect(h, p))

ZoneWrite(h, p, text, torn) ==
  Guarded(ZoneMayWrite(h, p), h, WriteAt(h, HostOf(p), text, WriteLimit, torn))

ZoneAppend(h, p, text, torn) ==
  Guarded(ZoneMayWrite(h, p), h, AppendAt(h, HostOf(p), text, WriteLimit, torn))

ZoneEdit(h, p, old, new, all, torn) ==
  Guarded(ZoneMayWrite(h, p), h, EditAt(h, HostOf(p), old, new, all, WriteLimit, torn))

ZoneMakeDir(h, p) == Guarded(ZoneMayWrite(h, p), h, MkdirAll(h, HostOf(p)))

ZoneRemoveFile(h, p) == Guarded(ZoneMayWrite(h, p), h, RemoveFileAt(h, HostOf(p)))

\* Access of a path and whether it is described at all.
ZoneWritable(h, p) == MatchZone(p) # {} /\ Ok(ZoneResolve(h, p)) /\ ZoneOf(p).writable

ZoneDescription(isDir, read, writable) ==
  Description(isDir, read, IF writable THEN "rw" ELSE "ro",
              CASE ~writable -> {}
                [] writable /\ isDir.dir -> {"mkdir", "write"}
                [] OTHER -> WriteCapabilities \ {"mkdir"})

ZoneDescribe(h, p) == ZoneDescription(ZoneIsDir(h, p), ZoneRead(h, p), ZoneWritable(h, p))

----------------------------------------------------------------------------
\* The local file system.

LocalResolve(h, p) == Check(h, LocalRoot, p)

LocalRequire(h, p) == IF Under(LocalRoot, p) THEN LocalResolve(h, p) ELSE "plain"

LocalCheckPathOp(h, op, p, allowWrite) ==
  IF op \in {"write", "mkdir", "remove"} /\ ~allowWrite THEN "unsupported"
  ELSE LocalResolve(h, p)

LocalRead(h, p) == ReadIf(LocalResolve(h, p), h, p)

LocalIsDir(h, p) ==
  [IsDirIf(LocalResolve(h, p), h, p) EXCEPT !.err = IF @ = "missing" THEN "ok" ELSE @]

LocalStat(h, p) == StatIf(LocalResolve(h, p), h, p)

LocalList(h, p) == ListIf(LocalStat(h, p), h, p, Resolve(h, p))

\* The walk leaves links out.
LocalCollect(h, p) == CollectIf(LocalStat(h, p), h, p, p, {"file"})

LocalSearch(h, p, recursive) ==
  IF Ok(LocalStat(h, p)) /\ Stat(h, p) = "dir" /\ ~recursive THEN NoAnswer("plain")
  ELSE LocalCollect(h, p)

LocalDescription(isDir, read) ==
  Description(isDir, read, "rw",
              IF isDir.dir THEN {"mkdir", "remove", "write"} ELSE WriteCapabilities \ {"mkdir"})

LocalDescribe(h, p) == LocalDescription(LocalIsDir(h, p), LocalRead(h, p))

LocalMayWrite(h, p, allowWrite) == LocalCheckPathOp(h, "write", p, allowWrite)

\* The limit is looked at before the path.
LocalMayStore(h, p, text, allowWrite) ==
  IF allowWrite /\ OverLimit(text, WriteLimit) THEN "plain" ELSE LocalMayWrite(h, p, allowWrite)

LocalWrite(h, p, text, allowWrite, torn) ==
  Guarded(LocalMayStore(h, p, text, allowWrite), h, WriteAt(h, p, text, WriteLimit, torn))

LocalAppend(h, p, text, allowWrite, torn) ==
  Guarded(LocalMayStore(h, p, text, allowWrite), h, AppendAt(h, p, text, WriteLimit, torn))

LocalEdit(h, p, old, new, all, allowWrite, torn) ==
  Guarded(LocalMayWrite(h, p, allowWrite), h, EditAt(h, p, old, new, all, WriteLimit, torn))

LocalMakeDir(h, p, allowWrite) == Guarded(LocalMayWrite(h, p, allowWrite), h, MkdirAll(h, p))

LocalRemoveFile(h, p, allowWrite) ==
  Guarded(LocalMayWrite(h, p, allowWrite), h, RemoveFileAt(h, p))

LocalRemoveDir(h, p, allowWrite) ==
  Guarded(FirstError(<<LocalMayWrite(h, p, allowWrite), Ensure(p # LocalRoot, "plain"),
                       IsKind(Stat(h, p), "dir")>>), h, Rmdir(h, p))
============================================================================
