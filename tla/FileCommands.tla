---------------------------- MODULE FileCommands ----------------------------
(***************************************************************************)
(* The builtins that change files (pkg/builtin: mv, cp, rm, mkdir, rmdir,  *)
(* touch, tee, edit) and mounts refresh, run by executions that share one  *)
(* world.                                                                  *)
(*                                                                         *)
(* A builtin is the sequence of the calls it makes; a step of an execution *)
(* is one call, and the steps of two executions interleave.  A call of the *)
(* host may fail or be torn, a mount may refuse, and a mount may come and  *)
(* go between any two calls.                                               *)
(***************************************************************************)
EXTENDS TraceCollector

CONSTANTS
  Execs,         \* executions, one command each
  Commands,      \* per execution its possible commands, records of CommandLines
  InitialHost,   \* the host tree
  InitialData,   \* the trees of the mounts
  MaxFaults,     \* host calls that fail
  MaxFlips       \* times a mount appears or disappears

ASSUME BoundsAssumption == MaxFaults \in Nat /\ MaxFlips \in Nat

VARIABLES world, execs, faults, flips

vars == <<world, execs, faults, flips>>

Names == {"mv", "cp", "rm", "mkdir", "rmdir", "touch", "tee", "edit", "count", "refresh"}
CommandLines(paths, texts, letters) ==
  [name : Names, paths : Seq(paths), text : texts, old : letters, all : BOOLEAN]

\* What the parsing of arguments lets pass.
WellFormed(c) ==
  /\ c \in CommandLines(Seq(STRING), Seq(STRING), STRING)
  /\ c.paths # <<>>
  /\ c.name \in {"mv", "cp"} => Len(c.paths) = 2
  /\ c.name \in {"tee", "edit", "count"} => Len(c.paths) = 1

ASSUME CommandsAssumption == \A e \in Execs : \A c \in Commands[e] : WellFormed(c)

\* Every mount has a tree, nodes of the host are at paths, and the directories that
\* writable zones are mapped to, and those towards them, are there and are reached
\* through no link.  No node of the host lies below a link.
Roots == {z.base : z \in {z \in Zones : z.writable}} \cup {LocalRoot}

ASSUME TreesAssumption ==
  /\ DOMAIN InitialHost \subseteq Seq(STRING)
  /\ \A m \in Mounts : m.point \in Seq(STRING)
  /\ DOMAIN InitialData = {m.point : m \in Mounts}
  /\ \A z \in Zones : z.root \in Seq(STRING) /\ z.base \in Seq(STRING)
  /\ LocalRoot \in Seq(STRING)
  /\ \A p \in DOMAIN InitialHost :
       InitialHost[p].kind = "link" => p # <<>> /\ InitialHost[p].to \in Seq(STRING)
  /\ \A base \in Roots : \A i \in (1 .. Len(base)) \cup {Len(base)} :
       Kind(InitialHost, SubSeq(base, 1, i)) = "dir"
  /\ \A p \in DOMAIN InitialHost : \A i \in 1 .. (Len(p) - 1) :
       Kind(InitialHost, SubSeq(p, 1, i)) # "link"

\* No link leads to a path with a link on it or below it, and a mount has no links.
ASSUME LinksAssumption ==
  /\ \A p, q \in {p \in DOMAIN InitialHost : InitialHost[p].kind = "link"} :
       ~Under(InitialHost[p].to, q) /\ ~Under(q, InitialHost[p].to)
  /\ \A m \in Mounts : \A p \in DOMAIN InitialData[m.point] :
       InitialData[m.point][p].kind # "link"

----------------------------------------------------------------------------
\* The calls of each builtin, in order.  text is what the execution read last.

Op(kind, p, content) ==
  [kind |-> kind, path |-> p, content |-> content, old |-> <<>>, all |-> FALSE]

Require(ps) == [call |-> "require", paths |-> ps]
Allowed(ps) == [call |-> "allowed", paths |-> ps]
Preflight(checks) == [call |-> "preflight", checks |-> checks]
Read(p) == [call |-> "read", path |-> p]
Probe(p) == [call |-> "probe", path |-> p]
Look(ps) == [call |-> "look", paths |-> ps]
Unique(old, all) == [call |-> "unique", old |-> old, all |-> all]
Fits(content) == [call |-> "fits", content |-> content]
Batch(ops, strict) == [call |-> "batch", ops |-> ops, strict |-> strict]
Call(op) == [call |-> "call", op |-> op]
Group(ps) == [call |-> "group", paths |-> ps]
Refresh(targets, narrow) == [call |-> "refresh", targets |-> targets, narrow |-> narrow]

Map(s, F(_)) == [i \in DOMAIN s |-> F(s[i])]

\* Two calls for each, one after the other.
Pairs(s, F(_), G(_)) ==
  [i \in 1 .. 2 * Len(s) |-> IF i % 2 = 1 THEN F(s[(i + 1) \div 2]) ELSE G(s[i \div 2])]

\* Broken: the source is removed before the target is written.
Broken_RunMv(c, text) ==
  LET src == c.paths[1]
      dest == c.paths[2]
  IN <<Require(c.paths), Allowed(c.paths),
       Preflight(<<<<"transfer_source", src>>, <<"remove", src>>, <<"write", dest>>>>),
       Read(src), Call(Op("rm", src, <<>>)), Call(Op("write", dest, text))>>

RunMv(c, text) ==
  LET src == c.paths[1]
      dest == c.paths[2]
      ops == <<Op("write", dest, text), Op("rm", src, <<>>)>>
  IN <<Require(c.paths), Allowed(c.paths),
       Preflight(<<<<"transfer_source", src>>, <<"remove", src>>, <<"write", dest>>>>),
       Read(src), Batch(ops, TRUE), Call(ops[1]), Call(ops[2])>>

RunCp(c, text) ==
  LET src == c.paths[1]
      dest == c.paths[2]
  IN <<Require(c.paths), Allowed(<<dest>>),
       Preflight(<<<<"transfer_source", src>>, <<"write", dest>>>>),
       Read(src), Call(Op("write", dest, text))>>

RunRm(c) ==
  LET ops == Map(c.paths, LAMBDA p : Op("rm", p, <<>>))
  IN <<Require(c.paths), Allowed(c.paths),
       Preflight(Map(c.paths, LAMBDA p : <<"remove", p>>)), Batch(ops, FALSE)>>
     \o Map(ops, Call)

RunMkdir(c) ==
  LET ops == Map(c.paths, LAMBDA p : Op("mkdir", p, <<>>))
  IN <<Require(c.paths), Allowed(c.paths),
       Preflight(Map(c.paths, LAMBDA p : <<"mkdir", p>>)), Look(c.paths),
       Batch(ops, FALSE)>>
     \o Pairs(ops, LAMBDA op : Look(<<op.path>>), Call)

RunRmdir(c) ==
  <<Require(c.paths), Allowed(c.paths),
    Preflight(Map(c.paths, LAMBDA p : <<"remove", p>>))>>
  \o Map(c.paths, LAMBDA p : Call(Op("rmdir", p, <<>>)))

RunTouch(c) ==
  <<Require(c.paths), Allowed(c.paths),
    Preflight(Map(c.paths, LAMBDA p : <<"write", p>>))>>
  \o Pairs(c.paths, Probe, LAMBDA p : Call(Op("write", p, <<>>)))

RunTee(c) ==
  <<Require(c.paths), Allowed(c.paths), Fits(c.text),
    Call(Op(IF c.all THEN "append" ELSE "write", c.paths[1], c.text))>>

\* With --count nothing follows the read.
RunEdit(c) ==
  LET p == c.paths[1]
      op == [Op("edit", p, c.text) EXCEPT !.old = c.old, !.all = c.all]
      look == <<Require(c.paths), Preflight(<<<<"read", p>>>>), Read(p)>>
  IN IF c.name = "count" THEN look
     ELSE look \o <<Unique(c.old, c.all), Allowed(c.paths),
                    Preflight(<<<<"write", p>>>>), Call(op)>>

\* Targets by their mount, in the order the mounts are first named.
RefreshGroups(c) ==
  LET first == {i \in DOMAIN c.paths :
                  \A j \in 1 .. (i - 1) : Match(c.paths[j]) # Match(c.paths[i])}
      nth(k) == CHOOSE i \in first : Cardinality({j \in first : j < i}) = k - 1
  IN [k \in 1 .. Cardinality(first) |->
        {p \in Range(c.paths) : Match(p) = Match(c.paths[nth(k)])}]

RunMountsRefresh(c) ==
  <<Group(c.paths)>> \o Map(RefreshGroups(c), LAMBDA group : Refresh(group, c.all))

Program(c, text) ==
  CASE c.name = "mv" -> RunMv(c, text)
    [] c.name = "cp" -> RunCp(c, text)
    [] c.name = "rm" -> RunRm(c)
    [] c.name = "mkdir" -> RunMkdir(c)
    [] c.name = "rmdir" -> RunRmdir(c)
    [] c.name = "touch" -> RunTouch(c)
    [] c.name = "tee" -> RunTee(c)
    [] c.name \in {"edit", "count"} -> RunEdit(c)
    [] c.name = "refresh" -> RunMountsRefresh(c)

----------------------------------------------------------------------------
\* Executions.

Codes == {"idle", "run", "ok", "usage", "unsupported", "general"}

\* The last four are not in the code: the paths the command has changed, those that a
\* call of the file system hid, what was refreshed, and whether no other execution ran.
Idle == [cmd |-> None, at |-> 0, sub |-> 0, text |-> <<>>, code |-> "idle",
         trace |-> EmptyTrace, changed |-> {}, hidden |-> {}, refreshed |-> {}, alone |-> TRUE]

Init ==
  /\ world \in [host : {InitialHost}, data : {InitialData}, adapter : Adapters,
                allowWrite : BOOLEAN, active : {{m.point : m \in Mounts}}]
  /\ execs = [e \in Execs |-> Idle]
  /\ faults = 0
  /\ flips = 0

Running(e) == execs[e].code = "run"
Code(err) == IF IsUnsupported(err) THEN "unsupported" ELSE "general"

ProgramOf(x) == Program(x.cmd, x.text)
CallOf(e) == ProgramOf(execs[e])[execs[e].at]
IsCall(e, call) == Running(e) /\ CallOf(e).call = call

Skip(x, n) ==
  IF x.at + n > Len(ProgramOf(x)) THEN [x EXCEPT !.code = "ok"]
  ELSE [x EXCEPT !.at = @ + n, !.sub = 1]
Advance(x) == Skip(x, 1)
Exit(x, code) == [x EXCEPT !.code = code]
AfterError(x, err) == IF Ok(err) THEN Advance(x) ELSE Exit(x, Code(err))

\* What is at a path: the node a read of it would use.  On the host that is the
\* node of its host path.
Node(tree, p) == IF Exists(tree, Resolve(tree, p)) THEN tree[Resolve(tree, p)] ELSE None

HostPlace(w, p) ==
  IF ~OnAgent(w) THEN p ELSE IF MatchZone(p) = {} THEN <<>> ELSE HostOf(p)
HostNode(w, p) == Node(w.host, HostPlace(w, p))

View(w, p) == IF IsMounted(p) THEN Node(Tree(w, MountOf(p)), p) ELSE HostNode(w, p)

ChangedBy(w, ops) == {ops[i].path : i \in {i \in DOMAIN ops : View(w, ops[i].path) # View(world, ops[i].path)}}

\* A call that failed in the words of a denial hides what it and the operations of its
\* batch before it, made up to then, have changed.
HiddenBy(made, err) == IF err = "worded" THEN {made[i].path : i \in DOMAIN made} ELSE {}

\* The step of a call: the execution's new record and the world it leaves.
Step(e, x) == execs' = [execs EXCEPT ![e] = x]
Effect(e, x, ops, made, result) ==
  /\ Step(e, [x EXCEPT !.changed = @ \cup ChangedBy(result.world, ops),
                       !.hidden = @ \cup HiddenBy(made, result.err)])
  /\ world' = result.world

\* Faults only the host's calls meet.
Faulty(fault, p) ==
  /\ fault # "none" => faults < MaxFaults /\ ~IsMounted(p) /\ ~IsSyntheticPrefix(p)
  /\ faults' = faults + (IF fault = "none" THEN 0 ELSE 1)

Reads(e, x) == Step(e, x) /\ UNCHANGED <<world, faults, flips>>

----------------------------------------------------------------------------

Start(e) ==
  /\ execs[e].code = "idle"
  /\ \E c \in Commands[e] :
       LET alone == \A d \in Execs : ~Running(d)
           x == [Idle EXCEPT !.cmd = c, !.at = 1, !.sub = 1, !.code = "run", !.alone = alone]
       IN execs' = [d \in Execs |-> IF d = e THEN x ELSE [execs[d] EXCEPT !.alone = FALSE]]
  /\ UNCHANGED <<world, faults, flips>>

DoRequire(e) ==
  /\ IsCall(e, "require")
  /\ LET x == execs[e]
         refused == \E i \in DOMAIN CallOf(e).paths :
                      ~Ok(RequireAbsolutePath(world, CallOf(e).paths[i]))
     IN Reads(e, IF refused THEN Exit(x, "usage") ELSE Advance(x))

DoAllowed(e) ==
  /\ IsCall(e, "allowed")
  /\ LET x == execs[e]
     IN Reads(e, IF world.allowWrite THEN Advance(x)
                 ELSE Exit([x EXCEPT !.trace = MarkTraceDenied(@, Range(CallOf(e).paths))],
                           "unsupported"))

\* preflightPathChecks: in order, up to the first that fails.
DoPreflight(e) ==
  /\ IsCall(e, "preflight")
  /\ LET x == execs[e]
         checks == CallOf(e).checks
         errors == Map(checks, LAMBDA check : CheckPathOp(world, check[1], check[2]))
         traced == TraceChecks(x.trace, Map(checks, LAMBDA check : check[2]), errors)
     IN Reads(e, AfterError([x EXCEPT !.trace = traced], FirstError(errors)))

DoRead(e) ==
  /\ IsCall(e, "read")
  /\ LET x == execs[e]
         p == CallOf(e).path
         read == ReadRawContent(world, p)
         y == [x EXCEPT !.text = read.text, !.trace = TraceRead(@, p, read.err)]
     IN Reads(e, IF Ok(read.err) THEN Advance(y)
                 ELSE Exit(y, IF x.cmd.name \in {"edit", "count"} THEN Code(read.err)
                              ELSE "general"))

\* touch: a path that can be read is left alone, one that is missing is written.
IsPathMissing(err) == err = "missing"

DoProbe(e) ==
  /\ IsCall(e, "probe")
  /\ LET p == CallOf(e).path
         err == ReadRawContent(world, p).err
         x == [execs[e] EXCEPT !.trace = TraceRead(@, p, err)]
     IN Reads(e, CASE Ok(err) -> Skip(x, 2)
                   [] IsPathMissing(err) -> Advance(x)
                   [] OTHER -> Exit(x, "general"))

DoLook(e) ==
  /\ IsCall(e, "look")
  /\ LET errors == [p \in Range(CallOf(e).paths) |-> IsDirPath(world, p).err]
     IN Reads(e, Advance([execs[e] EXCEPT !.trace = TraceReads(@, errors)]))

DoUnique(e) ==
  /\ IsCall(e, "unique")
  /\ LET count == Occurrences(execs[e].text, CallOf(e).old)
     IN Reads(e, IF count = 0 \/ (count > 1 /\ ~CallOf(e).all) THEN Exit(execs[e], "general")
                 ELSE Advance(execs[e]))

\* CheckWriteSize: only tee asks it.
DoFits(e) ==
  /\ IsCall(e, "fits")
  /\ Reads(e, IF OverLimit(CallOf(e).content, WriteLimit) THEN Exit(execs[e], "general")
              ELSE Advance(execs[e]))

DoCall(e) ==
  /\ IsCall(e, "call")
  /\ LET op == CallOf(e).op
     IN \E fault \in Faults : \E result \in Mutate(world, op, fault) :
          /\ Faulty(fault, op.path)
          /\ Effect(e, AfterError([execs[e] EXCEPT !.trace = TraceMutate(@, op, result.err)],
                                  result.err), <<op>>, <<op>>, result)
  /\ UNCHANGED flips

\* A transfer wants a record of every operation and no status but a success.
EnsureSuccessfulTransferRecords(records) == \A i \in DOMAIN records : records[i].status = "ok"

\* A batch ends the command, but for an error that permits the calls after it.
AfterBatch(x, batch, result) ==
  LET y == [x EXCEPT !.trace = TraceBatch(@, batch.ops, result)]
      good == ~batch.strict \/ EnsureSuccessfulTransferRecords(result.records)
  IN CASE Ok(result.err) -> Exit(y, IF good THEN "ok" ELSE "general")
       [] AllowsUnsupportedFallback(result.err) -> Advance(y)
       [] OTHER -> Exit(y, "general")

DoMountBatch(e) ==
  /\ IsCall(e, "batch")
  /\ LET batch == CallOf(e)
     IN /\ ~Ok(BatchError(batch.ops)) \/ IsMounted(batch.ops[1].path)
        /\ \E result \in MountBatch(world, batch.ops) :
             Effect(e, AfterBatch(execs[e], batch, result), batch.ops, batch.ops, result)
  /\ UNCHANGED <<faults, flips>>

\* A batch of the file system is one call per operation, until one fails.
DoFsBatch(e) ==
  /\ IsCall(e, "batch")
  /\ LET batch == CallOf(e)
         i == execs[e].sub
         op == batch.ops[i]
     IN /\ Ok(BatchError(batch.ops)) /\ ~IsMounted(batch.ops[1].path)
        /\ \E fault \in Faults : \E result \in FsResults(world, op, fault) :
             LET whole == [result EXCEPT !.records = Records(batch.ops)]
             IN /\ Faulty(fault, op.path)
                /\ Effect(e, CASE ~Ok(result.err) -> AfterBatch(execs[e], batch, result)
                               [] Ok(result.err) /\ i < Len(batch.ops) ->
                                    [execs[e] EXCEPT !.sub = i + 1]
                               [] OTHER -> AfterBatch(execs[e], batch, whole),
                          <<op>>, SubSeq(batch.ops, 1, i), result)
  /\ UNCHANGED flips

DoGroup(e) ==
  /\ IsCall(e, "group")
  /\ Reads(e, IF \A p \in Range(CallOf(e).paths) : IsMounted(p) THEN Advance(execs[e])
              ELSE Exit(execs[e], "general"))

\* One mount of a refresh: the mount may fail or refresh what it likes, and a narrow
\* request that was broadened is only then refused.  A target the mount refuses does
\* not fail the command.
DoRefresh(e) ==
  /\ IsCall(e, "refresh")
  /\ LET targets == CallOf(e).targets
         narrow == CallOf(e).narrow
         m == MountOf(CHOOSE p \in targets : TRUE)
         refused == RefreshMountRefused(m, targets, narrow)
         scopes == {{}, targets, {m.point}}
     IN IF ~Ok(refused) THEN Reads(e, Exit(execs[e], Code(refused)))
        ELSE \/ \E err \in {"plain", "unsupported"} : Reads(e, Exit(execs[e], Code(err)))
             \/ \E result \in [effective : scopes, refreshed : scopes, refused : scopes] :
                  LET took == EffectiveTargets(targets, result) \cup result.refreshed
                  IN Reads(e, AfterError([execs[e] EXCEPT !.refreshed = @ \cup took],
                                         RefreshResultError(m, targets, narrow, result)))

\* A mount appears or disappears.
Flip(m) ==
  /\ flips < MaxFlips
  /\ flips' = flips + 1
  /\ world' = [world EXCEPT !.active =
                 IF m.point \in @ THEN @ \ {m.point} ELSE @ \cup {m.point}]
  /\ UNCHANGED <<execs, faults>>

Next ==
  \/ \E e \in Execs :
       \/ Start(e) \/ DoRequire(e) \/ DoAllowed(e) \/ DoPreflight(e) \/ DoRead(e)
       \/ DoProbe(e) \/ DoLook(e) \/ DoUnique(e) \/ DoFits(e) \/ DoCall(e)
       \/ DoMountBatch(e) \/ DoFsBatch(e) \/ DoGroup(e) \/ DoRefresh(e)
  \/ \E m \in Mounts : Flip(m)

Spec == Init /\ [][Next]_vars

----------------------------------------------------------------------------
\* Host paths a command may change: under a writable zone, or under the root of
\* a local file system, and only when the policy allows writes.
MayChange(p) ==
  /\ world.allowWrite
  /\ IF OnAgent(world) THEN \E z \in Zones : z.writable /\ Under(z.base, p)
     ELSE Under(LocalRoot, p)

\* Nothing else of the host ever changes: not through a link that leaves its zone,
\* not for a zone that is read only, not under a policy that forbids writes, which
\* the agent file system itself does not look at (filespace_core.go:337).
Confined ==
  \A p \in DOMAIN InitialHost \cup DOMAIN world.host :
    MayChange(p) \/ (/\ Exists(InitialHost, p) /\ Exists(world.host, p)
                     /\ world.host[p] = InitialHost[p])

\* A mount whose profile does not let it be written keeps its tree, whichever
\* command is tried and whatever the mount implements.
ProjectionsKept ==
  \A m \in Mounts :
    (~world.allowWrite \/ m.write = "read_only" \/ ~m.consistent
       \/ ~MountSupportsCLIClass(m, "mutate") \/ ~Implements(m, "Mutator"))
      => world.data[m.point] = InitialData[m.point]

\* Two paths that one node answers to: equal ones, and those of a link and its target.
HostSpot(w, p) == Resolve(w.host, HostPlace(w, p))
OnePlace(w, p, q) ==
  p = q \/ (~IsMounted(p) /\ ~IsMounted(q) /\ HostSpot(w, p) = HostSpot(w, q))

\* The text is where it was read from, by a mount or, while that is away, below it;
\* or it is where it goes.
Holds(node, text) == node.kind = "file" /\ node.text = text
AtSource(w, p, text) == Holds(View(w, p), text) \/ Holds(HostNode(w, p), text)

MoveLosesNothing(e) ==
  LET x == execs[e]
      src == x.cmd.paths[1]
      dest == x.cmd.paths[2]
  IN (x.cmd # None /\ x.alone /\ x.at > 4 /\ x.cmd.name = "mv" /\ ~OnePlace(world, src, dest))
       => AtSource(world, src, x.text) \/ Holds(View(world, dest), x.text)

\* A mount of the command that refuses the pair of operations a move is, which mv
\* takes for a reason to make them one by one.
MovesInHalves(c) ==
  \E p \in Range(c.paths) : IsMounted(p) /\ Exceeds(2, MountOf(p).maxCount)

\* mv never loses its file: once the source has been read, its text is at the
\* source or at the destination, whichever call fails, is torn or is refused, as
\* long as no other execution interferes, the two paths are two files and no
\* mount splits the move (op_move.go:28).
MoveKeepsContent ==
  \A e \in Execs : (execs[e].cmd # None /\ MovesInHalves(execs[e].cmd)) \/ MoveLosesNothing(e)

\* The same of every mount: a writable mount whose budget refuses the batch of a
\* move must not lose the file to a write and a removal made one after the other
\* (architecture-high-performance-mount-system.md:553).
SplitMoveKeepsContent == \A e \in Execs : MoveLosesNothing(e)

\* A batch that spans a mount and the file system, or two mounts, changes nothing,
\* and no sequence of single calls takes its place.
BatchesStayWhole ==
  \A e \in Execs :
    (execs[e].cmd # None /\ execs[e].cmd.name \in {"mv", "rm", "mkdir"})
      => (execs[e].changed # {}
            => \A p, q \in Range(execs[e].cmd.paths) : Match(p) = Match(q))

\* A narrow refresh that exits 0 has refreshed nothing beyond what was asked for.
RefreshStaysNarrow ==
  \A e \in Execs :
    LET x == execs[e]
    IN (x.code = "ok" /\ x.cmd.name = "refresh" /\ x.cmd.all)
         => \A p \in x.refreshed : IsWithinRefreshRequestScope(p, Range(x.cmd.paths))

\* Neither a batch nor a refresh goes beyond what its command named: there is no
\* half of a batch, and a narrow refresh stays narrow.
BoundariesKept == BatchesStayWhole /\ RefreshStaysNarrow

\* The trace of a command that exits 0 names every path the command changed,
\* whatever records the mount returned for its batch.
SuccessTraced ==
  \A e \in Execs :
    execs[e].code = "ok" => execs[e].changed \subseteq Effects(execs[e].trace)

\* What the trace reports denied outside the mounts the command has not changed: all
\* paths of a batch are reported when one of its operations is refused, and no rule of
\* a zone, a mount or the policy refuses one after another has been done.  Excepted are
\* paths of which the trace reports the effect of another call, and what a call hid
\* whose error is the host's and only reads as a denial (trace_collector.go:549).
DenialsHold ==
  \A e \in Execs :
    \A p \in execs[e].changed \cap execs[e].trace.denied :
      IsMounted(p) \/ p \in Effects(execs[e].trace) \/ p \in execs[e].hidden

\* The trace of a command, whole or failed half-way, is true of the tree, up to the
\* words of the host.
TraceTruthful == SuccessTraced /\ DenialsHold

\* A path that the file system describes as read only.
SaysReadOnly(w, p) ==
  /\ ~IsMounted(p) /\ ~IsSyntheticPrefix(p)
  /\ Ok(DescribePath(w, p).err) /\ DescribePath(w, p).access = "ro"

\* What a path's description says holds: no step of any command changes a file
\* that is described as read only.
ReadOnlyHolds ==
  [][world'.host # world.host => \A p \in DOMAIN InitialHost :
       SaysReadOnly(world, p) => View(world, p)' = View(world, p)]_vars

\* Zones for which it can hold: the base of one that is read only is reached through
\* no link and lies neither below nor above the base of a writable one.
ZonesApart ==
  \A z \in Zones : ~z.writable =>
    /\ \A i \in 1 .. Len(z.base) : Kind(InitialHost, SubSeq(z.base, 1, i)) # "link"
    /\ \A y \in Zones : y.writable => ~Under(y.base, z.base) /\ ~Under(z.base, y.base)

\* Between commands every way to look at the tree agrees with the others.
Quiet == \A e \in Execs : ~Running(e)
Linked(p) == ~IsMounted(p) /\ LinksOn(world.host, p) # {}
Candidates == DOMAIN world.host \cup UNION {DOMAIN Tree(world, m) : m \in Mounts}
Looked == {<<>>} \cup Candidates \cup
             UNION {{SubSeq(p, 1, i) : i \in 1 .. Len(p)} : p \in Candidates}

\* Every file that can be read and is reached through no link is found under each
\* of the directories above it but the root, and what is found can be read, by a
\* mount that enumerates paths and by one that only lists, while mounts come and
\* go (virtualfs_router.go:266, filespace_core.go:299).
FindFindsReadable(d, found, plain, readable) ==
  (Ok(found.err) /\ d # <<>>) =>
    (found.paths \ {d}) \cap plain = {p \in readable : Below(d, p)}

\* What is found below a directory, the root included, lies under one of the
\* children that a listing of it shows (virtualfs_bridge.go:69).
FoundIsListed(d, found) ==
  \A listed \in {ListChildren(world, d)} :
    (Ok(found.err) /\ Ok(listed.err))
      => \A p \in found.paths : p = d \/ \E c \in listed.paths : Under(c, p)

\* A search of a mount answers with the files in which a reader of every file the
\* search resolves to would have met the text, and a recursive search and a find
\* resolve to the same files (virtualfs_bridge.go:227, mount_dispatch.go:220).
SearchMatchesReads(d, found) ==
  \A resolved \in {ResolveSearchPaths(world, d, TRUE)}, search \in {SearchContent(world, <<d>>, "x")} :
    /\ (Ok(resolved.err) /\ Ok(found.err)) => resolved.paths = found.paths
    /\ (Ok(search.err) /\ Ok(resolved.err)) =>
         \A files \in {SetToSeq(resolved.paths)} : \A bulk \in {ReadMany(world, files)} :
           Ok(bulk.err) => search.paths = {files[i] : i \in {j \in DOMAIN files :
                                                             Occurrences(bulk.texts[j], "x") > 0}}

\* find, ls, a recursive search and a reader of single files tell of one tree.
LookingAgrees ==
  Quiet =>
    \A plain \in {{p \in Candidates : ~Linked(p)}} :
    \A readable \in {{p \in plain : Ok(ReadRawContent(world, p).err)}} :
      \A d \in Looked : \A found \in {CollectFilesUnder(world, d)} :
        /\ FindFindsReadable(d, found, plain, readable)
        /\ FoundIsListed(d, found)
        /\ d # <<>> => SearchMatchesReads(d, found)
============================================================================
