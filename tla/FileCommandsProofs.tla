--------------------------- MODULE FileCommandsProofs ---------------------------
(***************************************************************************)
(* Theorems about the file builtins, for any trees, zones, mounts,         *)
(* commands and interleavings.  Their invariant, FilesInv, has two sides:  *)
(* of an execution, what it has found out at the call it has come to       *)
(* (ExecInv); of the world, that the bases of the writable zones are       *)
(* reached through directories and that every link is one of the beginning *)
(* (RootsKept, LinksKept), without which a path that passes the check      *)
(* could still lead out.                                                   *)
(* TraceInv adds that the trace of an execution accounts for what it has   *)
(* changed: all of it is told or in hand of a batch (Accounted), and the   *)
(* paths of a batch that has passed its checks are admitted from then on   *)
(* (Admitted), so that no rule denies one after another has been changed;  *)
(* an error of the host that reads as a denial hides what was in hand.     *)
(* MoveInv adds that a move no other execution meets has its text at the   *)
(* source until the call that writes the target has written it whole, and  *)
(* that the calls which replace a refused batch are refused at the write,  *)
(* or are the file system's own (MoveKept).                                *)
(* Where zones are apart, FilesInv keeps as well what is described as read *)
(* only: no change reaches its node, nor the way to it (SeenUntouched).    *)
(***************************************************************************)
EXTENDS FileCommands, FiniteSetTheorems, SequenceTheorems, WellFoundedInduction, TLAPS

Paths == Seq(STRING)

-----------------------------------------------------------------------------
(***************************************************************************)
(* Numbers, sequences and sets.                                            *)
(***************************************************************************)

\* A set of numbers that is not empty has a least member.
LEMMA LeastNat ==
    ASSUME NEW S, S \subseteq Nat, S # {}
    PROVE  \E x \in S : \A y \in S : x <= y
<1>1. PICK x \in S : \A y \in S : <<y, x>> \notin OpToRel(<, Nat)
  BY NatLessThanWellFounded, WFMin, Zenon
<1>2. ASSUME NEW y \in S
      PROVE  x <= y
  <2>1. ~(y < x)
    BY <1>1 DEF OpToRel
  <2> QED
    BY <2>1
<1> QED
  BY <1>2

\* Min is that member.
LEMMA MinIs ==
    ASSUME NEW S, S \subseteq Nat, S # {}
    PROVE  Min(S) \in S /\ \A y \in S : Min(S) <= y
  BY LeastNat DEF Min

\* Checks of which the first error is none are all good.
LEMMA AllChecksGood ==
    ASSUME NEW checks, NEW n \in Nat, DOMAIN checks = 1 .. n, Ok(FirstError(checks))
    PROVE  \A i \in 1 .. n : Ok(checks[i])
<1> SUFFICES ASSUME \E i \in 1 .. n : ~Ok(checks[i])
             PROVE  FALSE
  OBVIOUS
<1> DEFINE bad == {i \in 1 .. n : ~Ok(checks[i])}
           Is(i) == i \in 1 .. n /\ ~Ok(checks[i]) /\ \A j \in 1 .. (i - 1) : Ok(checks[j])
<1>1. PICK i \in bad : \A j \in bad : i <= j
  <2>1. bad \subseteq Nat /\ bad # {}
    OBVIOUS
  <2> QED
    BY <2>1, LeastNat
<1>2. Is(i)
  BY <1>1
<1>3. FirstError(checks) = checks[CHOOSE k \in 1 .. n : ~Ok(checks[k]) /\ \A j \in 1 .. (k - 1) : Ok(checks[j])]
  BY DEF FirstError
<1>4. ~Ok(FirstError(checks))
  BY <1>2, <1>3
<1> QED
  BY <1>4

\* The first error of checks is one of theirs.
LEMMA FirstErrorIn ==
    ASSUME NEW checks, NEW n \in Nat, DOMAIN checks = 1 .. n, NEW S, "ok" \in S,
           \A i \in 1 .. n : checks[i] \in S
    PROVE  FirstError(checks) \in S
<1>1. CASE \A i \in 1 .. n : Ok(checks[i])
  BY <1>1 DEF FirstError
<1>2. CASE \E i \in 1 .. n : ~Ok(checks[i])
  <2> DEFINE bad == {i \in 1 .. n : ~Ok(checks[i])}
             Is(i) == i \in 1 .. n /\ ~Ok(checks[i]) /\ \A j \in 1 .. (i - 1) : Ok(checks[j])
  <2>1. PICK i \in bad : \A j \in bad : i <= j
    <3>1. bad \subseteq Nat /\ bad # {}
      BY <1>2
    <3> QED
      BY <3>1, LeastNat
  <2>2. Is(i)
    BY <2>1
  <2>3. FirstError(checks) = checks[CHOOSE k \in 1 .. n : ~Ok(checks[k]) /\ \A j \in 1 .. (k - 1) : Ok(checks[j])]
    BY <1>2 DEF FirstError
  <2> QED
    BY <2>2, <2>3
<1> QED
  BY <1>1, <1>2

\* Checks that are all good have no first error.
LEMMA NoFirstError ==
    ASSUME NEW checks, NEW n \in Nat, DOMAIN checks = 1 .. n, \A i \in 1 .. n : Ok(checks[i])
    PROVE  Ok(FirstError(checks))
  BY DEF FirstError, Ok

\* The first error of two checks.
LEMMA FirstOfTwo ==
    ASSUME NEW a, NEW b
    PROVE  FirstError(<<a, b>>) = IF Ok(a) THEN b ELSE a
<1>1. PICK checks : checks = <<a, b>>
  OBVIOUS
<1>2. DOMAIN checks = 1 .. 2 /\ checks[1] = a /\ checks[2] = b /\ \A i \in 1 .. 2 : i = 1 \/ i = 2
  BY <1>1
<1> DEFINE Is(i) == ~Ok(checks[i]) /\ \A j \in 1 .. (i - 1) : Ok(checks[j])
<1>3. FirstError(checks) = IF \A i \in 1 .. 2 : Ok(checks[i]) THEN "ok" ELSE checks[CHOOSE i \in 1 .. 2 : Is(i)]
  BY <1>2 DEF FirstError
<1>4. CASE Ok(a) /\ Ok(b)
  BY <1>1, <1>2, <1>3, <1>4 DEF Ok
<1>5. CASE ~Ok(a)
  <2>1. \A i \in 1 .. 2 : Is(i) <=> i = 1
    BY <1>2, <1>5
  <2>2. (CHOOSE i \in 1 .. 2 : Is(i)) = 1
    BY <2>1
  <2> QED
    BY <1>1, <1>2, <1>3, <1>5, <2>2
<1>6. CASE Ok(a) /\ ~Ok(b)
  <2>1. \A i \in 1 .. 2 : Is(i) <=> i = 2
    BY <1>2, <1>6
  <2>2. (CHOOSE i \in 1 .. 2 : Is(i)) = 2
    BY <2>1
  <2> QED
    BY <1>1, <1>2, <1>3, <1>6, <2>2
<1> QED
  BY <1>4, <1>5, <1>6

\* Two checks.
LEMMA TwoGood ==
    ASSUME NEW a, NEW b
    PROVE  Ok(FirstError(<<a, b>>)) <=> Ok(a) /\ Ok(b)
  BY FirstOfTwo

\* A concatenation has the members of both sequences in their order.
LEMMA Joined ==
    ASSUME NEW A, NEW s \in Seq(A), NEW B, NEW t \in Seq(B)
    PROVE  /\ Len(s \o t) = Len(s) + Len(t) /\ DOMAIN (s \o t) = 1 .. Len(s) + Len(t)
           /\ s \o t \in Seq(A \cup B)
           /\ \A i \in 1 .. Len(s) : (s \o t)[i] = s[i]
           /\ \A i \in (Len(s) + 1) .. (Len(s) + Len(t)) : (s \o t)[i] = t[i - Len(s)]
<1>1. s \in Seq(A \cup B) /\ t \in Seq(A \cup B)
  BY SeqMonotonic
<1>2. /\ s \o t \in Seq(A \cup B) /\ Len(s \o t) = Len(s) + Len(t)
      /\ \A i \in 1 .. Len(s) + Len(t) : (s \o t)[i] = IF i <= Len(s) THEN s[i] ELSE t[i - Len(s)]
  BY <1>1, ConcatProperties
<1>3. Len(s) \in Nat /\ Len(t) \in Nat
  OBVIOUS
<1> QED
  BY <1>2, <1>3

\* A set with no two members that differ has at most one.
LEMMA AtMostOne ==
    ASSUME NEW S, IsFiniteSet(S), ~(Cardinality(S) > 1), NEW a \in S, NEW b \in S
    PROVE  a = b
<1> SUFFICES ASSUME a # b
             PROVE  FALSE
  OBVIOUS
<1>1. IsFiniteSet({a}) /\ Cardinality({a}) = 1
  BY FS_Singleton
<1>2. {a} \cup {b} \in SUBSET S
  OBVIOUS
<1>3. Cardinality({a} \cup {b}) = 2
  BY <1>1, FS_AddElement
<1>4. Cardinality({a} \cup {b}) <= Cardinality(S) /\ Cardinality(S) \in Nat
  BY <1>2, FS_Subset, FS_CardinalityType
<1> QED
  BY <1>3, <1>4

-----------------------------------------------------------------------------
(***************************************************************************)
(* Paths and mounts.                                                       *)
(***************************************************************************)

\* Under compares the names at the start.
LEMMA UnderIs ==
    ASSUME NEW p \in Paths, NEW q \in Paths
    PROVE  Under(p, q) <=> Len(p) <= Len(q) /\ \A i \in 1 .. Len(p) : q[i] = p[i]
<1>1. Len(p) \in Nat /\ Len(q) \in Nat /\ p \in [1 .. Len(p) -> STRING] /\ q \in [1 .. Len(q) -> STRING]
  BY DEF Paths
<1>2. ASSUME Len(p) <= Len(q)
      PROVE  SubSeq(q, 1, Len(p)) = p <=> \A i \in 1 .. Len(p) : q[i] = p[i]
  <2>1. \A i \in 1 .. Len(p) : q[i] \in STRING
    BY <1>1, <1>2
  <2>2. /\ SubSeq(q, 1, Len(p)) \in Paths
        /\ Len(SubSeq(q, 1, Len(p))) = Len(p)
        /\ \A i \in 1 .. Len(p) : SubSeq(q, 1, Len(p))[i] = q[i]
    BY <1>1, <2>1, SubSeqProperties DEF Paths
  <2>3. SubSeq(q, 1, Len(p)) \in [1 .. Len(p) -> STRING]
    BY <2>2, LenProperties DEF Paths
  <2> QED
    BY <1>1, <2>2, <2>3
<1> QED
  BY <1>2 DEF Under

\* Of the paths of one length a path lies under one.
LEMMA SameLength ==
    ASSUME NEW p \in Paths, NEW a \in Paths, NEW b \in Paths,
           Under(a, p), Under(b, p), Len(a) = Len(b)
    PROVE  a = b
  BY UnderIs DEF Paths

\* A path below a mount point belongs to one mount, the one with the deepest point.
LEMMA MountOfIs ==
    ASSUME NEW p \in Paths, IsMounted(p)
    PROVE  MountOf(p) \in Mounts /\ Match(p) = {MountOf(p)}
<1> DEFINE all == {m \in Mounts : Under(m.point, p)}
           room == {Len(p) - Len(m.point) : m \in all}
<1>1. \A m \in all : m.point \in Paths /\ Len(m.point) \in Nat /\ Len(m.point) <= Len(p)
  BY TreesAssumption DEF Paths, Under
<1>2. room \subseteq Nat /\ room # {}
  BY <1>1 DEF IsMounted, Paths
<1>3. PICK x \in room : \A y \in room : x <= y
  BY <1>2, LeastNat
<1>4. PICK m \in all : x = Len(p) - Len(m.point)
  BY <1>3
<1>5. \A n \in all : Len(n.point) <= Len(m.point)
  <2>1. ASSUME NEW n \in all
        PROVE  Len(n.point) <= Len(m.point)
    <3>1. Len(p) - Len(m.point) <= Len(p) - Len(n.point)
      BY <1>3, <1>4
    <3> QED
      BY <1>1, <3>1 DEF Paths
  <2> QED
    BY <2>1
<1>6. m \in Match(p)
  BY <1>5 DEF Match, Deepest
<1>7. ASSUME NEW n \in Match(p)
      PROVE  n = m
  <2>1. n \in all /\ Len(n.point) = Len(m.point)
    BY <1>1, <1>5, <1>6, <1>7 DEF Match, Deepest
  <2>2. n.point = m.point
    BY <1>1, <2>1, SameLength
  <2> QED
    BY <2>1, <2>2, MountsAssumption DEF NewMountRouter
<1>8. Match(p) = {m}
  BY <1>6, <1>7
<1> QED
  BY <1>8 DEF MountOf

\* A path below no mount point matches none.
LEMMA NoMountOf ==
    ASSUME NEW p, ~IsMounted(p)
    PROVE  Match(p) = {}
  BY DEF IsMounted, Match, Deepest

-----------------------------------------------------------------------------
(***************************************************************************)
(* The calls of the builtins.                                              *)
(***************************************************************************)

\* The commands that change files, and where they ask whether they may.
Writers == Names \ {"count", "refresh"}
AllowedAt(c) == IF c.name = "edit" THEN 5 ELSE 2

\* The commands that first try their operations in one batch, and where.
Batched == {"mv", "rm", "mkdir"}
BatchAt(c) == IF c.name = "rm" THEN 4 ELSE 5

\* An operation on a path of the command.
OpOf(c, op) == op.kind \in Kinds /\ op.path \in Range(c.paths)

\* Operations on all paths of the command.
OpsOf(c, ops) ==
    /\ \E n \in Nat \ {0} : DOMAIN ops = 1 .. n /\ Len(ops) = n
    /\ \A k \in DOMAIN ops : OpOf(c, ops[k]) /\ ops[k].kind # "rmdir"
    /\ \A p \in Range(c.paths) : \E k \in DOMAIN ops : ops[k].path = p

\* Checks that are made one after the other.
Numbered(checks) == \E n \in Nat : DOMAIN checks = 1 .. n

\* A check of every path that fails for a directory towards a mount.
ChecksOf(c, checks) ==
    /\ Numbered(checks)
    /\ \A p \in Range(c.paths) :
         \E k \in DOMAIN checks : checks[k][2] = p /\ checks[k][1] \in {"write", "mkdir", "remove"}

\* What the call at a position of a command's program may be.
Fitting(c, call, i) ==
    /\ call.call \in {"call", "batch", "probe"} => c.name \in Writers /\ i > AllowedAt(c)
    /\ c.name \in Writers /\ i = AllowedAt(c) => call.call = "allowed"
    /\ call.call = "call" => OpOf(c, call.op) /\ (c.name \in Batched => i > BatchAt(c))
    /\ call.call = "batch" => c.name \in Batched /\ i = BatchAt(c) /\ OpsOf(c, call.ops)
    /\ c.name \in Batched /\ i = BatchAt(c) => call.call = "batch"
    /\ call.call = "probe" => c.name = "touch"
    /\ call.call = "look" => c.name = "mkdir" /\ i > 3 /\ Range(call.paths) \subseteq Range(c.paths)
    /\ c.name \in Batched /\ i = 3 => call.call = "preflight" /\ ChecksOf(c, call.checks)
    /\ call.call = "preflight" => Numbered(call.checks)
    /\ call.call = "refresh" =>
          c.name = "refresh" /\ call.targets \subseteq Range(c.paths) /\ call.narrow = c.all

\* A program of which every call is where it may be.
Laid(c, program) ==
    /\ \E n \in Nat \ {0} : DOMAIN program = 1 .. n /\ Len(program) = n
    /\ \A i \in DOMAIN program : Fitting(c, program[i], i)

\* The paths of a command.
LEMMA PathsOf ==
    ASSUME NEW c, WellFormed(c)
    PROVE  /\ c.paths \in Seq(Paths) /\ Len(c.paths) \in Nat \ {0}
           /\ DOMAIN c.paths = 1 .. Len(c.paths)
           /\ c.name \in Names /\ Range(c.paths) \subseteq Paths
           /\ \A i \in 1 .. Len(c.paths) : c.paths[i] \in Range(c.paths)
<1>1. c.paths \in Seq(Paths) /\ c.paths # <<>> /\ c.name \in Names
  BY DEF WellFormed, CommandLines, Paths
<1>2. Len(c.paths) \in Nat \ {0} /\ DOMAIN c.paths = 1 .. Len(c.paths)
  BY <1>1
<1>3. \A i \in 1 .. Len(c.paths) : c.paths[i] \in Paths
  BY <1>1
<1> QED
  BY <1>1, <1>2, <1>3 DEF Range

\* A program made of two parts.
LEMMA LaidInParts ==
    ASSUME NEW c, NEW A, NEW head \in Seq(A), NEW B, NEW rest \in Seq(B), Len(head) > 0,
           \A i \in 1 .. Len(head) : Fitting(c, head[i], i),
           \A k \in 1 .. Len(rest) : Fitting(c, rest[k], Len(head) + k)
    PROVE  Laid(c, head \o rest)
<1> DEFINE P == head \o rest
<1>1. /\ Len(P) = Len(head) + Len(rest) /\ DOMAIN P = 1 .. Len(head) + Len(rest)
      /\ \A i \in 1 .. Len(head) : P[i] = head[i]
      /\ \A i \in (Len(head) + 1) .. (Len(head) + Len(rest)) : P[i] = rest[i - Len(head)]
  BY Joined
<1>2. Len(head) \in Nat \ {0} /\ Len(rest) \in Nat
  OBVIOUS
<1> HIDE DEF P
<1>3. ASSUME NEW i \in 1 .. Len(head) + Len(rest)
      PROVE  Fitting(c, P[i], i)
  <2>1. CASE i <= Len(head)
    BY <1>1, <1>2, <2>1
  <2>2. CASE i > Len(head)
    <3>1. i - Len(head) \in 1 .. Len(rest) /\ Len(head) + (i - Len(head)) = i
      BY <1>2, <2>2
    <3>2. Fitting(c, rest[i - Len(head)], Len(head) + (i - Len(head)))
      BY <3>1
    <3> QED
      BY <1>1, <1>2, <2>2, <3>1, <3>2
  <2> QED
    BY <1>2, <2>1, <2>2
<1>4. Laid(c, P)
  BY <1>1, <1>2, <1>3 DEF Laid
<1> QED
  BY <1>4 DEF P

\* One check, or two.
LEMMA FewNumbered ==
    ASSUME NEW a, NEW b
    PROVE  Numbered(<<a>>) /\ Numbered(<<a, b>>)
<1>1. DOMAIN <<a>> = 1 .. 1 /\ DOMAIN <<a, b>> = 1 .. 2
  OBVIOUS
<1> QED
  BY <1>1 DEF Numbered

\* The calls of mv.
LEMMA LaidMv ==
    ASSUME NEW c, WellFormed(c), NEW text, c.name = "mv"
    PROVE  Laid(c, RunMv(c, text))
<1> DEFINE src == c.paths[1]
           dest == c.paths[2]
           ops == <<Op("write", dest, text), Op("rm", src, <<>>)>>
           checks == <<<<"transfer_source", src>>, <<"remove", src>>, <<"write", dest>>>>
           P == <<Require(c.paths), Allowed(c.paths), Preflight(checks), Read(src),
                  Batch(ops, TRUE), Call(ops[1]), Call(ops[2])>>
<1>1. Range(c.paths) = {src, dest}
  BY PathsOf DEF WellFormed, Range
<1>2. OpsOf(c, ops)
  <2>1. DOMAIN ops = 1 .. 2 /\ Len(ops) = 2
    OBVIOUS
  <2>2. OpOf(c, ops[1]) /\ OpOf(c, ops[2]) /\ ops[1].path = dest /\ ops[2].path = src
    BY <1>1 DEF OpOf, Op, Kinds
  <2>3. ops[1].kind # "rmdir" /\ ops[2].kind # "rmdir"
    BY DEF Op
  <2> HIDE DEF ops
  <2> QED
    BY <1>1, <2>1, <2>2, <2>3 DEF OpsOf
<1>3. ChecksOf(c, checks)
  <2>1. DOMAIN checks = 1 .. 3
    OBVIOUS
  <2>2. checks[2] = <<"remove", src>> /\ checks[3] = <<"write", dest>>
    OBVIOUS
  <2> HIDE DEF checks
  <2> QED
    BY <1>1, <2>1, <2>2 DEF ChecksOf, Numbered
<1>4. OpOf(c, ops[1]) /\ OpOf(c, ops[2])
  BY <1>1 DEF OpOf, Op, Kinds
<1>n. Numbered(checks)
  BY <1>3 DEF ChecksOf
<1> HIDE DEF ops, checks
<1>5. DOMAIN P = 1 .. 7 /\ Len(P) = 7 /\ 7 \in Nat \ {0}
  OBVIOUS
<1>6. ASSUME NEW i \in 1 .. 7
      PROVE  Fitting(c, P[i], i)
  BY <1>2, <1>3, <1>4, <1>n DEF Fitting, AllowedAt, BatchAt, Batched, Writers, Names,
     Require, Allowed, Preflight, Read, Batch, Call
<1>7. RunMv(c, text) = P
  BY DEF RunMv, ops, checks
<1> QED
  BY <1>5, <1>6, <1>7 DEF Laid

\* Those of cp, tee and edit.
LEMMA LaidShort ==
    ASSUME NEW c, WellFormed(c), NEW text
    PROVE  /\ c.name = "cp" => Laid(c, RunCp(c, text))
           /\ c.name = "tee" => Laid(c, RunTee(c))
           /\ c.name \in {"edit", "count"} => Laid(c, RunEdit(c))
<1>1. c.paths[1] \in Range(c.paths)
  BY PathsOf
<1>2. ASSUME c.name = "cp"
      PROVE  Laid(c, RunCp(c, text))
  <2>1. c.paths[2] \in Range(c.paths)
    BY <1>2, PathsOf DEF WellFormed
  <2> DEFINE checks == <<<<"transfer_source", c.paths[1]>>, <<"write", c.paths[2]>>>>
             op == Op("write", c.paths[2], text)
             P == <<Require(c.paths), Allowed(<<c.paths[2]>>), Preflight(checks), Read(c.paths[1]), Call(op)>>
  <2>2. RunCp(c, text) = P
    BY DEF RunCp
  <2>3. OpOf(c, op)
    BY <2>1 DEF OpOf, Op, Kinds
  <2>n. Numbered(checks)
    BY FewNumbered
  <2> HIDE DEF op, checks
  <2>4. DOMAIN P = 1 .. 5 /\ Len(P) = 5
    OBVIOUS
  <2>5. ASSUME NEW i \in 1 .. 5
        PROVE  Fitting(c, P[i], i)
    BY <1>2, <2>3, <2>n DEF Fitting, AllowedAt, BatchAt, Batched, Writers, Names,
       Require, Allowed, Preflight, Read, Call
  <2> QED
    BY <2>2, <2>4, <2>5 DEF Laid
<1>3. ASSUME c.name = "tee"
      PROVE  Laid(c, RunTee(c))
  <2> DEFINE op == Op(IF c.all THEN "append" ELSE "write", c.paths[1], c.text)
             P == <<Require(c.paths), Allowed(c.paths), Fits(c.text), Call(op)>>
  <2>1. RunTee(c) = P
    BY DEF RunTee
  <2>2. OpOf(c, op)
    BY <1>1 DEF OpOf, Op, Kinds
  <2> HIDE DEF op
  <2>3. DOMAIN P = 1 .. 4 /\ Len(P) = 4
    OBVIOUS
  <2>4. ASSUME NEW i \in 1 .. 4
        PROVE  Fitting(c, P[i], i)
    BY <1>3, <2>2 DEF Fitting, AllowedAt, BatchAt, Batched, Writers, Names,
       Require, Allowed, Fits, Call
  <2> QED
    BY <2>1, <2>3, <2>4 DEF Laid
<1>4. ASSUME c.name \in {"edit", "count"}
      PROVE  Laid(c, RunEdit(c))
  <2> DEFINE p == c.paths[1]
             op == [Op("edit", p, c.text) EXCEPT !.old = c.old, !.all = c.all]
             ask == <<Require(c.paths), Preflight(<<<<"read", p>>>>), Read(p)>>
             act == <<Unique(c.old, c.all), Allowed(c.paths), Preflight(<<<<"write", p>>>>), Call(op)>>
  <2>1. PICK look : look = ask
    OBVIOUS
  <2>2. PICK rest : rest = act
    OBVIOUS
  <2>3. RunEdit(c) = IF c.name = "count" THEN look ELSE look \o rest
    BY <2>1, <2>2 DEF RunEdit
  <2>4. OpOf(c, op)
    BY <1>1 DEF OpOf, Op, Kinds
  <2>s. look \in Seq({ask[1], ask[2], ask[3]}) /\ rest \in Seq({act[1], act[2], act[3], act[4]})
    BY <2>1, <2>2
  <2>n. Numbered(<<<<"read", p>>>>) /\ Numbered(<<<<"write", p>>>>)
    BY FewNumbered
  <2>5. /\ Len(look) = 3 /\ DOMAIN look = 1 .. 3
        /\ look[1].call = "require" /\ look[3].call = "read"
        /\ look[2].call = "preflight" /\ Numbered(look[2].checks)
    BY <2>1, <2>n DEF Require, Preflight, Read
  <2>6. /\ Len(rest) = 4
        /\ rest[1].call = "unique" /\ rest[2].call = "allowed"
        /\ rest[3].call = "preflight" /\ Numbered(rest[3].checks)
        /\ rest[4] = Call(op)
    BY <2>2, <2>n DEF Unique, Allowed, Preflight, Call
  <2> HIDE DEF op, ask, act
  <2>7. CASE c.name = "count"
    BY <2>3, <2>5, <2>7 DEF Laid, Fitting, Batched, Writers
  <2>8. CASE c.name = "edit"
    <3>0. /\ Len(look \o rest) = Len(look) + Len(rest)
          /\ DOMAIN (look \o rest) = 1 .. Len(look) + Len(rest)
          /\ \A i \in 1 .. Len(look) : (look \o rest)[i] = look[i]
          /\ \A i \in (Len(look) + 1) .. (Len(look) + Len(rest)) :
               (look \o rest)[i] = rest[i - Len(look)]
      BY <2>s, Joined
    <3>1. /\ Len(look \o rest) = 7 /\ 7 \in Nat \ {0} /\ DOMAIN (look \o rest) = 1 .. 7
          /\ \A i \in 1 .. 3 : (look \o rest)[i] = look[i]
          /\ \A i \in 4 .. 7 : (look \o rest)[i] = rest[i - 3]
      BY <2>5, <2>6, <3>0
    <3>2. ASSUME NEW i \in 1 .. 7
          PROVE  Fitting(c, (look \o rest)[i], i)
      <4>1. PICK call : call = (look \o rest)[i]
        OBVIOUS
      <4>2. \/ call.call \in {"require", "read", "unique"} /\ i # 5
            \/ call.call = "preflight" /\ Numbered(call.checks) /\ i # 5
            \/ call.call = "allowed"
            \/ call = Call(op) /\ i = 7
        <5>1. CASE i \in 1 .. 3
          <6>1. call = look[i]
            BY <3>1, <4>1, <5>1
          <6> QED
            BY <2>5, <5>1, <6>1
        <5>2. CASE i \in 4 .. 7
          <6>1. PICK k \in 1 .. 4 : k = i - 3
            BY <5>2
          <6>2. call = rest[k]
            BY <3>1, <4>1, <5>2, <6>1
          <6>3. i = k + 3
            BY <5>2, <6>1
          <6> QED
            BY <2>6, <6>2, <6>3
        <5> QED
          BY <5>1, <5>2
      <4>3. Fitting(c, call, i)
        BY <2>4, <2>8, <4>2 DEF Fitting, AllowedAt, Batched, Writers, Names, Call
      <4> QED
        BY <4>1, <4>3
    <3> QED
      BY <2>3, <2>8, <3>1, <3>2 DEF Laid
  <2> QED
    BY <1>4, <2>7, <2>8
<1> QED
  BY <1>2, <1>3, <1>4

\* The calls of rm: its operations are those of its batch.
LEMMA LaidRm ==
    ASSUME NEW c, WellFormed(c), c.name = "rm"
    PROVE  Laid(c, RunRm(c))
<1> DEFINE n == Len(c.paths)
           set == {Op("rm", p, <<>>) : p \in Range(c.paths)}
<1>1. PICK ops : ops = Map(c.paths, LAMBDA p : Op("rm", p, <<>>))
  OBVIOUS
<1>2. PICK checks : checks = Map(c.paths, LAMBDA p : <<"remove", p>>)
  OBVIOUS
<1>3. /\ ops \in [1 .. n -> set] /\ checks \in [1 .. n -> {<<"remove", p>> : p \in Range(c.paths)}]
  BY <1>1, <1>2, PathsOf DEF Map
<1>e. \A i \in 1 .. n : ops[i] = Op("rm", c.paths[i], <<>>) /\ checks[i] = <<"remove", c.paths[i]>>
  BY <1>1, <1>2, PathsOf DEF Map
<1>4. PICK head : head = <<Require(c.paths), Allowed(c.paths), Preflight(checks), Batch(ops, FALSE)>>
  OBVIOUS
<1>5. PICK rest : rest = Map(ops, Call)
  OBVIOUS
<1>6. RunRm(c) = head \o rest
  BY <1>1, <1>2, <1>4, <1>5 DEF RunRm
<1>7. ASSUME NEW k \in 1 .. n
      PROVE  OpOf(c, ops[k]) /\ ops[k].kind # "rmdir"
  <2>1. ops[k] = Op("rm", c.paths[k], <<>>) /\ c.paths[k] \in Range(c.paths)
    BY <1>e, PathsOf
  <2> QED
    BY <2>1 DEF OpOf, Op, Kinds
<1>8. OpsOf(c, ops) /\ ChecksOf(c, checks)
  <2>1. n \in Nat \ {0} /\ DOMAIN ops = 1 .. n /\ DOMAIN checks = 1 .. n /\ Len(ops) = n
    BY <1>3, PathsOf
  <2>2. \A p \in Range(c.paths) : \E k \in 1 .. n : c.paths[k] = p
    BY PathsOf DEF Range
  <2>3. ASSUME NEW k \in 1 .. n
        PROVE  ops[k].path = c.paths[k] /\ checks[k][2] = c.paths[k] /\ checks[k][1] = "remove"
    <3>1. ops[k] = Op("rm", c.paths[k], <<>>) /\ checks[k] = <<"remove", c.paths[k]>>
      BY <1>e
    <3>2. Op("rm", c.paths[k], <<>>).path = c.paths[k]
      BY DEF Op
    <3> QED
      BY <3>1, <3>2
  <2> QED
    BY <1>7, <2>1, <2>2, <2>3 DEF OpsOf, ChecksOf, Numbered
<1>n. Numbered(checks)
  BY <1>8 DEF ChecksOf
<1>9. rest \in Seq({Call(op) : op \in set}) /\ Len(rest) = n
  BY <1>3, <1>5, PathsOf DEF Map
<1>c. \A k \in 1 .. n : rest[k] = Call(ops[k])
  BY <1>3, <1>5, PathsOf DEF Map
<1>10. head \in Seq({head[1], head[2], head[3], head[4]}) /\ Len(head) = 4
  BY <1>4
<1>11. ASSUME NEW i \in 1 .. 4
       PROVE  Fitting(c, head[i], i)
  BY <1>4, <1>8, <1>n DEF Fitting, AllowedAt, BatchAt, Batched, Writers, Names,
     Require, Allowed, Preflight, Batch
<1>12. ASSUME NEW k \in 1 .. n
       PROVE  Fitting(c, rest[k], 4 + k)
  <2>1. k \in Nat /\ k > 0
    BY PathsOf
  <2>2. rest[k].call = "call" /\ rest[k].op = ops[k] /\ OpOf(c, ops[k])
    <3>1. rest[k] = Call(ops[k]) /\ OpOf(c, ops[k])
      BY <1>7, <1>c
    <3> QED
      BY <3>1 DEF Call
  <2> QED
    BY <2>1, <2>2 DEF Fitting, AllowedAt, BatchAt, Batched, Writers, Names
<1>13. /\ Len(head) > 0
       /\ \A i \in 1 .. Len(head) : Fitting(c, head[i], i)
       /\ \A k \in 1 .. Len(rest) : Fitting(c, rest[k], Len(head) + k)
  BY <1>9, <1>10, <1>11, <1>12
<1>14. head \in Seq({head[1], head[2], head[3], head[4]}) /\ rest \in Seq({Call(op) : op \in set})
  BY <1>9, <1>10
<1> QED
  BY <1>6, <1>13, <1>14, LaidInParts

\* Pairs gives two calls for each member.
LEMMA PairsOf ==
    ASSUME NEW n \in Nat, NEW k \in 1 .. 2 * n
    PROVE  IF k % 2 = 1 THEN (k + 1) \div 2 \in 1 .. n ELSE k \div 2 \in 1 .. n
<1>1. k \in Nat /\ k <= 2 * n /\ k > 0
  OBVIOUS
<1>2. CASE k % 2 = 1
  BY <1>1, <1>2
<1>3. CASE k % 2 # 1
  BY <1>1, <1>3
<1> QED
  BY <1>2, <1>3

\* The calls of mkdir.
LEMMA LaidMkdir ==
    ASSUME NEW c, WellFormed(c), c.name = "mkdir"
    PROVE  Laid(c, RunMkdir(c))
<1> DEFINE n == Len(c.paths)
           set == {Op("mkdir", p, <<>>) : p \in Range(c.paths)}
<1>1. PICK ops : ops = Map(c.paths, LAMBDA p : Op("mkdir", p, <<>>))
  OBVIOUS
<1>2. PICK checks : checks = Map(c.paths, LAMBDA p : <<"mkdir", p>>)
  OBVIOUS
<1>3. /\ ops \in [1 .. n -> set] /\ Len(ops) = n
      /\ checks \in [1 .. n -> {<<"mkdir", p>> : p \in Range(c.paths)}]
  BY <1>1, <1>2, PathsOf DEF Map
<1>e. \A i \in 1 .. n : ops[i] = Op("mkdir", c.paths[i], <<>>) /\ checks[i] = <<"mkdir", c.paths[i]>>
  BY <1>1, <1>2, PathsOf DEF Map
<1>4. PICK head : head = <<Require(c.paths), Allowed(c.paths), Preflight(checks), Look(c.paths),
                           Batch(ops, FALSE)>>
  OBVIOUS
<1>5. PICK rest : rest = Pairs(ops, LAMBDA op : Look(<<op.path>>), Call)
  OBVIOUS
<1>6. RunMkdir(c) = head \o rest
  BY <1>1, <1>2, <1>4, <1>5 DEF RunMkdir
<1>7. ASSUME NEW k \in 1 .. n
      PROVE  OpOf(c, ops[k]) /\ ops[k].kind # "rmdir"
  <2>1. ops[k] = Op("mkdir", c.paths[k], <<>>) /\ c.paths[k] \in Range(c.paths)
    BY <1>e, PathsOf
  <2> QED
    BY <2>1 DEF OpOf, Op, Kinds
<1>8. OpsOf(c, ops) /\ ChecksOf(c, checks)
  <2>1. n \in Nat \ {0} /\ DOMAIN ops = 1 .. n /\ DOMAIN checks = 1 .. n /\ Len(ops) = n
    BY <1>3, PathsOf
  <2>2. \A p \in Range(c.paths) : \E k \in 1 .. n : c.paths[k] = p
    BY PathsOf DEF Range
  <2>3. ASSUME NEW k \in 1 .. n
        PROVE  ops[k].path = c.paths[k] /\ checks[k][2] = c.paths[k] /\ checks[k][1] = "mkdir"
    <3>1. ops[k] = Op("mkdir", c.paths[k], <<>>) /\ checks[k] = <<"mkdir", c.paths[k]>>
      BY <1>e
    <3>2. Op("mkdir", c.paths[k], <<>>).path = c.paths[k]
      BY DEF Op
    <3> QED
      BY <3>1, <3>2
  <2> QED
    BY <1>7, <2>1, <2>2, <2>3 DEF OpsOf, ChecksOf, Numbered
<1>n. Numbered(checks)
  BY <1>8 DEF ChecksOf
<1>9. rest = [i \in 1 .. 2 * n |-> IF i % 2 = 1 THEN Look(<<ops[(i + 1) \div 2].path>>) ELSE Call(ops[i \div 2])]
  BY <1>3, <1>5 DEF Pairs
<1>10. rest \in Seq({rest[i] : i \in 1 .. 2 * n}) /\ Len(rest) = 2 * n
  <2>1. PICK m \in Nat : m = 2 * n
    BY PathsOf
  <2>2. PICK S : S = {rest[i] : i \in 1 .. m}
    OBVIOUS
  <2>3. rest \in [1 .. m -> S]
    BY <1>9, <2>1, <2>2
  <2> QED
    BY <2>1, <2>2, <2>3
<1>11. head \in Seq({head[1], head[2], head[3], head[4], head[5]}) /\ Len(head) = 5
  BY <1>4
<1>12. ASSUME NEW i \in 1 .. 5
       PROVE  Fitting(c, head[i], i)
  BY <1>4, <1>8, <1>n DEF Fitting, AllowedAt, BatchAt, Batched, Writers, Names,
     Require, Allowed, Preflight, Look, Batch
<1>13. ASSUME NEW k \in 1 .. 2 * n
       PROVE  Fitting(c, rest[k], 5 + k)
  <2>1. k \in Nat /\ k > 0 /\ n \in Nat
    BY PathsOf
  <2>2. CASE k % 2 = 1
    <3>1. PICK j \in 1 .. n : rest[k] = Look(<<ops[j].path>>)
      BY <1>9, <2>1, <2>2, PairsOf
    <3>2. ops[j].path \in Range(c.paths)
      BY <1>7 DEF OpOf
    <3>3. rest[k].call = "look" /\ Range(rest[k].paths) \subseteq Range(c.paths)
      BY <3>1, <3>2 DEF Look, Range
    <3> QED
      BY <2>1, <3>3 DEF Fitting, AllowedAt, BatchAt, Batched
  <2>3. CASE k % 2 # 1
    <3>1. PICK j \in 1 .. n : rest[k] = Call(ops[j])
      BY <1>9, <2>1, <2>3, PairsOf
    <3> QED
      BY <1>7, <2>1, <3>1 DEF Fitting, AllowedAt, BatchAt, Batched, Writers, Names, Call
  <2> QED
    BY <2>2, <2>3
<1>14. /\ Len(head) > 0
       /\ \A i \in 1 .. Len(head) : Fitting(c, head[i], i)
       /\ \A k \in 1 .. Len(rest) : Fitting(c, rest[k], Len(head) + k)
  BY <1>10, <1>11, <1>12, <1>13
<1>15. PICK A, B : head \in Seq(A) /\ rest \in Seq(B)
  BY <1>10, <1>11
<1> QED
  BY <1>6, <1>14, <1>15, LaidInParts

\* Those of touch.
LEMMA LaidTouch ==
    ASSUME NEW c, WellFormed(c), c.name = "touch"
    PROVE  Laid(c, RunTouch(c))
<1> DEFINE n == Len(c.paths)
<1>1. PICK checks : checks = Map(c.paths, LAMBDA p : <<"write", p>>)
  OBVIOUS
<1>n. Numbered(checks)
  BY <1>1, PathsOf DEF Map, Numbered
<1>2. PICK head : head = <<Require(c.paths), Allowed(c.paths), Preflight(checks)>>
  OBVIOUS
<1>3. PICK rest : rest = Pairs(c.paths, Probe, LAMBDA p : Call(Op("write", p, <<>>)))
  OBVIOUS
<1>4. RunTouch(c) = head \o rest
  BY <1>1, <1>2, <1>3 DEF RunTouch
<1>5. rest = [i \in 1 .. 2 * n |-> IF i % 2 = 1 THEN Probe(c.paths[(i + 1) \div 2])
                                   ELSE Call(Op("write", c.paths[i \div 2], <<>>))]
  BY <1>3 DEF Pairs
<1>6. rest \in Seq({rest[i] : i \in 1 .. 2 * n}) /\ Len(rest) = 2 * n
  <2>1. PICK m \in Nat : m = 2 * n
    BY PathsOf
  <2>2. PICK S : S = {rest[i] : i \in 1 .. m}
    OBVIOUS
  <2>3. rest \in [1 .. m -> S]
    BY <1>5, <2>1, <2>2
  <2> QED
    BY <2>1, <2>2, <2>3
<1>7. head \in Seq({head[1], head[2], head[3]}) /\ Len(head) = 3
  BY <1>2
<1>8. ASSUME NEW i \in 1 .. 3
      PROVE  Fitting(c, head[i], i)
  BY <1>2, <1>n DEF Fitting, AllowedAt, BatchAt, Batched, Writers, Names, Require, Allowed, Preflight
<1>9. ASSUME NEW k \in 1 .. 2 * n
      PROVE  Fitting(c, rest[k], 3 + k)
  <2>1. k \in Nat /\ k > 0 /\ n \in Nat
    BY PathsOf
  <2>2. CASE k % 2 = 1
    <3>1. rest[k].call = "probe"
      BY <1>5, <2>2 DEF Probe
    <3> QED
      BY <2>1, <3>1 DEF Fitting, AllowedAt, Batched, Writers, Names
  <2>3. CASE k % 2 # 1
    <3>1. PICK j \in 1 .. n : rest[k] = Call(Op("write", c.paths[j], <<>>))
      BY <1>5, <2>1, <2>3, PairsOf
    <3>2. OpOf(c, Op("write", c.paths[j], <<>>))
      BY PathsOf DEF OpOf, Op, Kinds
    <3> QED
      BY <2>1, <3>1, <3>2 DEF Fitting, AllowedAt, BatchAt, Batched, Writers, Names, Call
  <2> QED
    BY <2>2, <2>3
<1>10. /\ Len(head) > 0
       /\ \A i \in 1 .. Len(head) : Fitting(c, head[i], i)
       /\ \A k \in 1 .. Len(rest) : Fitting(c, rest[k], Len(head) + k)
  BY <1>6, <1>7, <1>8, <1>9
<1>11. PICK A, B : head \in Seq(A) /\ rest \in Seq(B)
  BY <1>6, <1>7
<1> QED
  BY <1>4, <1>10, <1>11, LaidInParts

\* Those of rmdir.
LEMMA LaidRmdir ==
    ASSUME NEW c, WellFormed(c), c.name = "rmdir"
    PROVE  Laid(c, RunRmdir(c))
<1> DEFINE n == Len(c.paths)
<1>1. PICK checks : checks = Map(c.paths, LAMBDA p : <<"remove", p>>)
  OBVIOUS
<1>n. Numbered(checks)
  BY <1>1, PathsOf DEF Map, Numbered
<1>2. PICK head : head = <<Require(c.paths), Allowed(c.paths), Preflight(checks)>>
  OBVIOUS
<1>3. PICK rest : rest = Map(c.paths, LAMBDA p : Call(Op("rmdir", p, <<>>)))
  OBVIOUS
<1>4. RunRmdir(c) = head \o rest
  BY <1>1, <1>2, <1>3 DEF RunRmdir
<1>5. rest = [i \in 1 .. n |-> Call(Op("rmdir", c.paths[i], <<>>))]
  BY <1>3, PathsOf DEF Map
<1>6. rest \in Seq({rest[i] : i \in 1 .. n}) /\ Len(rest) = n
  BY <1>5, PathsOf
<1>7. head \in Seq({head[1], head[2], head[3]}) /\ Len(head) = 3
  BY <1>2
<1>8. ASSUME NEW i \in 1 .. 3
      PROVE  Fitting(c, head[i], i)
  BY <1>2, <1>n DEF Fitting, AllowedAt, BatchAt, Batched, Writers, Names, Require, Allowed, Preflight
<1>9. ASSUME NEW k \in 1 .. n
      PROVE  Fitting(c, rest[k], 3 + k)
  <2>1. OpOf(c, Op("rmdir", c.paths[k], <<>>)) /\ k \in Nat /\ k > 0
    BY PathsOf DEF OpOf, Op, Kinds
  <2> QED
    BY <1>5, <2>1 DEF Fitting, AllowedAt, BatchAt, Batched, Writers, Names, Call
<1>10. /\ Len(head) > 0
       /\ \A i \in 1 .. Len(head) : Fitting(c, head[i], i)
       /\ \A k \in 1 .. Len(rest) : Fitting(c, rest[k], Len(head) + k)
  BY <1>6, <1>7, <1>8, <1>9
<1>11. PICK A, B : head \in Seq(A) /\ rest \in Seq(B)
  BY <1>6, <1>7
<1> QED
  BY <1>4, <1>10, <1>11, LaidInParts

\* Those of mounts refresh: one for each group of its targets.
LEMMA LaidRefresh ==
    ASSUME NEW c, WellFormed(c), c.name = "refresh"
    PROVE  Laid(c, RunMountsRefresh(c))
<1>1. PICK groups : groups = RefreshGroups(c)
  OBVIOUS
<1>2. PICK n \in Nat : groups \in [1 .. n -> SUBSET Range(c.paths)]
  <2>1. PICK first : first = {i \in DOMAIN c.paths :
                  \A j \in 1 .. (i - 1) : Match(c.paths[j]) # Match(c.paths[i])}
    OBVIOUS
  <2>2. IsFiniteSet(1 .. Len(c.paths)) /\ first \in SUBSET (1 .. Len(c.paths))
    <3>1. 1 \in Int /\ Len(c.paths) \in Int
      BY PathsOf
    <3> QED
      BY <2>1, <3>1, PathsOf, FS_Interval
  <2>3. Cardinality(first) \in Nat
    BY <2>2, FS_Subset, FS_CardinalityType
  <2>4. groups \in [1 .. Cardinality(first) -> SUBSET Range(c.paths)]
    BY <1>1, <2>1 DEF RefreshGroups
  <2> QED
    BY <2>3, <2>4
<1>3. PICK head : head = <<Group(c.paths)>>
  OBVIOUS
<1>4. PICK rest : rest = Map(groups, LAMBDA group : Refresh(group, c.all))
  OBVIOUS
<1>5. RunMountsRefresh(c) = head \o rest
  BY <1>1, <1>3, <1>4 DEF RunMountsRefresh
<1>6. rest = [i \in 1 .. n |-> Refresh(groups[i], c.all)]
  BY <1>2, <1>4 DEF Map
<1>7. rest \in Seq({rest[i] : i \in 1 .. n}) /\ Len(rest) = n
  BY <1>6
<1>8. head \in Seq({head[1]}) /\ Len(head) = 1
  BY <1>3
<1>9. \A i \in 1 .. 1 : Fitting(c, head[i], i)
  BY <1>3 DEF Fitting, Batched, Writers, Group
<1>10. ASSUME NEW k \in 1 .. n
       PROVE  Fitting(c, rest[k], 1 + k)
  BY <1>2, <1>6 DEF Fitting, Batched, Writers, Refresh
<1>11. /\ Len(head) > 0
       /\ \A i \in 1 .. Len(head) : Fitting(c, head[i], i)
       /\ \A k \in 1 .. Len(rest) : Fitting(c, rest[k], Len(head) + k)
  BY <1>7, <1>8, <1>9, <1>10
<1>12. PICK A, B : head \in Seq(A) /\ rest \in Seq(B)
  BY <1>7, <1>8
<1> QED
  BY <1>5, <1>11, <1>12, LaidInParts

\* Every program is laid out like this, whatever has been read.
LEMMA ProgramLaid ==
    ASSUME NEW c, WellFormed(c), NEW text
    PROVE  Laid(c, Program(c, text))
<1>1. c.name \in Names
  BY PathsOf
<1> QED
  BY <1>1, LaidMv, LaidShort, LaidRm, LaidMkdir, LaidTouch, LaidRmdir, LaidRefresh DEF Program, Names

-----------------------------------------------------------------------------
(***************************************************************************)
(* What a call leaves of the world: the mounts.                            *)
(***************************************************************************)

\* The fields of a world, with a tree for every mount.
Shaped(w) ==
    /\ DOMAIN w = {"host", "data", "adapter", "allowWrite", "active"}
    /\ DOMAIN w.data = {m.point : m \in Mounts}

\* The shape of what a call answers.
Answered(result) == DOMAIN result = {"err", "world", "records"}

\* A mount that is never written.
WriteProtected(m) ==
    \/ m.write = "read_only" \/ ~m.consistent
    \/ ~MountSupportsCLIClass(m, "mutate") \/ ~Implements(m, "Mutator")

\* A call that has changed no tree but of mounts that may be written.
MountsOnly(w, v) ==
    /\ Shaped(v) /\ v.host = w.host /\ v.adapter = w.adapter /\ v.allowWrite = w.allowWrite
    /\ \A m \in Mounts : WriteProtected(m) => v.data[m.point] = w.data[m.point]

\* A mount that takes a batch may be written.
LEMMA WritableMount ==
    ASSUME NEW m, NEW ops, Ok(MountMutationError(m, ops))
    PROVE  ~WriteProtected(m)
<1> DEFINE checks == <<CheckMountMutationBudget(m, ops), RequireMountCLIClass(m, "mutate"), WritableError(m),
                       IF Implements(m, "Mutator") THEN "ok" ELSE MountUnsupported(m)>>
<1>1. PICK n \in Nat : n = 4 /\ DOMAIN checks = 1 .. n
  OBVIOUS
<1>2. Ok(FirstError(checks))
  BY DEF MountMutationError
<1>3. checks[2] = RequireMountCLIClass(m, "mutate") /\ checks[3] = WritableError(m)
      /\ checks[4] = IF Implements(m, "Mutator") THEN "ok" ELSE MountUnsupported(m)
  OBVIOUS
<1> HIDE DEF checks
<1>4. \A i \in 1 .. n : Ok(checks[i])
  <2>1. DOMAIN checks = 1 .. n
    BY <1>1
  <2> QED
    BY <1>2, <2>1, AllChecksGood
<1>5. Ok(checks[2]) /\ Ok(checks[3]) /\ Ok(checks[4])
  BY <1>1, <1>4
<1> QED
  BY <1>3, <1>5 DEF Ok, RequireMountCLIClass, WritableError, MountUnsupported, WriteProtected

\* The tree of a mount that may be written is replaced, and no other.
LEMMA TreeReplaced ==
    ASSUME NEW w, Shaped(w), NEW m \in Mounts, ~WriteProtected(m), NEW tree
    PROVE  MountsOnly(w, [w EXCEPT !.data[m.point] = tree])
<1>1. PICK v : v = [w EXCEPT !.data[m.point] = tree]
  OBVIOUS
<1>2. /\ DOMAIN v = {"host", "data", "adapter", "allowWrite", "active"}
      /\ v.host = w.host /\ v.adapter = w.adapter /\ v.allowWrite = w.allowWrite
      /\ v.data = [w.data EXCEPT ![m.point] = tree]
  BY <1>1 DEF Shaped
<1>3. Shaped(v)
  BY <1>2 DEF Shaped
<1>4. ASSUME NEW n \in Mounts, WriteProtected(n)
      PROVE  v.data[n.point] = w.data[n.point]
  <2>1. n.point # m.point
    BY <1>4, MountsAssumption DEF NewMountRouter
  <2> QED
    BY <1>2, <2>1 DEF Shaped
<1> QED
  BY <1>1, <1>2, <1>3, <1>4 DEF MountsOnly

\* A batch of a mount changes the tree of that mount, if any.
LEMMA MutationKeeps ==
    ASSUME NEW w, Shaped(w), NEW m \in Mounts, NEW ops, NEW result \in ApplyMountMutations(w, m, ops)
    PROVE  Answered(result) /\ MountsOnly(w, result.world)
<1>0. MountsOnly(w, w)
  BY DEF MountsOnly
<1>1. CASE ~Ok(MountMutationError(m, ops))
  <2>1. result = Failed(w, MountMutationError(m, ops))
    BY <1>1 DEF ApplyMountMutations, UnlessRefused
  <2> QED
    BY <1>0, <2>1 DEF Failed, Answered
<1>2. CASE Ok(MountMutationError(m, ops))
  <2>1. ~WriteProtected(m)
    BY <1>2, WritableMount
  <2>2. result \in MutatorApply(w, m, ops)
    BY <1>2 DEF ApplyMountMutations, UnlessRefused
  <2>3. PICK applied : result \in MutatorResults(w, m, ops, applied)
    BY <2>2, Zenon DEF MutatorApply
  <2>4. \/ result.world = w /\ Answered(result)
        \/ result.world = [w EXCEPT !.data[m.point] = applied.host] /\ Answered(result)
    BY <2>3 DEF MutatorResults, Worded, Failed, Answered
  <2> QED
    BY <1>0, <2>1, <2>4, TreeReplaced
<1> QED
  BY <1>1, <1>2

\* The order of the records has no part in it.
LEMMA BatchKeeps ==
    ASSUME NEW w, Shaped(w), NEW ops, ops[1].path \in Paths, Ok(BatchError(ops)) => IsMounted(ops[1].path),
           NEW result \in MountBatch(w, ops)
    PROVE  Answered(result) /\ MountsOnly(w, result.world)
<1>1. CASE ~Ok(BatchError(ops))
  <2>1. result = Failed(w, BatchError(ops))
    BY <1>1 DEF MountBatch, UnlessRefused
  <2> QED
    BY <2>1 DEF Failed, Answered, MountsOnly
<1>2. CASE Ok(BatchError(ops))
  <2>1. PICK m : m = MountOf(ops[1].path)
    OBVIOUS
  <2>2. m \in Mounts
    BY <1>2, <2>1, MountOfIs
  <2>3. PICK given \in ApplyMountMutations(w, m, ops) : result = ReorderMutationRecords(ops, given)
    BY <1>2, <2>1 DEF MountBatch, UnlessRefused
  <2>4. Answered(given) /\ MountsOnly(w, given.world)
    BY <2>2, MutationKeeps
  <2>5. Answered(result) /\ result.world = given.world
    BY <2>3, <2>4 DEF ReorderMutationRecords, Failed, Answered
  <2> QED
    BY <2>4, <2>5
<1> QED
  BY <1>1, <1>2

-----------------------------------------------------------------------------
(***************************************************************************)
(* The inductive invariant of an execution: how far it may have got.       *)
(***************************************************************************)

Fields == {"cmd", "at", "sub", "text", "code", "trace", "changed", "hidden", "refreshed", "alone"}

CallAt(x) == ProgramOf(x)[x.at]
OneMount(c) == \A p, q \in Range(c.paths) : Match(p) = Match(q)

\* It runs one of its commands and is at a call of its program, in a batch at an
\* operation of it.
Placed(x, commands) ==
    /\ DOMAIN x = Fields
    /\ x.code = "idle" => x.cmd = None /\ x.changed = {} /\ x.refreshed = {}
    /\ x.code # "idle" => x.cmd \in commands
    /\ x.code = "run" => /\ x.at \in DOMAIN ProgramOf(x)
                         /\ CallAt(x).call = "batch" => x.sub \in DOMAIN CallAt(x).ops

\* Past the question whether it may, it may; past the checks of a batch, no path is
\* a directory towards a mount.
Cleared(x, may) ==
    x.code = "run" =>
      /\ x.cmd.name \in Writers /\ x.at > AllowedAt(x.cmd) => may
      /\ x.cmd.name \in Batched /\ x.at > 3 => \A p \in Range(x.cmd.paths) : ~IsSyntheticPrefix(p)

\* What comes after a batch, and what has been changed, is of one mount or of none.
Whole(x) ==
    (x.code # "idle" /\ x.cmd.name \in Batched)
      => (((x.code = "run" /\ x.at > BatchAt(x.cmd)) \/ x.changed # {}) => OneMount(x.cmd))

\* A narrow refresh that has not been refused has stayed within its targets.
Narrow(x) ==
    (x.code \in {"run", "ok"} /\ x.cmd.name = "refresh" /\ x.cmd.all)
      => \A p \in x.refreshed : IsWithinRefreshRequestScope(p, Range(x.cmd.paths))

ExecInv(x, commands, may) == Placed(x, commands) /\ Cleared(x, may) /\ Whole(x) /\ Narrow(x)

\* What a call has found when the next one follows it.
Passed(call) ==
    /\ call.call = "allowed" => world.allowWrite
    /\ (call.call = "preflight" /\ Numbered(call.checks)) =>
         \A k \in DOMAIN call.checks : Ok(CheckPathOp(world, call.checks[k][1], call.checks[k][2]))
    /\ call.call = "batch" => BatchError(call.ops) # "denied"

\* How one call may move an execution on.
Moves(x, y) ==
    /\ DOMAIN y = Fields /\ y.cmd = x.cmd /\ y.code # "idle"
    /\ y.code = "run" =>
         /\ y.at \in DOMAIN ProgramOf(y)
         /\ CallAt(y).call = "batch" => y.sub \in DOMAIN CallAt(y).ops
         /\ \/ y.at = x.at + 1 /\ Passed(CallAt(x))
            \/ y.at = x.at + 2 /\ CallAt(x).call = "probe"
            \/ y.at = x.at /\ CallAt(x).call = "batch"
    /\ \/ y.changed = x.changed
       \/ CallAt(x).call = "call"
       \/ CallAt(x).call = "batch" /\ Ok(BatchError(CallAt(x).ops))
    /\ y.code \in {"run", "ok"} =>
         \A p \in y.refreshed :
           p \notin x.refreshed =>
             /\ CallAt(x).call = "refresh"
             /\ CallAt(x).narrow => IsWithinRefreshRequestScope(p, CallAt(x).targets)

\* A record that differs in nothing the invariant is about.
Alike(x, y) ==
    /\ DOMAIN y = Fields /\ y.cmd = x.cmd /\ y.at = x.at /\ y.code = x.code
    /\ y.changed = x.changed /\ y.refreshed = x.refreshed

\* The place of an execution that runs.
LEMMA AtCall ==
    ASSUME NEW x, NEW commands, \A c \in commands : WellFormed(c), Placed(x, commands), x.code = "run"
    PROVE  /\ WellFormed(x.cmd) /\ x.at \in Nat \ {0} /\ Fitting(x.cmd, CallAt(x), x.at)
           /\ DOMAIN x = Fields
<1>1. WellFormed(x.cmd) /\ x.at \in DOMAIN ProgramOf(x) /\ DOMAIN x = Fields
  BY DEF Placed
<1>2. Laid(x.cmd, ProgramOf(x))
  BY <1>1, ProgramLaid DEF ProgramOf
<1> QED
  BY <1>1, <1>2 DEF Laid, CallAt

\* Where going on leads.
LEMMA SkipIs ==
    ASSUME NEW x, DOMAIN x = Fields, WellFormed(x.cmd), x.at \in Nat \ {0}, x.code = "run",
           NEW n \in Nat, NEW y, y = Skip(x, n)
    PROVE  /\ DOMAIN y = Fields /\ y.cmd = x.cmd /\ y.changed = x.changed /\ y.refreshed = x.refreshed
           /\ y.code \in {"run", "ok"}
           /\ y.code = "run" =>
                /\ y.at = x.at + n /\ y.at \in DOMAIN ProgramOf(y)
                /\ CallAt(y).call = "batch" => y.sub \in DOMAIN CallAt(y).ops
<1>1. CASE x.at + n > Len(ProgramOf(x))
  <2>1. y = [x EXCEPT !.code = "ok"]
    BY <1>1 DEF Skip
  <2> QED
    BY <2>1 DEF Fields
<1>2. CASE ~(x.at + n > Len(ProgramOf(x)))
  <2>1. y = [x EXCEPT !.at = x.at + n, !.sub = 1]
    BY <1>2 DEF Skip
  <2>2. /\ DOMAIN y = Fields /\ y.cmd = x.cmd /\ y.changed = x.changed /\ y.refreshed = x.refreshed
        /\ y.code = "run" /\ y.at = x.at + n /\ y.sub = 1 /\ y.text = x.text
    BY <2>1 DEF Fields
  <2>3. ProgramOf(y) = ProgramOf(x)
    BY <2>2 DEF ProgramOf
  <2>4. Laid(x.cmd, ProgramOf(y))
    BY <2>3, ProgramLaid DEF ProgramOf
  <2>5. y.at \in DOMAIN ProgramOf(y)
    BY <1>2, <2>2, <2>3, <2>4 DEF Laid
  <2>6. Fitting(x.cmd, CallAt(y), y.at)
    BY <2>4, <2>5 DEF Laid, CallAt
  <2>7. CallAt(y).call = "batch" => 1 \in DOMAIN CallAt(y).ops
    BY <2>6 DEF Fitting, OpsOf
  <2> QED
    BY <2>2, <2>5, <2>7
<1> QED
  BY <1>1, <1>2

\* A call that passed, or ended the command, and has changed and refreshed nothing.
LEMMA GoesOn ==
    ASSUME NEW x, WellFormed(x.cmd), x.at \in Nat \ {0}, x.code = "run", NEW z, Alike(x, z), NEW y,
           \/ y = Advance(z) /\ Passed(CallAt(x))
           \/ \E code \in Codes \ {"idle", "run"} : y = Exit(z, code)
    PROVE  Moves(x, y)
<1>1. CASE y = Advance(z) /\ Passed(CallAt(x))
  <2>1. PICK n \in Nat : n = 1 /\ y = Skip(z, n)
    BY <1>1 DEF Advance
  <2>2. /\ DOMAIN z = Fields /\ WellFormed(z.cmd) /\ z.at \in Nat \ {0} /\ z.code = "run"
        /\ z.cmd = x.cmd /\ z.at = x.at /\ z.changed = x.changed /\ z.refreshed = x.refreshed
    BY DEF Alike
  <2>3. /\ DOMAIN y = Fields /\ y.cmd = z.cmd /\ y.changed = z.changed /\ y.refreshed = z.refreshed
        /\ y.code \in {"run", "ok"}
        /\ y.code = "run" =>
             /\ y.at = z.at + n /\ y.at \in DOMAIN ProgramOf(y)
             /\ CallAt(y).call = "batch" => y.sub \in DOMAIN CallAt(y).ops
    BY <2>1, <2>2, SkipIs
  <2>4. y.code = "run" => y.at = x.at + 1
    BY <2>1, <2>2, <2>3
  <2> QED
    BY <1>1, <2>2, <2>3, <2>4 DEF Moves
<1>2. CASE \E code \in Codes \ {"idle", "run"} : y = Exit(z, code)
  <2>1. PICK code \in Codes \ {"idle", "run"} : y = [z EXCEPT !.code = code]
    BY <1>2 DEF Exit
  <2>2. DOMAIN y = Fields /\ y.code = code /\ y.cmd = x.cmd /\ y.changed = x.changed
        /\ y.refreshed = x.refreshed
    BY <2>1 DEF Alike, Fields
  <2> QED
    BY <2>2 DEF Moves
<1> QED
  BY <1>1, <1>2

\* No check of a change passes for a directory towards a mount.
LEMMA ChecksClear ==
    ASSUME NEW c, NEW checks, ChecksOf(c, checks),
           \A k \in DOMAIN checks : Ok(CheckPathOp(world, checks[k][1], checks[k][2])),
           NEW p \in Range(c.paths)
    PROVE  ~IsSyntheticPrefix(p)
<1>1. PICK k \in DOMAIN checks : checks[k][2] = p /\ checks[k][1] \in {"write", "mkdir", "remove"}
  BY DEF ChecksOf
<1>2. Ok(CheckPathOp(world, checks[k][1], p))
  BY <1>1
<1>3. PICK op : op = checks[k][1]
  OBVIOUS
<1>4. op \in {"write", "mkdir", "remove"} /\ Ok(CheckPathOp(world, op, p))
  BY <1>1, <1>2, <1>3
<1>5. IsSyntheticPrefix(p) => CheckPathOp(world, op, p) = "unsupported"
  BY <1>4 DEF CheckPathOp
<1> QED
  BY <1>4, <1>5 DEF Ok

\* What refuses a batch, where no operation is on a directory towards a mount.
LEMMA SortingIs ==
    ASSUME NEW ops, NEW n \in Nat \ {0}, DOMAIN ops = 1 .. n,
           \A i \in 1 .. n : ~IsSyntheticPrefix(ops[i].path)
    PROVE  LET mounted == {i \in 1 .. n : IsMounted(ops[i].path)}
               rest == IF mounted = 1 .. n
                       THEN ValidateMountedMutationBatch(MountOf(ops[1].path), ops)
                       ELSE Ensure(mounted = {}, "denied")
           IN \/ BatchError(ops) = "denied"
              \/ /\ BatchError(ops) = rest
                 /\ \A i, j \in mounted : MountOf(ops[j].path) = MountOf(ops[i].path)
<1>1. PICK mounted : mounted = {i \in 1 .. n : IsMounted(ops[i].path)}
  OBVIOUS
<1>2. PICK rest : rest = IF mounted = 1 .. n
                         THEN ValidateMountedMutationBatch(MountOf(ops[1].path), ops)
                         ELSE Ensure(mounted = {}, "denied")
  OBVIOUS
<1>3. PICK sorting : sorting = [i \in 1 .. n |-> SortingError(ops, i)]
  OBVIOUS
<1>4. DOMAIN sorting = 1 .. n /\ \A i \in 1 .. n : sorting[i] = SortingError(ops, i)
  BY <1>3
<1>5. \A i \in 1 .. n :
        sorting[i] = IF \A j \in 1 .. (i - 1) : ~(/\ IsMounted(ops[j].path) /\ IsMounted(ops[i].path)
                                                /\ MountOf(ops[j].path) # MountOf(ops[i].path))
                     THEN "ok" ELSE "denied"
  BY <1>4 DEF SortingError, Ensure
<1>6. PICK first : first = FirstError(sorting)
  OBVIOUS
<1>7. first \in {"ok", "denied"}
  <2>1. PICK S : S = {"ok", "denied"}
    OBVIOUS
  <2>2. \A i \in 1 .. n : sorting[i] \in S
    BY <1>5, <2>1
  <2>3. n \in Nat /\ "ok" \in S
    BY <2>1
  <2>4. FirstError(sorting) \in S
    BY <1>4, <2>2, <2>3, FirstErrorIn
  <2> QED
    BY <1>6, <2>1, <2>4
<1>8. BatchError(ops) = FirstError(<<first, rest>>)
  BY <1>1, <1>2, <1>3, <1>6 DEF BatchError
<1>9. BatchError(ops) = IF Ok(first) THEN rest ELSE first
  BY <1>8, FirstOfTwo
<1>10. CASE ~Ok(first)
  BY <1>7, <1>9, <1>10 DEF Ok
<1>11. CASE Ok(first)
  <2>1. \A i \in 1 .. n : Ok(sorting[i])
    BY <1>4, <1>6, <1>11, AllChecksGood
  <2>2. \A i \in 1 .. n : \A j \in 1 .. (i - 1) : i \in mounted /\ j \in mounted => MountOf(ops[j].path) = MountOf(ops[i].path)
    BY <1>1, <1>5, <2>1 DEF Ok
  <2>3. \A i, j \in mounted : j < i \/ i < j \/ i = j
    BY <1>1
  <2>4. \A i, j \in mounted : MountOf(ops[j].path) = MountOf(ops[i].path)
    BY <1>1, <2>2, <2>3
  <2> QED
    BY <1>1, <1>2, <1>9, <1>11, <2>4
<1> QED
  BY <1>10, <1>11

\* A batch that is not denied, of paths of which none is a directory towards a
\* mount, is of one mount or of none.
LEMMA BatchOneMount ==
    ASSUME NEW c, WellFormed(c), NEW ops, OpsOf(c, ops), BatchError(ops) # "denied",
           \A p \in Range(c.paths) : ~IsSyntheticPrefix(p)
    PROVE  OneMount(c)
<1>1. PICK n \in Nat \ {0} : DOMAIN ops = 1 .. n
  BY DEF OpsOf
<1>2. /\ \A k \in 1 .. n : ops[k].path \in Range(c.paths) /\ ops[k].path \in Paths
      /\ \A p \in Range(c.paths) : \E k \in 1 .. n : ops[k].path = p
  BY <1>1, PathsOf DEF OpsOf, OpOf
<1>3. PICK mounted : mounted = {i \in 1 .. n : IsMounted(ops[i].path)}
  OBVIOUS
<1>4. PICK rest : rest = IF mounted = 1 .. n
                         THEN ValidateMountedMutationBatch(MountOf(ops[1].path), ops)
                         ELSE Ensure(mounted = {}, "denied")
  OBVIOUS
<1>5. /\ BatchError(ops) = rest
      /\ \A i, j \in mounted : MountOf(ops[j].path) = MountOf(ops[i].path)
  BY <1>1, <1>2, <1>3, <1>4, SortingIs
<1>6. mounted = {} \/ mounted = 1 .. n
  BY <1>4, <1>5 DEF Ensure
<1>7. CASE mounted = {}
  <2>1. \A p \in Range(c.paths) : ~IsMounted(p)
    BY <1>2, <1>3, <1>7
  <2> QED
    BY <2>1, NoMountOf DEF OneMount
<1>8. CASE mounted = 1 .. n
  <2>1. ASSUME NEW p \in Range(c.paths), NEW q \in Range(c.paths)
        PROVE  Match(p) = Match(q)
    <3>1. PICK i, j \in 1 .. n : ops[i].path = p /\ ops[j].path = q
      BY <1>2
    <3>2. MountOf(p) = MountOf(q) /\ IsMounted(p) /\ IsMounted(q)
      BY <1>3, <1>5, <1>8, <3>1
    <3> QED
      BY <1>2, <3>1, <3>2, MountOfIs
  <2> QED
    BY <2>1 DEF OneMount
<1> QED
  BY <1>6, <1>7, <1>8

\* No such move breaks the invariant.
LEMMA MovesKeep ==
    ASSUME NEW x, NEW commands, \A c \in commands : WellFormed(c),
           ExecInv(x, commands, world.allowWrite), x.code = "run", NEW y, Moves(x, y)
    PROVE  ExecInv(y, commands, world.allowWrite)
<1> DEFINE c == x.cmd
           call == CallAt(x)
<1>1. WellFormed(c) /\ x.at \in Nat \ {0} /\ Fitting(c, call, x.at) /\ c \in commands
  BY AtCall DEF ExecInv, Placed
<1>2. y.cmd = c /\ DOMAIN y = Fields /\ y.code # "idle"
  BY DEF Moves
<1>3. Placed(y, commands)
  BY <1>1, <1>2 DEF Placed, Moves
<1>4. ASSUME y.code = "run"
      PROVE  \/ y.at = x.at + 1 /\ Passed(call)
             \/ y.at = x.at + 2 /\ call.call = "probe" /\ c.name = "touch" /\ x.at > AllowedAt(c)
             \/ y.at = x.at
  BY <1>1, <1>4 DEF Moves, Fitting
<1> HIDE DEF c, call
<1>5. ASSUME y.code = "run", c.name \in Batched, y.at > 3
      PROVE  \A p \in Range(c.paths) : ~IsSyntheticPrefix(p)
  <2>1. CASE x.at > 3
    BY <1>5, <2>1 DEF ExecInv, Cleared, c
  <2>2. CASE ~(x.at > 3)
    <3>1. y.at = x.at + 1 /\ Passed(call) /\ x.at = 3
      BY <1>1, <1>4, <1>5, <2>2 DEF Batched
    <3>2. call.call = "preflight" /\ ChecksOf(c, call.checks)
      BY <1>1, <1>5, <3>1 DEF Fitting
    <3>3. Numbered(call.checks)
      BY <3>2 DEF ChecksOf
    <3> QED
      BY <3>1, <3>2, <3>3, ChecksClear DEF Passed
  <2> QED
    BY <2>1, <2>2
<1>6. ASSUME y.code = "run", c.name \in Writers, y.at > AllowedAt(c)
      PROVE  world.allowWrite
  <2>1. CASE x.at > AllowedAt(c)
    BY <1>6, <2>1 DEF ExecInv, Cleared, c
  <2>2. CASE ~(x.at > AllowedAt(c))
    <3>1. y.at = x.at + 1 /\ Passed(call) /\ x.at = AllowedAt(c)
      BY <1>1, <1>4, <1>6, <2>2 DEF AllowedAt
    <3>2. call.call = "allowed"
      BY <1>1, <1>6, <3>1 DEF Fitting
    <3> QED
      BY <3>1, <3>2 DEF Passed
  <2> QED
    BY <2>1, <2>2
<1>7. Cleared(y, world.allowWrite)
  BY <1>2, <1>5, <1>6 DEF Cleared
<1>8. ASSUME c.name \in Batched, call.call = "batch", BatchError(call.ops) # "denied"
      PROVE  OneMount(c)
  <2>1. x.at > 3 /\ OpsOf(c, call.ops)
    BY <1>1, <1>8 DEF Fitting, BatchAt
  <2>2. \A p \in Range(c.paths) : ~IsSyntheticPrefix(p)
    BY <1>8, <2>1 DEF ExecInv, Cleared, c
  <2> QED
    BY <1>1, <1>8, <2>1, <2>2, BatchOneMount
<1>9. ASSUME c.name \in Batched, x.at > BatchAt(c)
      PROVE  OneMount(c)
  BY <1>9 DEF ExecInv, Whole, c
<1>10. ASSUME y.code = "run", c.name \in Batched, y.at > BatchAt(c)
       PROVE  OneMount(c)
  <2>1. CASE x.at > BatchAt(c)
    BY <1>9, <1>10, <2>1
  <2>2. CASE ~(x.at > BatchAt(c))
    <3>1. y.at = x.at + 1 /\ Passed(call) /\ x.at = BatchAt(c)
      BY <1>1, <1>4, <1>10, <2>2 DEF BatchAt, Batched
    <3>2. call.call = "batch"
      BY <1>1, <1>10, <3>1 DEF Fitting
    <3> QED
      BY <1>8, <1>10, <3>1, <3>2 DEF Passed
  <2> QED
    BY <2>1, <2>2
<1>11. ASSUME c.name \in Batched, y.changed # {}
       PROVE  OneMount(c)
  <2>1. CASE y.changed = x.changed
    BY <1>11, <2>1 DEF ExecInv, Whole, c
  <2>2. CASE call.call = "call"
    BY <1>1, <1>9, <1>11, <2>2 DEF Fitting
  <2>3. CASE call.call = "batch" /\ Ok(BatchError(call.ops))
    BY <1>8, <1>11, <2>3 DEF Ok
  <2> QED
    BY <2>1, <2>2, <2>3 DEF Moves, call
<1>12. Whole(y)
  BY <1>2, <1>10, <1>11 DEF Whole
<1>13. ASSUME y.code \in {"run", "ok"}, c.name = "refresh", c.all, NEW p \in y.refreshed
       PROVE  IsWithinRefreshRequestScope(p, Range(c.paths))
  <2>1. CASE p \in x.refreshed
    BY <1>13, <2>1 DEF ExecInv, Narrow, c
  <2>2. CASE p \notin x.refreshed
    <3>1. call.call = "refresh" /\ (call.narrow => IsWithinRefreshRequestScope(p, call.targets))
      BY <1>13, <2>2 DEF Moves, call
    <3>2. call.narrow /\ call.targets \subseteq Range(c.paths)
      BY <1>1, <1>13, <3>1 DEF Fitting
    <3> QED
      BY <3>1, <3>2 DEF IsWithinRefreshRequestScope
  <2> QED
    BY <2>1, <2>2
<1>14. Narrow(y)
  BY <1>2, <1>13 DEF Narrow
<1> QED
  BY <1>3, <1>7, <1>12, <1>14 DEF ExecInv

-----------------------------------------------------------------------------
(***************************************************************************)
(* Every step of an execution is such a move, and what it leaves.          *)
(***************************************************************************)

\* One execution has moved and the others have not.
OnlyMoves(e) ==
    /\ DOMAIN execs' = Execs
    /\ \A d \in Execs : d # e => execs'[d] = execs[d]
    /\ Running(e) /\ Moves(execs[e], execs'[e])

\* A step that moves one execution moves no other.
LEMMA StepIs ==
    ASSUME NEW e \in Execs, DOMAIN execs = Execs, Running(e), NEW y, Step(e, y), Moves(execs[e], y)
    PROVE  OnlyMoves(e)
<1>1. execs' = [execs EXCEPT ![e] = y]
  BY DEF Step
<1>2. DOMAIN execs' = Execs /\ execs'[e] = y /\ \A d \in Execs : d # e => execs'[d] = execs[d]
  BY <1>1
<1> QED
  BY <1>2 DEF OnlyMoves

\* The calls that only read move their execution and leave the world alone.
LEMMA ReadsMove ==
    ASSUME NEW e \in Execs, DOMAIN execs = Execs, Placed(execs[e], Commands[e]),
           \/ DoRequire(e) \/ DoAllowed(e) \/ DoPreflight(e) \/ DoRead(e) \/ DoLook(e)
           \/ DoUnique(e) \/ DoFits(e) \/ DoGroup(e)
    PROVE  OnlyMoves(e) /\ world' = world
<1> DEFINE x == execs[e]
           Good(y) == \E z : /\ Alike(x, z)
                             /\ \/ y = Advance(z) /\ Passed(CallAt(x))
                                \/ \E code \in Codes \ {"idle", "run"} : y = Exit(z, code)
<1>1. Running(e)
  BY DEF DoRequire, DoAllowed, DoPreflight, DoRead, DoLook, DoUnique, DoFits, DoGroup, IsCall
<1>2. WellFormed(x.cmd) /\ x.at \in Nat \ {0} /\ x.code = "run" /\ DOMAIN x = Fields
  BY <1>1, AtCall, CommandsAssumption DEF Running
<1>3. CallOf(e) = CallAt(x)
  BY DEF CallOf, CallAt
<1>4. \A t : Alike(x, [x EXCEPT !.trace = t])
  BY <1>2 DEF Alike, Fields
<1>5. Alike(x, x)
  BY <1>2 DEF Alike
<1>6. \A y : Good(y) => Moves(x, y)
  BY <1>2, GoesOn
<1> HIDE DEF x, Good
<1>7. ASSUME NEW y, Good(y), Reads(e, y)
      PROVE  OnlyMoves(e) /\ world' = world
  <2>1. Moves(x, y) /\ Step(e, y) /\ world' = world
    BY <1>6, <1>7 DEF Reads
  <2> QED
    BY <1>1, <2>1, StepIs DEF x
<1>8. {"ok", "usage", "unsupported", "general"} \subseteq Codes \ {"idle", "run"}
  BY DEF Codes
<1>9. ASSUME NEW z, Alike(x, z)
      PROVE  /\ Passed(CallAt(x)) => Good(Advance(z))
             /\ Good(Exit(z, "usage")) /\ Good(Exit(z, "unsupported")) /\ Good(Exit(z, "general"))
             /\ \A err : Good(Exit(z, Code(err)))
             /\ \A err : (Ok(err) => Passed(CallAt(x))) => Good(AfterError(z, err))
  <2>1. Passed(CallAt(x)) => Good(Advance(z))
    BY <1>9 DEF Good
  <2>2. \A code \in Codes \ {"idle", "run"} : Good(Exit(z, code))
    BY <1>9 DEF Good
  <2>3. \A err : Code(err) \in {"unsupported", "general"}
    BY DEF Code
  <2> QED
    BY <1>8, <2>1, <2>2, <2>3 DEF AfterError
<1>10. CASE DoRequire(e)
  <2>1. Passed(CallAt(x))
    BY <1>3, <1>10 DEF DoRequire, IsCall, Passed
  <2>2. Reads(e, Exit(x, "usage")) \/ Reads(e, Advance(x))
    BY <1>10 DEF DoRequire, x
  <2> QED
    BY <1>5, <1>7, <1>9, <2>1, <2>2
<1>11. CASE DoAllowed(e)
  <2>1. CASE world.allowWrite
    <3>1. Passed(CallAt(x)) /\ Reads(e, Advance(x))
      BY <1>3, <1>11, <2>1 DEF DoAllowed, IsCall, Passed, x
    <3> QED
      BY <1>5, <1>7, <1>9, <3>1
  <2>2. CASE ~world.allowWrite
    <3>1. PICK t : Reads(e, Exit([x EXCEPT !.trace = t], "unsupported"))
      BY <1>11, <2>2 DEF DoAllowed, x
    <3> QED
      BY <1>4, <1>7, <1>9, <3>1
  <2> QED
    BY <2>1, <2>2
<1>12. CASE DoPreflight(e)
  <2>1. PICK checks : checks = CallOf(e).checks
    OBVIOUS
  <2>2. PICK errors : errors = Map(checks, LAMBDA check : CheckPathOp(world, check[1], check[2]))
    OBVIOUS
  <2>3. PICK t : Reads(e, AfterError([x EXCEPT !.trace = t], FirstError(errors)))
    BY <1>12, <2>1, <2>2, Zenon DEF DoPreflight, x
  <2>4. ASSUME Ok(FirstError(errors))
        PROVE  Passed(CallAt(x))
    <3>1. ASSUME NEW n \in Nat, DOMAIN checks = 1 .. n
          PROVE  \A k \in DOMAIN checks : Ok(CheckPathOp(world, checks[k][1], checks[k][2]))
      <4>1. DOMAIN errors = 1 .. n
        BY <2>2, <3>1 DEF Map
      <4>2. \A k \in 1 .. n : Ok(errors[k])
        BY <2>4, <4>1, AllChecksGood
      <4> QED
        BY <2>2, <3>1, <4>2 DEF Map
    <3> QED
      BY <1>3, <1>12, <2>1, <3>1 DEF DoPreflight, IsCall, Passed, Numbered
  <2> QED
    BY <1>4, <1>7, <1>9, <2>3, <2>4
<1>13. CASE DoRead(e)
  <2>1. Passed(CallAt(x))
    BY <1>3, <1>13 DEF DoRead, IsCall, Passed
  <2>2. PICK y : /\ DOMAIN y = Fields /\ Alike(x, y)
                 /\ \/ Reads(e, Advance(y))
                    \/ \E err : Reads(e, Exit(y, Code(err)))
                    \/ Reads(e, Exit(y, "general"))
    <3>1. PICK t, text : t = TraceRead(x.trace, CallOf(e).path, ReadRawContent(world, CallOf(e).path).err)
                         /\ text = ReadRawContent(world, CallOf(e).path).text
      OBVIOUS
    <3>2. PICK y : y = [x EXCEPT !.text = text, !.trace = t]
      OBVIOUS
    <3>3. DOMAIN y = Fields /\ Alike(x, y)
      BY <1>2, <3>2 DEF Alike, Fields
    <3>4. PICK err : err = ReadRawContent(world, CallOf(e).path).err
      OBVIOUS
    <3>5. Reads(e, IF Ok(err) THEN Advance(y)
                   ELSE Exit(y, IF x.cmd.name \in {"edit", "count"} THEN Code(err) ELSE "general"))
      BY <1>13, <3>1, <3>2, <3>4 DEF DoRead, x
    <3>6. \/ Reads(e, Advance(y)) \/ Reads(e, Exit(y, Code(err))) \/ Reads(e, Exit(y, "general"))
      BY <3>5
    <3> QED
      BY <3>3, <3>6
  <2> QED
    BY <1>7, <1>9, <2>1, <2>2
<1>14. CASE DoLook(e)
  <2>1. Passed(CallAt(x))
    BY <1>3, <1>14 DEF DoLook, IsCall, Passed
  <2>2. PICK t : Reads(e, Advance([x EXCEPT !.trace = t]))
    BY <1>14, Zenon DEF DoLook, x
  <2> QED
    BY <1>4, <1>7, <1>9, <2>1, <2>2
<1>15. CASE DoUnique(e) \/ DoFits(e) \/ DoGroup(e)
  <2>1. Passed(CallAt(x))
    BY <1>3, <1>15 DEF DoUnique, DoFits, DoGroup, IsCall, Passed
  <2>2. Reads(e, Exit(x, "general")) \/ Reads(e, Advance(x))
    BY <1>15 DEF DoUnique, DoFits, DoGroup, x
  <2> QED
    BY <1>5, <1>7, <1>9, <2>1, <2>2
<1> QED
  BY <1>10, <1>11, <1>12, <1>13, <1>14, <1>15

\* So does touch, which passes over what can be read, and a refresh, which keeps
\* what it has not refused within its targets.
LEMMA ProbeMoves ==
    ASSUME NEW e \in Execs, DOMAIN execs = Execs, Placed(execs[e], Commands[e]), DoProbe(e)
    PROVE  OnlyMoves(e) /\ world' = world
<1> DEFINE x == execs[e]
<1>1. Running(e)
  BY DEF DoProbe, IsCall
<1>2. WellFormed(x.cmd) /\ x.at \in Nat \ {0} /\ x.code = "run" /\ DOMAIN x = Fields
  BY <1>1, AtCall, CommandsAssumption DEF Running
<1>3. CallAt(x).call = "probe"
  BY DEF DoProbe, IsCall, CallOf, CallAt
<1>4. PICK err, t : Reads(e, CASE Ok(err) -> Skip([x EXCEPT !.trace = t], 2)
                                [] IsPathMissing(err) -> Advance([x EXCEPT !.trace = t])
                                [] OTHER -> Exit([x EXCEPT !.trace = t], "general"))
  BY DEF DoProbe
<1>5. PICK z : z = [x EXCEPT !.trace = t]
  OBVIOUS
<1>6. Alike(x, z)
  BY <1>2, <1>5 DEF Alike, Fields
<1>7. PICK y : y = CASE Ok(err) -> Skip(z, 2)
                     [] IsPathMissing(err) -> Advance(z)
                     [] OTHER -> Exit(z, "general")
  OBVIOUS
<1>8. Reads(e, y)
  BY <1>4, <1>5, <1>7
<1>9. CASE Ok(err)
  <2>1. PICK n \in Nat : n = 2 /\ y = Skip(z, n)
    <3>1. y = Skip(z, 2)
      BY <1>7, <1>9 DEF Ok, IsPathMissing
    <3> QED
      BY <3>1
  <2>2. /\ DOMAIN z = Fields /\ WellFormed(z.cmd) /\ z.at \in Nat \ {0} /\ z.code = "run"
        /\ z.cmd = x.cmd /\ z.at = x.at /\ z.changed = x.changed /\ z.refreshed = x.refreshed
    BY <1>2, <1>6 DEF Alike
  <2>3. /\ DOMAIN y = Fields /\ y.cmd = z.cmd /\ y.changed = z.changed /\ y.refreshed = z.refreshed
        /\ y.code \in {"run", "ok"}
        /\ y.code = "run" =>
             /\ y.at = z.at + n /\ y.at \in DOMAIN ProgramOf(y)
             /\ CallAt(y).call = "batch" => y.sub \in DOMAIN CallAt(y).ops
    BY <2>1, <2>2, SkipIs
  <2>4. y.code = "run" => y.at = x.at + 2
    BY <2>1, <2>2, <2>3
  <2> QED
    BY <1>1, <1>3, <1>8, <2>2, <2>3, <2>4, StepIs DEF Moves, Reads
<1>10. CASE ~Ok(err)
  <2>1. y = Advance(z) \/ y = Exit(z, "general")
    BY <1>7, <1>10
  <2>2. Passed(CallAt(x)) /\ "general" \in Codes \ {"idle", "run"}
    BY <1>3 DEF Passed, Codes
  <2>3. Moves(x, y)
    BY <1>2, <1>6, <2>1, <2>2, GoesOn
  <2> QED
    BY <1>1, <1>8, <2>3, StepIs DEF Reads
<1> QED
  BY <1>9, <1>10

\* A refresh that is not refused has stayed within its targets, when it is narrow
\* (ensureRefreshResultScope).
LEMMA RefreshMoves ==
    ASSUME NEW e \in Execs, DOMAIN execs = Execs, Placed(execs[e], Commands[e]), DoRefresh(e)
    PROVE  OnlyMoves(e) /\ world' = world
<1> DEFINE x == execs[e]
           targets == CallOf(e).targets
           narrow == CallOf(e).narrow
<1>1. Running(e)
  BY DEF DoRefresh, IsCall
<1>2. WellFormed(x.cmd) /\ x.at \in Nat \ {0} /\ x.code = "run" /\ DOMAIN x = Fields
  BY <1>1, AtCall, CommandsAssumption DEF Running
<1>3. CallAt(x).call = "refresh" /\ CallAt(x) = CallOf(e)
  BY DEF DoRefresh, IsCall, CallOf, CallAt
<1>4. PICK m : m = MountOf(CHOOSE p \in targets : TRUE)
  OBVIOUS
<1>5. Passed(CallAt(x))
  BY <1>3 DEF Passed
<1>6. CASE ~Ok(RefreshMountRefused(m, targets, narrow))
  <2>1. PICK code \in Codes \ {"idle", "run"} : Reads(e, Exit(x, code))
    <3>1. Reads(e, Exit(x, Code(RefreshMountRefused(m, targets, narrow))))
      BY <1>4, <1>6 DEF DoRefresh
    <3> QED
      BY <3>1 DEF Code, Codes
  <2>2. Moves(x, Exit(x, code))
    BY <1>2, GoesOn DEF Alike
  <2> QED
    BY <1>1, <2>1, <2>2, StepIs DEF Reads
<1>7. CASE /\ Ok(RefreshMountRefused(m, targets, narrow))
           /\ \E err \in {"plain", "unsupported"} : Reads(e, Exit(x, Code(err)))
  <2>1. PICK code \in Codes \ {"idle", "run"} : Reads(e, Exit(x, code))
    BY <1>7 DEF Code, Codes
  <2>2. Moves(x, Exit(x, code))
    BY <1>2, GoesOn DEF Alike
  <2> QED
    BY <1>1, <2>1, <2>2, StepIs DEF Reads
<1>8. CASE /\ Ok(RefreshMountRefused(m, targets, narrow))
           /\ ~\E err \in {"plain", "unsupported"} : Reads(e, Exit(x, Code(err)))
  <2>1. PICK result :
          LET took == EffectiveTargets(targets, result) \cup result.refreshed
              err == RefreshResultError(m, targets, narrow, result)
          IN Reads(e, AfterError([x EXCEPT !.refreshed = x.refreshed \cup took], err))
    BY <1>4, <1>8 DEF DoRefresh
  <2>2. PICK took : took = EffectiveTargets(targets, result) \cup result.refreshed
    OBVIOUS
  <2>3. PICK err : err = RefreshResultError(m, targets, narrow, result)
    OBVIOUS
  <2>4. PICK z : z = [x EXCEPT !.refreshed = x.refreshed \cup took]
    OBVIOUS
  <2>5. PICK y : y = AfterError(z, err)
    OBVIOUS
  <2>6. Reads(e, y)
    BY <2>1, <2>2, <2>3, <2>4, <2>5
  <2>7. /\ DOMAIN z = Fields /\ z.cmd = x.cmd /\ z.at = x.at /\ z.code = "run"
        /\ z.changed = x.changed /\ z.refreshed = x.refreshed \cup took
    BY <1>2, <2>4 DEF Fields
  <2>8. CASE Ok(err)
    <3>1. narrow => \A p \in took : IsWithinRefreshRequestScope(p, targets)
      BY <2>2, <2>3, <2>8 DEF RefreshResultError, MustBeNarrow, ScopedRefreshResult, MountUnsupported, Ok
    <3>2. PICK n \in Nat : n = 1 /\ y = Skip(z, n)
      BY <2>5, <2>8 DEF AfterError, Advance
    <3>3. /\ DOMAIN y = Fields /\ y.cmd = z.cmd /\ y.changed = z.changed /\ y.refreshed = z.refreshed
          /\ y.code \in {"run", "ok"}
          /\ y.code = "run" =>
               /\ y.at = z.at + n /\ y.at \in DOMAIN ProgramOf(y)
               /\ CallAt(y).call = "batch" => y.sub \in DOMAIN CallAt(y).ops
      BY <1>2, <2>7, <3>2, SkipIs
    <3>4. y.code = "run" => y.at = x.at + 1
      BY <2>7, <3>2, <3>3
    <3>5. Moves(x, y)
      BY <1>3, <1>5, <2>7, <3>1, <3>3, <3>4 DEF Moves
    <3> QED
      BY <1>1, <2>6, <3>5, StepIs DEF Reads
  <2>9. CASE ~Ok(err)
    <3>1. y = [z EXCEPT !.code = Code(err)] /\ Code(err) \in {"unsupported", "general"}
      BY <2>5, <2>9 DEF AfterError, Exit, Code
    <3>2. DOMAIN y = Fields /\ y.cmd = x.cmd /\ y.changed = x.changed /\ y.code \in {"unsupported", "general"}
      BY <2>7, <3>1 DEF Fields
    <3>3. Moves(x, y)
      BY <3>2 DEF Moves
    <3> QED
      BY <1>1, <2>6, <3>3, StepIs DEF Reads
  <2> QED
    BY <2>8, <2>9
<1> QED
  BY <1>6, <1>7, <1>8

-----------------------------------------------------------------------------
(***************************************************************************)
(* The calls that change something.                                        *)
(***************************************************************************)

\* A call of the file system leaves everything but the host.
HostOnly(w, v) ==
    /\ Shaped(v) /\ v.data = w.data /\ v.adapter = w.adapter /\ v.allowWrite = w.allowWrite

\* So a call that the router sends on to the file system leaves every tree of a mount.
LEMMA FsKeeps ==
    ASSUME NEW w, Shaped(w), NEW op, NEW fault
    PROVE  Answered(FsApply(w, op, fault)) /\ HostOnly(w, FsApply(w, op, fault).world)
<1>1. CASE fault = "fails"
  BY <1>1 DEF FsApply, Failed, Answered, HostOnly
<1>2. CASE fault # "fails"
  <2>1. PICK result : FsApply(w, op, fault) = WithHost(w, result)
    BY <1>2 DEF FsApply
  <2>2. Answered(WithHost(w, result)) /\ WithHost(w, result).world = [w EXCEPT !.host = result.host]
    BY DEF WithHost, Answered
  <2>3. HostOnly(w, [w EXCEPT !.host = result.host])
    BY DEF HostOnly, Shaped
  <2> QED
    BY <2>1, <2>2, <2>3
<1> QED
  BY <1>1, <1>2

\* What it results in but for the words of the host's error.
FsSame(result, r) ==
    /\ Answered(result) /\ result.world = r.world /\ result.records = r.records
    /\ Ok(result.err) <=> Ok(r.err)
    /\ result.err = r.err \/ (r.err = "plain" /\ result.err = "worded")

LEMMA FsResultIs ==
    ASSUME NEW w, Shaped(w), NEW op, NEW fault, NEW result \in FsResults(w, op, fault)
    PROVE  FsSame(result, FsApply(w, op, fault))
<1>1. PICK r : r = FsApply(w, op, fault)
  OBVIOUS
<1>2. Answered(r)
  BY <1>1, FsKeeps
<1>3. result = r \/ (r.err = "plain" /\ result = [r EXCEPT !.err = "worded"])
  BY <1>1 DEF FsResults, Worded
<1>4. CASE result = r
  BY <1>1, <1>2, <1>4 DEF FsSame
<1>5. CASE r.err = "plain" /\ result = [r EXCEPT !.err = "worded"]
  <2>1. /\ Answered(result) /\ result.err = "worded" /\ result.world = r.world
        /\ result.records = r.records
    BY <1>2, <1>5 DEF Answered
  <2> QED
    BY <1>1, <1>5, <2>1 DEF FsSame, Ok
<1> QED
  BY <1>3, <1>4, <1>5

\* What one call may make of the world.
Leaves(w, v, c) ==
    \/ MountsOnly(w, v)
    \/ \E op, fault : OpOf(c, op) /\ fault \in Faults /\ v = FsApply(w, op, fault).world

\* Where a single change goes: to the mount of its path, to the file system, or nowhere.
LEMMA MutateLeaves ==
    ASSUME NEW w, Shaped(w), NEW c, WellFormed(c), NEW op, OpOf(c, op), NEW fault \in Faults,
           NEW result \in Mutate(w, op, fault)
    PROVE  Answered(result) /\ Leaves(w, result.world, c)
<1>1. op.path \in Paths
  BY PathsOf DEF OpOf
<1>2. CASE IsSyntheticPrefix(op.path)
  <2>1. result = Failed(w, "unsupported")
    BY <1>2 DEF Mutate
  <2> QED
    BY <2>1 DEF Failed, Answered, Leaves, MountsOnly
<1>3. CASE ~IsSyntheticPrefix(op.path) /\ IsMounted(op.path)
  <2>1. result \in MountBatch(w, <<op>>)
    BY <1>3 DEF Mutate
  <2>2. PICK ops : ops = <<op>>
    OBVIOUS
  <2>3. ops[1].path = op.path
    BY <2>2
  <2> QED
    BY <1>1, <1>3, <2>1, <2>2, <2>3, BatchKeeps DEF Leaves
<1>4. CASE ~IsSyntheticPrefix(op.path) /\ ~IsMounted(op.path)
  <2>1. result \in FsResults(w, op, fault)
    BY <1>4 DEF Mutate
  <2>2. FsSame(result, FsApply(w, op, fault))
    BY <2>1, FsResultIs
  <2> QED
    BY <2>2 DEF Leaves, FsSame
<1> QED
  BY <1>2, <1>3, <1>4

\* A world that stays has no changes.
LEMMA NoChange ==
    ASSUME NEW ops
    PROVE  ChangedBy(world, ops) = {}
  BY DEF ChangedBy

\* The effect of a call on its execution: what it has changed is added to it.
LEMMA EffectMoves ==
    ASSUME NEW e \in Execs, DOMAIN execs = Execs, Running(e), NEW z, Moves(execs[e], z),
           NEW ops, NEW made, NEW result, Effect(e, z, ops, made, result),
           \/ CallAt(execs[e]).call = "call"
           \/ CallAt(execs[e]).call = "batch" /\ Ok(BatchError(CallAt(execs[e]).ops))
           \/ result.world = world
    PROVE  OnlyMoves(e) /\ world' = result.world
<1>1. PICK S : S = z.changed \cup ChangedBy(result.world, ops)
  OBVIOUS
<1>h. PICK H : H = z.hidden \cup HiddenBy(made, result.err)
  OBVIOUS
<1>2. PICK y : y = [z EXCEPT !.changed = S, !.hidden = H]
  OBVIOUS
<1>3. Step(e, y) /\ world' = result.world
  BY <1>1, <1>h, <1>2 DEF Effect
<1>4. /\ DOMAIN y = Fields /\ y.cmd = z.cmd /\ y.at = z.at /\ y.sub = z.sub /\ y.code = z.code
      /\ y.text = z.text /\ y.refreshed = z.refreshed /\ y.changed = S
  BY <1>2 DEF Moves, Fields
<1>5. ProgramOf(y) = ProgramOf(z) /\ CallAt(y) = CallAt(z)
  BY <1>4 DEF ProgramOf, CallAt
<1>6. result.world = world => S = z.changed
  BY <1>1, NoChange
<1>7. Moves(execs[e], y)
  BY <1>4, <1>5, <1>6 DEF Moves
<1> QED
  BY <1>3, <1>7, StepIs

\* The world of a step, as the executions and the mounts see it.
StepOf(e) == OnlyMoves(e) /\ Leaves(world, world', execs[e].cmd)
Changing(e) == CallAt(execs[e]).call \in {"call", "batch"}

\* One change of a command, as its call by the router moves it on.
LEMMA CallMoves ==
    ASSUME NEW e \in Execs, DOMAIN execs = Execs, Placed(execs[e], Commands[e]), Shaped(world), DoCall(e)
    PROVE  StepOf(e) /\ Changing(e)
<1> DEFINE x == execs[e]
<1>1. Running(e)
  BY DEF DoCall, IsCall
<1>2. /\ WellFormed(x.cmd) /\ x.at \in Nat \ {0} /\ x.code = "run" /\ DOMAIN x = Fields
      /\ Fitting(x.cmd, CallAt(x), x.at)
  BY <1>1, AtCall, CommandsAssumption DEF Running
<1>3. CallAt(x).call = "call" /\ CallAt(x) = CallOf(e)
  BY DEF DoCall, IsCall, CallOf, CallAt
<1>4. PICK op : op = CallOf(e).op
  OBVIOUS
<1>5. OpOf(x.cmd, op)
  BY <1>2, <1>3, <1>4 DEF Fitting
<1>f. PICK fault \in Faults :
        \E result \in Mutate(world, op, fault) :
          Effect(e, AfterError([x EXCEPT !.trace = TraceMutate(x.trace, op, result.err)], result.err),
                 <<op>>, <<op>>, result)
  BY <1>4 DEF DoCall
<1>r. PICK result \in Mutate(world, op, fault) :
        Effect(e, AfterError([x EXCEPT !.trace = TraceMutate(x.trace, op, result.err)], result.err),
               <<op>>, <<op>>, result)
  BY <1>f
<1>6. PICK t : Effect(e, AfterError([x EXCEPT !.trace = t], result.err), <<op>>, <<op>>, result)
  BY <1>r
<1>7. Answered(result) /\ Leaves(world, result.world, x.cmd)
  BY <1>2, <1>5, MutateLeaves
<1>8. PICK z : z = [x EXCEPT !.trace = t]
  OBVIOUS
<1>9. Alike(x, z)
  BY <1>2, <1>8 DEF Alike, Fields
<1>10. Moves(x, AfterError(z, result.err))
  <2>1. Passed(CallAt(x))
    BY <1>3 DEF Passed
  <2>2. Code(result.err) \in Codes \ {"idle", "run"}
    BY DEF Code, Codes
  <2> QED
    BY <1>2, <1>9, <2>1, <2>2, GoesOn DEF AfterError
<1>11. OnlyMoves(e) /\ world' = result.world
  BY <1>1, <1>3, <1>6, <1>8, <1>10, EffectMoves
<1> QED
  BY <1>3, <1>7, <1>11 DEF StepOf, Changing

\* Where a batch leads: it ends the command, or goes on when nothing denied it.
LEMMA AfterBatchMoves ==
    ASSUME NEW x, WellFormed(x.cmd), x.at \in Nat \ {0}, x.code = "run", DOMAIN x = Fields,
           NEW batch, batch = CallAt(x), batch.call = "batch", NEW result,
           AllowsUnsupportedFallback(result.err) => BatchError(batch.ops) # "denied"
    PROVE  Moves(x, AfterBatch(x, batch, result))
<1>1. PICK t : t = TraceBatch(x.trace, batch.ops, result)
  OBVIOUS
<1>2. PICK z : z = [x EXCEPT !.trace = t]
  OBVIOUS
<1>3. Alike(x, z)
  BY <1>2 DEF Alike, Fields
<1>4. PICK y : y = AfterBatch(x, batch, result)
  OBVIOUS
<1>5. \/ y = Exit(z, "ok") \/ y = Exit(z, "general")
      \/ y = Advance(z) /\ AllowsUnsupportedFallback(result.err)
  <2>1. PICK good \in BOOLEAN :
          good = (~batch.strict \/ EnsureSuccessfulTransferRecords(result.records))
    OBVIOUS
  <2>2. y = CASE Ok(result.err) -> Exit(z, IF good THEN "ok" ELSE "general")
              [] AllowsUnsupportedFallback(result.err) -> Advance(z)
              [] OTHER -> Exit(z, "general")
    BY <1>1, <1>2, <1>4, <2>1 DEF AfterBatch
  <2> QED
    BY <2>1, <2>2 DEF Ok, AllowsUnsupportedFallback
<1>6. AllowsUnsupportedFallback(result.err) => Passed(CallAt(x))
  BY DEF Passed
<1>7. "ok" \in Codes \ {"idle", "run"} /\ "general" \in Codes \ {"idle", "run"}
  BY DEF Codes
<1>8. Moves(x, y)
  BY <1>3, <1>5, <1>6, <1>7, GoesOn
<1> QED
  BY <1>4, <1>8

\* A batch that one mount takes.
LEMMA MountBatchMoves ==
    ASSUME NEW e \in Execs, DOMAIN execs = Execs, Placed(execs[e], Commands[e]), Shaped(world), DoMountBatch(e)
    PROVE  StepOf(e) /\ Changing(e)
<1> DEFINE x == execs[e]
<1>1. Running(e)
  BY DEF DoMountBatch, IsCall
<1>2. /\ WellFormed(x.cmd) /\ x.at \in Nat \ {0} /\ x.code = "run" /\ DOMAIN x = Fields
      /\ Fitting(x.cmd, CallAt(x), x.at)
  BY <1>1, AtCall, CommandsAssumption DEF Running
<1>3. PICK batch : batch = CallOf(e)
  OBVIOUS
<1>4. CallAt(x).call = "batch" /\ CallAt(x) = batch
  BY <1>3 DEF DoMountBatch, IsCall, CallOf, CallAt
<1>5. OpsOf(x.cmd, batch.ops) /\ batch.ops[1].path \in Paths
  <2>1. OpsOf(x.cmd, batch.ops)
    BY <1>2, <1>4 DEF Fitting
  <2>2. 1 \in DOMAIN batch.ops
    BY <2>1 DEF OpsOf
  <2> QED
    BY <1>2, <2>1, <2>2, PathsOf DEF OpsOf, OpOf
<1>6. /\ Ok(BatchError(batch.ops)) => IsMounted(batch.ops[1].path)
      /\ \E result \in MountBatch(world, batch.ops) :
           Effect(e, AfterBatch(x, batch, result), batch.ops, batch.ops, result)
  BY <1>3 DEF DoMountBatch
<1>7. PICK result \in MountBatch(world, batch.ops) : Effect(e, AfterBatch(x, batch, result), batch.ops, batch.ops, result)
  BY <1>6
<1>8. Answered(result) /\ MountsOnly(world, result.world)
  BY <1>5, <1>6, BatchKeeps
<1>9. ~Ok(BatchError(batch.ops)) => result = Failed(world, BatchError(batch.ops))
  BY DEF MountBatch, UnlessRefused
<1>10. AllowsUnsupportedFallback(result.err) => BatchError(batch.ops) # "denied"
  <2>1. ASSUME BatchError(batch.ops) = "denied"
        PROVE  result.err = "denied"
    BY <1>9, <2>1 DEF Ok, Failed
  <2> QED
    BY <2>1 DEF AllowsUnsupportedFallback
<1>11. ~Ok(BatchError(batch.ops)) => result.world = world
  BY <1>9 DEF Failed
<1>12. Moves(x, AfterBatch(x, batch, result))
  BY <1>2, <1>4, <1>10, AfterBatchMoves
<1>13. OnlyMoves(e) /\ world' = result.world
  BY <1>1, <1>4, <1>7, <1>11, <1>12, EffectMoves
<1> QED
  BY <1>4, <1>8, <1>13 DEF StepOf, Changing, Leaves

\* A batch that goes on operation by operation in the file system.
LEMMA FsBatchMoves ==
    ASSUME NEW e \in Execs, DOMAIN execs = Execs, Placed(execs[e], Commands[e]), Shaped(world), DoFsBatch(e)
    PROVE  StepOf(e) /\ Changing(e)
<1> DEFINE x == execs[e]
<1>1. Running(e)
  <2>1. IsCall(e, "batch")
    BY Zenon DEF DoFsBatch
  <2> QED
    BY <2>1 DEF IsCall
<1>2. /\ WellFormed(x.cmd) /\ x.at \in Nat \ {0} /\ x.code = "run" /\ DOMAIN x = Fields
      /\ Fitting(x.cmd, CallAt(x), x.at)
  BY <1>1, AtCall, CommandsAssumption DEF Running
<1>3. PICK batch : batch = CallOf(e)
  OBVIOUS
<1>4. CallAt(x).call = "batch" /\ CallAt(x) = batch
  BY <1>3 DEF DoFsBatch, IsCall, CallOf, CallAt
<1>5. PICK i : i = x.sub
  OBVIOUS
<1>6. OpsOf(x.cmd, batch.ops) /\ i \in DOMAIN batch.ops
  BY <1>2, <1>4, <1>5 DEF Fitting, Placed
<1>7. PICK op : op = batch.ops[i]
  OBVIOUS
<1>8. OpOf(x.cmd, op)
  BY <1>6, <1>7 DEF OpsOf
<1>9. Ok(BatchError(batch.ops))
  BY <1>3 DEF DoFsBatch
<1>10. PICK fault \in Faults : \E result \in FsResults(world, op, fault) :
         LET whole == [result EXCEPT !.records = Records(batch.ops)]
         IN Effect(e, CASE ~Ok(result.err) -> AfterBatch(x, batch, result)
                        [] Ok(result.err) /\ i < Len(batch.ops) -> [x EXCEPT !.sub = i + 1]
                        [] OTHER -> AfterBatch(x, batch, whole),
                   <<op>>, SubSeq(batch.ops, 1, i), result)
  BY <1>3, <1>5, <1>7 DEF DoFsBatch
<1>11. PICK result \in FsResults(world, op, fault) :
         LET whole == [result EXCEPT !.records = Records(batch.ops)]
         IN Effect(e, CASE ~Ok(result.err) -> AfterBatch(x, batch, result)
                        [] Ok(result.err) /\ i < Len(batch.ops) -> [x EXCEPT !.sub = i + 1]
                        [] OTHER -> AfterBatch(x, batch, whole),
                   <<op>>, SubSeq(batch.ops, 1, i), result)
  BY <1>10
<1>12. PICK whole : whole = [result EXCEPT !.records = Records(batch.ops)]
  OBVIOUS
<1>13. PICK z : z = CASE ~Ok(result.err) -> AfterBatch(x, batch, result)
                      [] Ok(result.err) /\ i < Len(batch.ops) -> [x EXCEPT !.sub = i + 1]
                      [] OTHER -> AfterBatch(x, batch, whole)
  OBVIOUS
<1>14. Effect(e, z, <<op>>, SubSeq(batch.ops, 1, i), result)
  BY <1>11, <1>12, <1>13
<1>15. \A r : Moves(x, AfterBatch(x, batch, r))
  BY <1>2, <1>4, <1>9, AfterBatchMoves DEF Ok
<1>16. Moves(x, z)
  <2>1. CASE Ok(result.err) /\ i < Len(batch.ops)
    <3>1. z = [x EXCEPT !.sub = i + 1]
      BY <1>13, <2>1
    <3>2. /\ DOMAIN z = Fields /\ z.cmd = x.cmd /\ z.code = "run" /\ z.changed = x.changed
          /\ z.refreshed = x.refreshed /\ z.sub = i + 1 /\ z.at = x.at /\ z.text = x.text
      BY <1>2, <3>1 DEF Fields
    <3>3. ProgramOf(z) = ProgramOf(x) /\ CallAt(z) = batch
      BY <1>4, <3>2 DEF ProgramOf, CallAt
    <3>4. i + 1 \in DOMAIN batch.ops
      BY <1>6, <2>1 DEF OpsOf
    <3>5. x.at \in DOMAIN ProgramOf(x)
      BY <1>2 DEF Placed
    <3> QED
      BY <1>4, <3>2, <3>3, <3>4, <3>5 DEF Moves
  <2>2. CASE ~(Ok(result.err) /\ i < Len(batch.ops))
    <3>1. z = AfterBatch(x, batch, result) \/ z = AfterBatch(x, batch, whole)
      BY <1>13, <2>2
    <3> QED
      BY <1>15, <3>1
  <2> QED
    BY <2>1, <2>2
<1>17. OnlyMoves(e) /\ world' = result.world
  BY <1>1, <1>4, <1>9, <1>14, <1>16, EffectMoves
<1>18. Leaves(world, result.world, x.cmd)
  <2>1. FsSame(result, FsApply(world, op, fault))
    BY <1>11, FsResultIs
  <2> QED
    BY <1>8, <2>1 DEF Leaves, FsSame
<1> QED
  BY <1>4, <1>17, <1>18 DEF StepOf, Changing

-----------------------------------------------------------------------------
(***************************************************************************)
(* Parts of a path, and where its links lead.                              *)
(***************************************************************************)

\* Paths of the same names are the same.
LEMMA SamePath ==
    ASSUME NEW p \in Paths, NEW q \in Paths, Len(p) = Len(q), \A i \in 1 .. Len(p) : p[i] = q[i]
    PROVE  p = q
  BY SeqEqual DEF Paths

\* The first names of a path.
LEMMA StartIs ==
    ASSUME NEW p \in Paths, NEW i \in 0 .. Len(p)
    PROVE  /\ SubSeq(p, 1, i) \in Paths /\ Len(SubSeq(p, 1, i)) = i
           /\ \A j \in 1 .. i : SubSeq(p, 1, i)[j] = p[j]
<1>1. Len(p) \in Nat /\ \A j \in 1 .. Len(p) : p[j] \in STRING
  BY DEF Paths
<1>2. 1 \in Int /\ i \in Int /\ \A j \in 1 .. i : p[j] \in STRING
  BY <1>1
<1>3. /\ SubSeq(p, 1, i) \in Seq(STRING)
      /\ Len(SubSeq(p, 1, i)) = IF 1 <= i THEN i - 1 + 1 ELSE 0
      /\ \A j \in 1 .. i - 1 + 1 : SubSeq(p, 1, i)[j] = p[1 + j - 1]
  BY <1>2, SubSeqProperties
<1> QED
  BY <1>1, <1>3 DEF Paths

\* The names after them.
LEMMA RestIs ==
    ASSUME NEW p \in Paths, NEW i \in 0 .. Len(p)
    PROVE  /\ SubSeq(p, i + 1, Len(p)) \in Paths /\ Len(SubSeq(p, i + 1, Len(p))) = Len(p) - i
           /\ \A j \in 1 .. Len(p) - i : SubSeq(p, i + 1, Len(p))[j] = p[i + j]
<1>1. Len(p) \in Nat /\ \A j \in 1 .. Len(p) : p[j] \in STRING
  BY DEF Paths
<1>2. i + 1 \in Int /\ Len(p) \in Int /\ \A j \in (i + 1) .. Len(p) : p[j] \in STRING
  BY <1>1
<1>3. PICK m \in Int, n \in Int : m = i + 1 /\ n = Len(p)
  BY <1>2
<1>4. /\ SubSeq(p, m, n) \in Seq(STRING)
      /\ Len(SubSeq(p, m, n)) = IF m <= n THEN n - m + 1 ELSE 0
      /\ \A j \in 1 .. n - m + 1 : SubSeq(p, m, n)[j] = p[m + j - 1]
  BY <1>2, <1>3, SubSeqProperties
<1>5. SubSeq(p, m, n) \in Seq(STRING) /\ Len(SubSeq(p, m, n)) = Len(p) - i
  BY <1>1, <1>3, <1>4
<1>6. ASSUME NEW j \in 1 .. Len(p) - i
      PROVE  SubSeq(p, m, n)[j] = p[i + j]
  <2>1. j \in 1 .. n - m + 1 /\ m + j - 1 = i + j
    BY <1>1, <1>3
  <2> QED
    BY <1>4, <2>1
<1> QED
  BY <1>3, <1>5, <1>6 DEF Paths

\* One path after another.
LEMMA AfterIs ==
    ASSUME NEW p \in Paths, NEW q \in Paths
    PROVE  /\ p \o q \in Paths /\ Len(p \o q) = Len(p) + Len(q)
           /\ \A j \in 1 .. Len(p) : (p \o q)[j] = p[j]
           /\ \A j \in 1 .. Len(q) : (p \o q)[Len(p) + j] = q[j]
<1>1. /\ p \o q \in Seq(STRING) /\ Len(p \o q) = Len(p) + Len(q)
      /\ \A j \in 1 .. Len(p) + Len(q) : (p \o q)[j] = IF j <= Len(p) THEN p[j] ELSE q[j - Len(p)]
  BY ConcatProperties DEF Paths
<1>2. Len(p) \in Nat /\ Len(q) \in Nat
  BY DEF Paths
<1> QED
  BY <1>1, <1>2 DEF Paths

\* A start of a path under a base lies under the base, or is a start of the base.
LEMMA StartOrUnder ==
    ASSUME NEW base \in Paths, NEW r \in Paths, Under(base, r), NEW i \in 1 .. Len(r)
    PROVE  \/ Under(base, SubSeq(r, 1, i))
           \/ i \in 1 .. Len(base) /\ SubSeq(r, 1, i) = SubSeq(base, 1, i)
<1>1. /\ Len(base) \in Nat /\ Len(r) \in Nat /\ Len(base) <= Len(r)
      /\ \A j \in 1 .. Len(base) : r[j] = base[j]
  BY UnderIs DEF Paths
<1>i. i \in 0 .. Len(r) /\ i \in Nat /\ i > 0
  BY <1>1
<1>2. PICK a \in Paths : a = SubSeq(r, 1, i) /\ Len(a) = i /\ \A j \in 1 .. i : a[j] = r[j]
  BY <1>i, StartIs
<1>3. CASE Len(base) <= i
  <2>1. \A j \in 1 .. Len(base) : a[j] = base[j]
    BY <1>1, <1>i, <1>2, <1>3
  <2>2. Len(base) <= Len(a)
    BY <1>2, <1>3
  <2>3. Under(base, a)
    BY <2>1, <2>2, UnderIs
  <2> QED
    BY <1>2, <2>3
<1>4. CASE ~(Len(base) <= i)
  <2>1. i \in 0 .. Len(base) /\ i \in 1 .. Len(base)
    BY <1>1, <1>4
  <2>2. PICK b \in Paths : b = SubSeq(base, 1, i) /\ Len(b) = i /\ \A j \in 1 .. i : b[j] = base[j]
    BY <2>1, StartIs
  <2>3. a = b
    BY <1>1, <1>2, <2>1, <2>2, SamePath
  <2> QED
    BY <1>2, <2>1, <2>2, <2>3
<1> QED
  BY <1>3, <1>4

\* A start of a start is a start.
LEMMA StartOfStart ==
    ASSUME NEW p \in Paths, NEW n \in 0 .. Len(p), NEW i \in 0 .. n
    PROVE  SubSeq(SubSeq(p, 1, n), 1, i) = SubSeq(p, 1, i)
<1>1. PICK a \in Paths : a = SubSeq(p, 1, n) /\ Len(a) = n /\ \A j \in 1 .. n : a[j] = p[j]
  BY StartIs
<1>2. i \in 0 .. Len(a) /\ i \in 0 .. Len(p)
  BY <1>1 DEF Paths
<1>3. /\ SubSeq(a, 1, i) \in Paths /\ Len(SubSeq(a, 1, i)) = i
      /\ \A j \in 1 .. i : SubSeq(a, 1, i)[j] = a[j]
  BY <1>2, StartIs
<1>4. /\ SubSeq(p, 1, i) \in Paths /\ Len(SubSeq(p, 1, i)) = i
      /\ \A j \in 1 .. i : SubSeq(p, 1, i)[j] = p[j]
  BY <1>2, StartIs
<1>5. \A j \in 1 .. i : a[j] = p[j]
  BY <1>1
<1> QED
  BY <1>1, <1>3, <1>4, <1>5, SamePath

\* Only the root lies over the root.
LEMMA OverRoot ==
    ASSUME NEW base \in Paths, Under(base, <<>>)
    PROVE  base = <<>> /\ Len(base) = 0
<1>1. Len(base) \in Nat /\ Len(base) <= Len(<<>>)
  BY DEF Under, Paths
<1>2. Len(base) = 0
  BY <1>1
<1> QED
  BY <1>2 DEF Paths

\* Links that lead to paths, and none at the root.
LinksGood(h) == \A q \in DOMAIN h : h[q].kind = "link" => q # <<>> /\ h[q].to \in Paths

\* A path resolves to itself, or to where the first link on it leads.
LEMMA ResolveIs ==
    ASSUME NEW h, LinksGood(h), NEW p \in Paths
    PROVE  \/ LinksOn(h, p) = {} /\ Resolve(h, p) = p
           \/ \E i \in 1 .. Len(p), to \in Paths :
                /\ i \in LinksOn(h, p) /\ \A j \in LinksOn(h, p) : i <= j
                /\ Kind(h, SubSeq(p, 1, i)) = "link" /\ to = h[SubSeq(p, 1, i)].to
                /\ Resolve(h, p) = to \o SubSeq(p, i + 1, Len(p))
<1>1. CASE LinksOn(h, p) = {}
  BY <1>1 DEF Resolve, ResolveLinks
<1>2. CASE LinksOn(h, p) # {}
  <2>1. LinksOn(h, p) \subseteq Nat
    BY DEF LinksOn, Paths
  <2>2. PICK i \in LinksOn(h, p) : i = Min(LinksOn(h, p)) /\ \A j \in LinksOn(h, p) : i <= j
    BY <1>2, <2>1, MinIs
  <2>3. i \in 0 .. Len(p) /\ Kind(h, SubSeq(p, 1, i)) = "link"
    BY DEF LinksOn
  <2>4. SubSeq(p, 1, i) \in DOMAIN h /\ h[SubSeq(p, 1, i)].kind = "link"
    BY <2>3 DEF Kind, Exists
  <2>5. SubSeq(p, 1, i) # <<>> /\ h[SubSeq(p, 1, i)].to \in Paths
    BY <2>4 DEF LinksGood
  <2>6. i # 0
    <3>1. Len(SubSeq(p, 1, i)) = i /\ SubSeq(p, 1, i) \in Paths
      BY <2>3, StartIs
    <3> QED
      BY <2>5, <3>1 DEF Paths
  <2>7. Resolve(h, p) = h[SubSeq(p, 1, i)].to \o SubSeq(p, i + 1, Len(p))
    BY <1>2, <2>2 DEF Resolve, ResolveLinks, Followed
  <2>8. i \in 1 .. Len(p)
    BY <2>3, <2>6 DEF Paths
  <2> QED
    BY <2>2, <2>3, <2>5, <2>7, <2>8
<1> QED
  BY <1>1, <1>2

\* In any case it is a path.
LEMMA ResolvesToPath ==
    ASSUME NEW h, LinksGood(h), NEW p \in Paths
    PROVE  Resolve(h, p) \in Paths
<1>1. CASE LinksOn(h, p) = {} /\ Resolve(h, p) = p
  BY <1>1
<1>2. CASE \E i \in 1 .. Len(p), to \in Paths : Resolve(h, p) = to \o SubSeq(p, i + 1, Len(p))
  <2>1. PICK i \in 1 .. Len(p), to \in Paths : Resolve(h, p) = to \o SubSeq(p, i + 1, Len(p))
    BY <1>2
  <2>2. i \in 0 .. Len(p)
    BY DEF Paths
  <2>3. SubSeq(p, i + 1, Len(p)) \in Paths
    BY <2>2, RestIs
  <2> QED
    BY <2>1, <2>3, AfterIs
<1> QED
  BY <1>1, <1>2, ResolveIs

\* The parent of a path.
LEMMA FrontIs ==
    ASSUME NEW p \in Paths, p # <<>>
    PROVE  /\ Len(p) \in Nat \ {0} /\ Front(p) = SubSeq(p, 1, Len(p) - 1) /\ Len(p) - 1 \in 0 .. Len(p)
           /\ Front(p) \in Paths /\ Len(Front(p)) = Len(p) - 1
           /\ Last(p) = p[Len(p)] /\ Last(p) \in STRING
<1>1. Len(p) \in Nat \ {0}
  BY DEF Paths
<1>2. Len(p) - 1 \in 0 .. Len(p)
  BY <1>1
<1>3. Front(p) = SubSeq(p, 1, Len(p) - 1) /\ Last(p) = p[Len(p)]
  BY DEF Front, Last
<1>4. p[Len(p)] \in STRING
  BY <1>1 DEF Paths
<1> QED
  BY <1>1, <1>2, <1>3, <1>4, StartIs

\* The path of a file whose parent is resolved is the path itself, if no link lies
\* on the way to it, or else what the whole path resolves to.
LEMMA ParentIs ==
    ASSUME NEW h, LinksGood(h), NEW p \in Paths, p # <<>>
    PROVE  /\ Resolve(h, Front(p)) \in Paths /\ ResolveParent(h, p) \in Paths
           /\ \/ LinksOn(h, Front(p)) = {} /\ ResolveParent(h, p) = p /\ Resolve(h, Front(p)) = Front(p)
              \/ LinksOn(h, Front(p)) # {} /\ ResolveParent(h, p) = Resolve(h, p)
<1> DEFINE n == Len(p) - 1
<1>1. /\ Len(p) \in Nat \ {0} /\ n \in 0 .. Len(p) /\ Front(p) \in Paths /\ Len(Front(p)) = n
      /\ Front(p) = SubSeq(p, 1, n) /\ Last(p) = p[Len(p)] /\ Last(p) \in STRING
  BY FrontIs
<1>2. PICK f \in Paths : f = Front(p)
  BY <1>1
<1>3. \A i \in 0 .. n : SubSeq(f, 1, i) = SubSeq(p, 1, i)
  BY <1>1, <1>2, StartOfStart
<1>4. LinksOn(h, f) = LinksOn(h, p) \cap (0 .. n)
  <2>1. 0 .. n \subseteq 0 .. Len(p)
    BY <1>1
  <2> QED
    BY <1>1, <1>2, <1>3, <2>1 DEF LinksOn
<1>5. Resolve(h, f) \in Paths
  BY ResolvesToPath
<1>6. PICK g \in Paths : g = Resolve(h, f)
  BY <1>5
<1>7. ResolveParent(h, p) = Append(g, Last(p)) /\ Append(g, Last(p)) \in Paths
  <2>1. Append(g, Last(p)) \in Paths
    BY <1>1 DEF Paths
  <2> QED
    BY <1>2, <1>6, <2>1 DEF ResolveParent
<1>8. /\ Len(Append(g, Last(p))) = Len(g) + 1
      /\ \A j \in 1 .. Len(g) : Append(g, Last(p))[j] = g[j]
      /\ Append(g, Last(p))[Len(g) + 1] = p[Len(p)]
  BY <1>1, AppendProperties DEF Paths
<1>9. CASE LinksOn(h, f) = {}
  <2>1. g = f
    BY <1>6, <1>9 DEF Resolve, ResolveLinks
  <2>2. \A j \in 1 .. n : f[j] = p[j]
    BY <1>1, <1>2, StartIs
  <2>3. \A j \in 1 .. Len(p) : Append(g, Last(p))[j] = p[j]
    BY <1>1, <1>2, <1>8, <2>1, <2>2
  <2>4. Append(g, Last(p)) = p
    <3>1. Len(Append(g, Last(p))) = Len(p)
      BY <1>1, <1>2, <1>8, <2>1
    <3>2. Append(g, Last(p)) \in Paths
      BY <1>7
    <3>3. \A j \in 1 .. Len(Append(g, Last(p))) : Append(g, Last(p))[j] = p[j]
      BY <2>3, <3>1
    <3> QED
      BY <3>1, <3>2, <3>3, SamePath
  <2> QED
    BY <1>2, <1>5, <1>6, <1>7, <1>9, <2>1, <2>4
<1>10. CASE LinksOn(h, f) # {}
  <2>1. PICK i \in 1 .. Len(f), to \in Paths :
          /\ i \in LinksOn(h, f) /\ \A j \in LinksOn(h, f) : i <= j
          /\ to = h[SubSeq(f, 1, i)].to
          /\ Resolve(h, f) = to \o SubSeq(f, i + 1, Len(f))
    BY <1>10, ResolveIs
  <2>2. i \in LinksOn(h, p) /\ LinksOn(h, p) # {}
    BY <1>4, <2>1
  <2>3. PICK k \in 1 .. Len(p), dest \in Paths :
          /\ k \in LinksOn(h, p) /\ \A j \in LinksOn(h, p) : k <= j
          /\ dest = h[SubSeq(p, 1, k)].to
          /\ Resolve(h, p) = dest \o SubSeq(p, k + 1, Len(p))
    BY <2>2, ResolveIs
  <2>4. k = i
    <3>1. k <= i /\ k \in 0 .. n
      BY <1>1, <1>2, <2>1, <2>2, <2>3
    <3>2. i <= k
      BY <1>4, <2>1, <2>3, <3>1
    <3> QED
      BY <1>1, <3>1, <3>2
  <2>5. dest = to
    <3>1. i \in 0 .. n
      BY <1>1, <1>2, <2>1
    <3>2. SubSeq(f, 1, i) = SubSeq(p, 1, i)
      BY <1>3, <3>1
    <3> QED
      BY <2>1, <2>3, <2>4, <3>2
  <2>6. PICK s \in Paths, t \in Paths : s = SubSeq(f, i + 1, Len(f)) /\ t = SubSeq(p, i + 1, Len(p))
                   /\ Len(s) = n - i /\ Len(t) = Len(p) - i
                   /\ (\A j \in 1 .. n - i : s[j] = f[i + j]) /\ (\A j \in 1 .. Len(p) - i : t[j] = p[i + j])
    <3>1. i \in 0 .. Len(f) /\ i \in 0 .. Len(p)
      BY <1>1, <1>2
    <3>2. PICK s \in Paths : /\ s = SubSeq(f, i + 1, Len(f)) /\ Len(s) = Len(f) - i
                             /\ \A j \in 1 .. Len(f) - i : s[j] = f[i + j]
      BY <3>1, RestIs
    <3>4. Len(s) = n - i /\ \A j \in 1 .. n - i : s[j] = f[i + j]
      BY <1>1, <1>2, <3>2
    <3>3. /\ SubSeq(p, i + 1, Len(p)) \in Paths /\ Len(SubSeq(p, i + 1, Len(p))) = Len(p) - i
          /\ \A j \in 1 .. Len(p) - i : SubSeq(p, i + 1, Len(p))[j] = p[i + j]
      BY <3>1, RestIs
    <3> QED
      BY <3>2, <3>3, <3>4
  <2>7. g = to \o s /\ Resolve(h, p) = to \o t
    BY <1>6, <2>1, <2>3, <2>4, <2>5, <2>6
  <2>8. PICK m \in Nat : m = Len(to)
    BY DEF Paths
  <2>9. /\ Len(g) = m + Len(s) /\ Len(to \o t) = m + Len(t) /\ to \o t \in Paths
        /\ (\A j \in 1 .. m : g[j] = to[j]) /\ (\A j \in 1 .. Len(s) : g[m + j] = s[j])
        /\ (\A j \in 1 .. m : (to \o t)[j] = to[j]) /\ (\A j \in 1 .. Len(t) : (to \o t)[m + j] = t[j])
    <3>1. /\ Len(to \o s) = Len(to) + Len(s)
          /\ \A j \in 1 .. Len(to) : (to \o s)[j] = to[j]
          /\ \A j \in 1 .. Len(s) : (to \o s)[Len(to) + j] = s[j]
      BY AfterIs
    <3>2. /\ to \o t \in Paths /\ Len(to \o t) = Len(to) + Len(t)
          /\ \A j \in 1 .. Len(to) : (to \o t)[j] = to[j]
          /\ \A j \in 1 .. Len(t) : (to \o t)[Len(to) + j] = t[j]
      BY AfterIs
    <3> QED
      BY <2>7, <2>8, <3>1, <3>2, Zenon
  <2>10. \A j \in 1 .. n : f[j] = p[j]
    BY <1>1, <1>2, StartIs
  <2>11. i \in Nat /\ i <= n /\ n \in Nat /\ Len(p) = n + 1 /\ Len(g) = m + (n - i) /\ Len(to \o t) = m + (n - i) + 1
    <3>1. i \in Nat /\ i <= n /\ n \in Nat /\ Len(p) = n + 1
      BY <1>1, <1>2, <2>1
    <3>2. Len(s) = n - i /\ Len(t) = Len(p) - i
      BY <2>6
    <3>3. Len(g) = m + Len(s) /\ Len(to \o t) = m + Len(t)
      BY <2>9
    <3> QED
      BY <3>1, <3>2, <3>3
  <2> HIDE DEF n
  <2>12. ASSUME NEW j \in 1 .. Len(to \o t)
         PROVE  Append(g, Last(p))[j] = (to \o t)[j]
    <3>1. CASE j <= m
      <4>1. j \in 1 .. m /\ j \in 1 .. Len(g)
        BY <2>8, <2>11, <3>1
      <4> QED
        BY <1>8, <2>9, <4>1
    <3>2. CASE j > m /\ j <= Len(g)
      <4>1. PICK k1 \in Nat : k1 = j - m /\ k1 \in 1 .. n - i /\ k1 \in 1 .. Len(p) - i /\ j = m + k1
                              /\ i + k1 \in 1 .. n
        BY <2>8, <2>11, <3>2
      <4>2. g[m + k1] = s[k1] /\ (to \o t)[m + k1] = t[k1]
        <5>1. k1 \in 1 .. Len(s) /\ k1 \in 1 .. Len(t)
          BY <2>6, <4>1
        <5> QED
          BY <2>9, <5>1
      <4>4. s[k1] = f[i + k1] /\ t[k1] = p[i + k1]
        BY <2>6, <4>1
      <4>3. j \in 1 .. Len(g)
        BY <2>11, <3>2
      <4> QED
        BY <1>8, <2>10, <4>1, <4>2, <4>3, <4>4
    <3>3. CASE j > Len(g)
      <4>1. PICK k1 \in Nat : k1 = j - m /\ k1 \in 1 .. Len(p) - i /\ j = m + k1 /\ i + k1 = Len(p) /\ j = Len(g) + 1
        BY <2>8, <2>11, <3>3
      <4>2. (to \o t)[j] = t[k1]
        <5>1. k1 \in 1 .. Len(t)
          BY <2>6, <4>1
        <5> QED
          BY <2>9, <4>1, <5>1
      <4>3. t[k1] = p[Len(p)]
        BY <2>6, <4>1
      <4> QED
        BY <1>8, <4>1, <4>2, <4>3
    <3> QED
      BY <2>8, <2>11, <3>1, <3>2, <3>3
  <2>13. Append(g, Last(p)) = to \o t
    BY <1>7, <1>8, <2>9, <2>11, <2>12, SamePath
  <2> QED
    BY <1>2, <1>5, <1>7, <1>10, <2>7, <2>13
<1> QED
  BY <1>2, <1>9, <1>10

-----------------------------------------------------------------------------
(***************************************************************************)
(* What the calls of the host may change.                                  *)
(***************************************************************************)

\* A directory that is there, with those towards it.
RootGood(h, base) ==
    base \in Paths /\ \A i \in (1 .. Len(base)) \cup {Len(base)} : Kind(h, SubSeq(base, 1, i)) = "dir"

\* No link is new.
NoNewLinks(h, v) == \A q \in DOMAIN v : v[q].kind = "link" => q \in DOMAIN h /\ v[q] = h[q]

\* A change that stays under a base and makes no link.
Within(h, v, base) ==
    /\ \A q \in DOMAIN h \cup DOMAIN v :
         Under(base, q) \/ (q \in DOMAIN h /\ q \in DOMAIN v /\ v[q] = h[q])
    /\ NoNewLinks(h, v)

\* A change that leaves every directory.
DirsStay(h, v) == \A q \in DOMAIN h : h[q].kind = "dir" => q \in DOMAIN v /\ v[q] = h[q]

\* One that only makes directories.
Extended(h, v) ==
    /\ DOMAIN h \subseteq DOMAIN v
    /\ \A q \in DOMAIN v : v[q] = IF q \in DOMAIN h THEN h[q] ELSE Folder

Safe(h, v, base) == Within(h, v, base) /\ DirsStay(h, v)

\* One such change after another.
LEMMA SafeTwice ==
    ASSUME NEW h, NEW g, NEW v, NEW base, Safe(h, g, base), Safe(g, v, base)
    PROVE  Safe(h, v, base)
<1>1. ASSUME NEW q \in DOMAIN h \cup DOMAIN v, ~Under(base, q)
      PROVE  q \in DOMAIN h /\ q \in DOMAIN v /\ v[q] = h[q]
  BY <1>1 DEF Safe, Within, NoNewLinks
<1>2. ASSUME NEW q \in DOMAIN v, v[q].kind = "link"
      PROVE  q \in DOMAIN h /\ v[q] = h[q]
  BY <1>2 DEF Safe, Within, NoNewLinks
<1>3. DirsStay(h, v)
  BY DEF Safe, DirsStay
<1> QED
  BY <1>1, <1>2, <1>3 DEF Safe, Within, NoNewLinks

\* A directory towards a base stays.
LEMMA RootStays ==
    ASSUME NEW h, NEW v, NEW base, RootGood(h, base), DirsStay(h, v)
    PROVE  RootGood(v, base)
  BY DEF RootGood, DirsStay, Kind, Exists

\* So do the links, for the targets of the new tree are some of the old.
LEMMA LinksStay ==
    ASSUME NEW h, NEW v, NEW base, LinksGood(h), Within(h, v, base)
    PROVE  LinksGood(v)
<1>1. ASSUME NEW q \in DOMAIN v, v[q].kind = "link"
      PROVE  q # <<>> /\ v[q].to \in Paths
  <2>1. q \in DOMAIN h /\ v[q] = h[q]
    BY <1>1 DEF Within, NoNewLinks
  <2> QED
    BY <1>1, <2>1 DEF LinksGood
<1> QED
  BY <1>1 DEF LinksGood

\* A node that is no link, in the place of one that is no directory.
LEMMA PutSafe ==
    ASSUME NEW h, NEW base, NEW r, Under(base, r), Kind(h, r) # "dir", NEW node, node.kind # "link"
    PROVE  Safe(h, Put(h, r, node), base)
<1>1. PICK v : v = Put(h, r, node)
  OBVIOUS
<1>2. DOMAIN v = DOMAIN h \cup {r} /\ \A q \in DOMAIN v : v[q] = IF q = r THEN node ELSE h[q]
  BY <1>1 DEF Put
<1>3. Within(h, v, base)
  BY <1>2 DEF Within, NoNewLinks
<1>4. DirsStay(h, v)
  BY <1>2 DEF DirsStay, Kind, Exists
<1> QED
  BY <1>1, <1>3, <1>4 DEF Safe

\* A node that is no directory is taken away.
LEMMA DropSafe ==
    ASSUME NEW h, NEW base, NEW r, Under(base, r), Kind(h, r) # "dir"
    PROVE  Safe(h, Drop(h, r), base)
<1>1. PICK v : v = Drop(h, r)
  OBVIOUS
<1>2. DOMAIN v = DOMAIN h \ {r} /\ \A q \in DOMAIN v : v[q] = h[q]
  BY <1>1 DEF Drop, Restrict
<1>3. Within(h, v, base)
  BY <1>2 DEF Within, NoNewLinks
<1>4. DirsStay(h, v)
  BY <1>2 DEF DirsStay, Kind, Exists
<1> QED
  BY <1>1, <1>3, <1>4 DEF Safe

\* A tree that stays.
LEMMA SameSafe ==
    ASSUME NEW h, NEW base
    PROVE  Safe(h, h, base)
  BY DEF Safe, Within, NoNewLinks, DirsStay

\* A file is stored where no directory is.
LEMMA StoreSafe ==
    ASSUME NEW h, NEW base, NEW r, Under(base, r), NEW text, NEW torn \in BOOLEAN
    PROVE  Safe(h, StoreNode(h, r, text, torn).host, base)
<1>1. CASE Kind(h, r) = "dir"
  <2>1. StoreNode(h, r, text, torn).host = h
    BY <1>1 DEF StoreNode, Refused
  <2> QED
    BY <2>1, SameSafe
<1>2. CASE Kind(h, r) # "dir"
  <2>1. PICK t : StoreNode(h, r, text, torn).host = Put(h, r, File(t))
    BY <1>2 DEF StoreNode, Refused, Done
  <2>2. File(t).kind # "link"
    BY DEF File
  <2> QED
    BY <1>2, <2>1, <2>2, PutSafe
<1> QED
  BY <1>1, <1>2

\* Directories are made where nothing is.
LEMMA MkdirSafe ==
    ASSUME NEW h, NEW base, NEW r, \A a \in Ancestors(r) : Under(base, a) \/ Exists(h, a)
    PROVE  /\ Safe(h, MkdirAt(h, r).host, base)
           /\ Extended(h, MkdirAt(h, r).host)
<1>1. CASE Kind(h, r) = "file"
  <2>1. MkdirAt(h, r).host = h
    BY <1>1 DEF MkdirAt, Refused
  <2> QED
    BY <2>1, SameSafe DEF Extended
<1>2. CASE Kind(h, r) # "file"
  <2>1. PICK v : v = [q \in DOMAIN h \cup Ancestors(r) |-> IF Exists(h, q) THEN h[q] ELSE Folder]
    OBVIOUS
  <2>2. MkdirAt(h, r).host = v
    BY <1>2, <2>1 DEF MkdirAt, Done
  <2>3. /\ DOMAIN v = DOMAIN h \cup Ancestors(r)
        /\ \A q \in DOMAIN v : v[q] = IF q \in DOMAIN h THEN h[q] ELSE Folder
    BY <2>1 DEF Exists
  <2>4. Folder.kind = "dir"
    BY DEF Folder
  <2>5. Within(h, v, base) /\ DirsStay(h, v) /\ Extended(h, v)
    BY <2>3, <2>4 DEF Within, NoNewLinks, DirsStay, Extended, Exists
  <2> QED
    BY <2>2, <2>5 DEF Safe
<1> QED
  BY <1>1, <1>2

\* Where only directories are new, paths resolve as before.
LEMMA ResolvesAlike ==
    ASSUME NEW h, NEW v, Extended(h, v), NEW p
    PROVE  Resolve(v, p) = Resolve(h, p)
<1>1. Folder.kind = "dir"
  BY DEF Folder
<1>2. \A q : Kind(v, q) = "link" <=> Kind(h, q) = "link"
  BY <1>1 DEF Extended, Kind, Exists
<1>3. LinksOn(v, p) = LinksOn(h, p)
  BY <1>2 DEF LinksOn
<1>4. CASE LinksOn(h, p) = {}
  BY <1>3, <1>4 DEF Resolve, ResolveLinks
<1>5. CASE LinksOn(h, p) # {}
  <2>1. LinksOn(h, p) \subseteq Nat
    BY DEF LinksOn
  <2>2. PICK i \in LinksOn(h, p) : i = Min(LinksOn(h, p))
    BY <1>5, <2>1, MinIs
  <2>3. Resolve(h, p) = Followed(h, p, i) /\ Resolve(v, p) = Followed(v, p, i)
    BY <1>3, <1>5, <2>2 DEF Resolve, ResolveLinks
  <2>4. SubSeq(p, 1, i) \in DOMAIN h
    BY DEF LinksOn, Kind, Exists
  <2>5. v[SubSeq(p, 1, i)] = h[SubSeq(p, 1, i)]
    BY <2>4 DEF Extended
  <2> QED
    BY <2>3, <2>5 DEF Followed
<1> QED
  BY <1>4, <1>5

\* The directories towards a path under the base lie under it or are there.
LEMMA WayThere ==
    ASSUME NEW h, NEW base, RootGood(h, base), NEW r \in Paths, Under(base, r)
    PROVE  \A a \in Ancestors(r) : Under(base, a) \/ Exists(h, a)
<1>1. ASSUME NEW i \in 1 .. Len(r)
      PROVE  Under(base, SubSeq(r, 1, i)) \/ Exists(h, SubSeq(r, 1, i))
  <2>1. base \in Paths
    BY DEF RootGood
  <2>2. CASE Under(base, SubSeq(r, 1, i))
    BY <2>2
  <2>3. CASE i \in 1 .. Len(base) /\ SubSeq(r, 1, i) = SubSeq(base, 1, i)
    <3>1. Kind(h, SubSeq(base, 1, i)) = "dir"
      BY <2>3 DEF RootGood
    <3> QED
      BY <2>3, <3>1 DEF Kind
  <2> QED
    BY <2>1, <2>2, <2>3, StartOrUnder
<1> QED
  BY <1>1 DEF Ancestors

\* A path that the check lets pass, in a tree whose links lead to paths.
Passes(h, base, p) ==
    /\ LinksGood(h) /\ RootGood(h, base)
    /\ p \in Paths /\ Under(base, p) /\ Under(base, Resolve(h, p))

LEMMA CheckPasses ==
    ASSUME NEW h, NEW base, LinksGood(h), RootGood(h, base), NEW p \in Paths, Ok(Check(h, base, p))
    PROVE  Passes(h, base, p)
<1> DEFINE r == Resolve(h, p)
           checks == <<Ensure(WithinRoot(base, p), "denied"), Ensure(~Dangling(h, p), "missing"),
                       Ensure(~ThroughFile(h, r), "plain"), Ensure(WithinRoot(base, r), "denied")>>
<1>1. PICK n \in Nat : n = 4 /\ DOMAIN checks = 1 .. n
  OBVIOUS
<1>2. Ok(FirstError(checks))
  BY DEF Check, CheckResolved
<1>3. checks[1] = Ensure(WithinRoot(base, p), "denied") /\ checks[4] = Ensure(WithinRoot(base, r), "denied")
  OBVIOUS
<1> HIDE DEF checks
<1>4. \A i \in 1 .. n : Ok(checks[i])
  <2>1. DOMAIN checks = 1 .. n
    BY <1>1
  <2> QED
    BY <1>2, <2>1, AllChecksGood
<1>5. Ok(checks[1]) /\ Ok(checks[4])
  BY <1>1, <1>4
<1> QED
  BY <1>3, <1>5 DEF Ok, Ensure, WithinRoot, Passes

\* The path with its parent resolved lies under the base too.
LEMMA ParentPasses ==
    ASSUME NEW h, NEW base, NEW p, Passes(h, base, p), p # <<>>
    PROVE  ResolveParent(h, p) \in Paths /\ Under(base, ResolveParent(h, p))
  BY ParentIs DEF Passes

\* So a directory for its parent may be made.
LEMMA WayToParent ==
    ASSUME NEW h, NEW base, NEW p, Passes(h, base, p)
    PROVE  \A a \in Ancestors(Resolve(h, Front(p))) : Under(base, a) \/ Exists(h, a)
<1>1. LinksGood(h) /\ RootGood(h, base) /\ p \in Paths /\ Under(base, Resolve(h, p))
  BY DEF Passes
<1>2. CASE p = <<>>
  <2>1. Front(p) = p
    BY <1>2, SubSeqEmpty DEF Front
  <2> QED
    BY <1>1, <2>1, WayThere, ResolvesToPath
<1>3. CASE p # <<>>
  <2>1. PICK g \in Paths : g = Resolve(h, Front(p))
    BY <1>1, <1>3, ParentIs
  <2>2. PICK r \in Paths : r = ResolveParent(h, p) /\ Under(base, r)
    BY <1>3, ParentPasses
  <2>3. r = Append(g, Last(p)) /\ Last(p) \in STRING
    BY <1>1, <1>3, <2>1, <2>2, FrontIs DEF ResolveParent
  <2>4. Len(g) \in Nat /\ Len(r) = Len(g) + 1 /\ \A j \in 1 .. Len(g) : r[j] = g[j]
    BY <2>3, AppendProperties DEF Paths
  <2>5. ASSUME NEW i \in 1 .. Len(g)
        PROVE  SubSeq(g, 1, i) \in Ancestors(r)
    <3>1. i \in 0 .. Len(g) /\ i \in 0 .. Len(r) /\ i \in 1 .. Len(r)
      BY <2>4
    <3>2. /\ SubSeq(g, 1, i) \in Paths /\ Len(SubSeq(g, 1, i)) = i
          /\ \A j \in 1 .. i : SubSeq(g, 1, i)[j] = g[j]
      BY <3>1, StartIs
    <3>3. /\ SubSeq(r, 1, i) \in Paths /\ Len(SubSeq(r, 1, i)) = i
          /\ \A j \in 1 .. i : SubSeq(r, 1, i)[j] = r[j]
      BY <3>1, StartIs
    <3>4. \A j \in 1 .. i : r[j] = g[j]
      BY <2>4
    <3>5. SubSeq(g, 1, i) = SubSeq(r, 1, i)
      BY <3>2, <3>3, <3>4, SamePath
    <3> QED
      BY <3>1, <3>5 DEF Ancestors
  <2>6. \A a \in Ancestors(r) : Under(base, a) \/ Exists(h, a)
    BY <1>1, <2>2, WayThere
  <2> QED
    BY <2>1, <2>5, <2>6 DEF Ancestors
<1> QED
  BY <1>2, <1>3

\* Guarded refuses or gives its result.
LEMMA GuardedIs ==
    ASSUME NEW err, NEW h, NEW result
    PROVE  \/ Guarded(err, h, result).host = h
           \/ Ok(err) /\ Guarded(err, h, result) = result
  BY DEF Guarded, Refused

\* The parent is made before a file is stored.
LEMMA MadeSafe ==
    ASSUME NEW h, NEW base, NEW p, Passes(h, base, p), NEW made, made = MkdirAll(h, Front(p))
    PROVE  Safe(h, made.host, base) /\ Under(base, Resolve(made.host, p))
<1>1. made = MkdirAt(h, Resolve(h, Front(p)))
  BY DEF MkdirAll
<1>2. Safe(h, made.host, base) /\ Extended(h, made.host)
  BY <1>1, WayToParent, MkdirSafe
<1> QED
  BY <1>2, ResolvesAlike DEF Passes

\* Contents are stored, whole or torn.
LEMMA StoreFileSafe ==
    ASSUME NEW h, NEW base, NEW p, Under(base, Resolve(h, p)), NEW text, NEW torn \in BOOLEAN
    PROVE  Safe(h, StoreFile(h, p, text, torn).host, base)
  BY StoreSafe DEF StoreFile

\* Each call keeps to the base: write,
LEMMA WriteSafe ==
    ASSUME NEW h, NEW base, NEW p, Passes(h, base, p), NEW text, NEW limit, NEW torn \in BOOLEAN
    PROVE  Safe(h, WriteAt(h, p, text, limit, torn).host, base)
<1>1. PICK made : made = MkdirAll(h, Front(p))
  OBVIOUS
<1>2. Safe(h, made.host, base) /\ Under(base, Resolve(made.host, p))
  BY <1>1, MadeSafe
<1>3. Safe(made.host, StoreFile(made.host, p, text, torn).host, base)
  BY <1>2, StoreFileSafe
<1>4. Safe(h, StoreFile(made.host, p, text, torn).host, base)
  BY <1>2, <1>3, SafeTwice
<1>5. PICK below : below = StoreBelow(made, p, text, torn)
  OBVIOUS
<1>6. Safe(h, below.host, base)
  BY <1>2, <1>4, <1>5, GuardedIs DEF StoreBelow
<1>7. WriteAt(h, p, text, limit, torn) = Guarded(Ensure(~OverLimit(text, limit), "plain"), h, below)
  BY <1>1, <1>5 DEF WriteAt
<1> QED
  BY <1>6, <1>7, GuardedIs, SameSafe

\* append,
LEMMA AppendSafe ==
    ASSUME NEW h, NEW base, NEW p, Passes(h, base, p), NEW text, NEW limit, NEW torn \in BOOLEAN
    PROVE  Safe(h, AppendAt(h, p, text, limit, torn).host, base)
<1>1. PICK made : made = MkdirAll(h, Front(p))
  OBVIOUS
<1>2. Safe(h, made.host, base) /\ Under(base, Resolve(made.host, p))
  BY <1>1, MadeSafe
<1>3. PICK old : old = ReadFile(made.host, p).text
  OBVIOUS
<1>4. \A t : Safe(h, StoreFile(made.host, p, t, FALSE).host, base)
  BY <1>2, StoreFileSafe, SafeTwice
<1>5. Safe(h, AppendTo(made.host, p, old, text, torn).host, base)
  <2>1. CASE torn
    BY <1>4, <2>1 DEF AppendTo, Refused
  <2>2. CASE ~torn
    BY <1>4, <2>2 DEF AppendTo
  <2> QED
    BY <2>1, <2>2
<1>6. PICK below : below = AppendBelow(made, p, text, torn)
  OBVIOUS
<1>7. Safe(h, below.host, base)
  BY <1>2, <1>3, <1>5, <1>6, GuardedIs DEF AppendBelow
<1>8. AppendAt(h, p, text, limit, torn) = Guarded(Ensure(~OverLimit(text, limit), "plain"), h, below)
  BY <1>1, <1>6 DEF AppendAt
<1> QED
  BY <1>7, <1>8, GuardedIs, SameSafe

\* edit,
LEMMA EditSafe ==
    ASSUME NEW h, NEW base, NEW p, Passes(h, base, p), NEW old, NEW new, NEW all, NEW limit,
           NEW torn \in BOOLEAN
    PROVE  Safe(h, EditAt(h, p, old, new, all, limit, torn).host, base)
<1>1. PICK read, count, edited :
        EditAt(h, p, old, new, all, limit, torn) = EditRead(h, p, read, count, edited, all, limit, torn)
  BY DEF EditAt
<1>2. Safe(h, StoreFile(h, p, edited, torn).host, base)
  BY StoreFileSafe DEF Passes
<1> QED
  BY <1>1, <1>2, GuardedIs, SameSafe DEF EditRead

\* mkdir,
LEMMA MkdirAllSafe ==
    ASSUME NEW h, NEW base, NEW p, Passes(h, base, p)
    PROVE  Safe(h, MkdirAll(h, p).host, base)
<1>1. Resolve(h, p) \in Paths
  BY ResolvesToPath DEF Passes
<1> QED
  BY <1>1, WayThere, MkdirSafe DEF MkdirAll, Passes

\* What a file is removed by is no directory: either it is the link that leads to
\* the file, or the file.
LEMMA FileAtParent ==
    ASSUME NEW h, NEW base, NEW p, Passes(h, base, p), Stat(h, p) = "file"
    PROVE  p # <<>> /\ Kind(h, ResolveParent(h, p)) # "dir"
<1>1. LinksGood(h) /\ RootGood(h, base) /\ p \in Paths /\ base \in Paths /\ Under(base, p)
  BY DEF Passes, RootGood
<1>2. p # <<>>
  <2>1. SUFFICES ASSUME p = <<>>
                 PROVE  FALSE
    OBVIOUS
  <2>2. base = <<>> /\ Len(base) = 0
    BY <1>1, <2>1, OverRoot
  <2>3. Kind(h, SubSeq(base, 1, Len(base))) = "dir"
    BY DEF Passes, RootGood
  <2>4. SubSeq(base, 1, Len(base)) = <<>>
    BY <2>2, SubSeqEmpty
  <2>5. Kind(h, <<>>) = "dir"
    BY <2>3, <2>4
  <2>6. \A to, i : i \notin 1 .. Len(p)
    BY <2>1
  <2>7. Resolve(h, p) = p
    BY <1>1, <2>6, ResolveIs
  <2> QED
    BY <2>1, <2>5, <2>7 DEF Stat
<1>3. CASE ResolveParent(h, p) = Resolve(h, p)
  BY <1>2, <1>3 DEF Stat
<1>4. CASE ResolveParent(h, p) = p /\ LinksOn(h, Front(p)) = {}
  <2>1. SUFFICES ASSUME Kind(h, p) = "dir"
                 PROVE  FALSE
    BY <1>2, <1>4
  <2>2. ASSUME NEW i \in LinksOn(h, p)
        PROVE  FALSE
    <3>1. /\ Len(p) \in Nat \ {0} /\ Front(p) = SubSeq(p, 1, Len(p) - 1)
          /\ Len(p) - 1 \in 0 .. Len(p) /\ Len(Front(p)) = Len(p) - 1
      BY <1>1, <1>2, FrontIs
    <3>2. i \in 0 .. Len(p) /\ Kind(h, SubSeq(p, 1, i)) = "link"
      BY DEF LinksOn
    <3>3. CASE i = Len(p)
      <4>1. SubSeq(p, 1, i) = p
        <5>1. i \in 0 .. Len(p)
          BY <3>2
        <5>2. /\ SubSeq(p, 1, i) \in Paths /\ Len(SubSeq(p, 1, i)) = i
              /\ \A j \in 1 .. i : SubSeq(p, 1, i)[j] = p[j]
          BY <1>1, <5>1, StartIs
        <5> QED
          BY <1>1, <3>3, <5>2, SamePath
      <4> QED
        BY <2>1, <3>2, <4>1
    <3>4. CASE i # Len(p)
      <4>1. i \in 0 .. (Len(p) - 1)
        BY <3>1, <3>2, <3>4
      <4>2. SubSeq(Front(p), 1, i) = SubSeq(p, 1, i)
        BY <1>1, <3>1, <4>1, StartOfStart
      <4>3. i \in LinksOn(h, Front(p))
        BY <3>1, <3>2, <4>1, <4>2 DEF LinksOn
      <4> QED
        BY <1>4, <4>3
    <3> QED
      BY <3>3, <3>4
  <2>3. Resolve(h, p) = p
    BY <1>1, <2>2, ResolveIs
  <2> QED
    BY <2>1, <2>3 DEF Stat
<1> QED
  BY <1>1, <1>2, <1>3, <1>4, ParentIs

\* and rm.
LEMMA RemoveSafe ==
    ASSUME NEW h, NEW base, NEW p, Passes(h, base, p)
    PROVE  Safe(h, RemoveFileAt(h, p).host, base)
<1>1. CASE Ok(IsKind(Stat(h, p), "file"))
  <2>1. Stat(h, p) = "file"
    BY <1>1 DEF IsKind, Ok
  <2>2. p # <<>> /\ Kind(h, ResolveParent(h, p)) # "dir"
    BY <2>1, FileAtParent
  <2>3. Under(base, ResolveParent(h, p))
    BY <2>2, ParentPasses
  <2>4. Safe(h, Drop(h, ResolveParent(h, p)), base)
    BY <2>2, <2>3, DropSafe
  <2> QED
    BY <1>1, <2>4 DEF RemoveFileAt, Guarded, Done
<1>2. CASE ~Ok(IsKind(Stat(h, p), "file"))
  BY <1>2, SameSafe DEF RemoveFileAt, Guarded, Refused
<1> QED
  BY <1>1, <1>2

\* rmdir takes a directory away, but not the base: a path below the base that leads
\* to it goes through a link below the base, so the base is not empty.
LEMMA RmdirWithin ==
    ASSUME NEW h, NEW base, NEW p, Passes(h, base, p), p # base
    PROVE  Within(h, Rmdir(h, p).host, base) /\ RootGood(Rmdir(h, p).host, base)
<1>1. LinksGood(h) /\ RootGood(h, base) /\ p \in Paths /\ base \in Paths /\ Under(base, p)
  BY DEF Passes, RootGood
<1>2. p # <<>>
  <2>1. ASSUME p = <<>>
        PROVE  base = <<>>
    BY <1>1, <2>1, OverRoot
  <2> QED
    BY <2>1
<1>3. PICK r \in Paths : r = ResolveParent(h, p) /\ Under(base, r)
  BY <1>2, ParentPasses
<1>4. Rmdir(h, p) = RmdirAt(h, r)
  BY <1>3 DEF Rmdir
<1>5. CASE \E q \in DOMAIN h : Below(r, q)
  <2>1. Rmdir(h, p).host = h
    BY <1>4, <1>5 DEF RmdirAt, Refused
  <2> QED
    BY <1>1, <2>1 DEF Within, NoNewLinks
<1>6. CASE ~ \E q \in DOMAIN h : Below(r, q)
  <2>1. r # base
    <3>1. SUFFICES ASSUME r = base
                   PROVE  FALSE
      OBVIOUS
    <3>2. LinksOn(h, Front(p)) # {} /\ r = Resolve(h, p)
      BY <1>1, <1>2, <1>3, <3>1, ParentIs
    <3>3. /\ Len(p) \in Nat \ {0} /\ Front(p) = SubSeq(p, 1, Len(p) - 1)
          /\ Len(p) - 1 \in 0 .. Len(p) /\ Len(Front(p)) = Len(p) - 1
      BY <1>1, <1>2, FrontIs
    <3>4. PICK i \in LinksOn(h, Front(p)) : TRUE
      BY <3>2
    <3>5. i \in 0 .. (Len(p) - 1) /\ i \in 0 .. Len(p)
      BY <3>3 DEF LinksOn
    <3>6. SubSeq(Front(p), 1, i) = SubSeq(p, 1, i)
      BY <1>1, <3>3, <3>5, StartOfStart
    <3>7. PICK a \in Paths : a = SubSeq(p, 1, i) /\ Len(a) = i /\ \A j \in 1 .. i : a[j] = p[j]
      BY <1>1, <3>5, StartIs
    <3>8. Kind(h, a) = "link" /\ a \in DOMAIN h
      BY <3>6, <3>7 DEF LinksOn, Kind, Exists
    <3>9. a # <<>>
      BY <1>1, <3>8 DEF LinksGood, Kind, Exists
    <3>10. i \in 1 .. Len(p)
      BY <3>5, <3>7, <3>9 DEF Paths
    <3>11. ~(i \in 1 .. Len(base) /\ a = SubSeq(base, 1, i))
      BY <1>1, <3>8 DEF RootGood
    <3>12. Under(base, a)
      BY <1>1, <3>7, <3>10, <3>11, StartOrUnder
    <3>13. a # base
      <4>1. base = SubSeq(base, 1, Len(base))
        <5>1. Len(base) \in Nat
          BY <1>1 DEF Paths
        <5>2. Len(base) \in 0 .. Len(base)
          BY <5>1
        <5> QED
          BY <1>1, <5>2, StartIs, SamePath
      <4>2. Kind(h, base) = "dir"
        BY <1>1, <4>1 DEF RootGood
      <4> QED
        BY <3>8, <4>2
    <3>14. Below(base, a)
      <4>1. Len(base) <= Len(a) /\ (Len(base) = Len(a) => a = base)
        <5>1. Len(base) <= Len(a) /\ \A j \in 1 .. Len(base) : a[j] = base[j]
          BY <1>1, <3>7, <3>12, UnderIs
        <5> QED
          BY <1>1, <3>7, <5>1, SamePath
      <4> QED
        BY <1>1, <3>7, <3>12, <3>13, <4>1 DEF Below, Paths
    <3> QED
      BY <1>6, <3>1, <3>8, <3>14
  <2>2. PICK v : v = Drop(h, r)
    OBVIOUS
  <2>3. Rmdir(h, p).host = v
    BY <1>4, <1>6, <2>2 DEF RmdirAt, Done
  <2>4. DOMAIN v = DOMAIN h \ {r} /\ \A q \in DOMAIN v : v[q] = h[q]
    BY <2>2 DEF Drop, Restrict
  <2>5. Within(h, v, base)
    BY <1>3, <2>4 DEF Within, NoNewLinks
  <2>6. ASSUME NEW i \in (1 .. Len(base)) \cup {Len(base)}
        PROVE  SubSeq(base, 1, i) # r
    <3>1. i \in 0 .. Len(base) /\ Len(base) \in Nat
      BY <1>1 DEF Paths
    <3>2. PICK a \in Paths : a = SubSeq(base, 1, i) /\ Len(a) = i /\ \A j \in 1 .. i : a[j] = base[j]
      BY <1>1, <3>1, StartIs
    <3>3. Len(base) <= Len(r) /\ \A j \in 1 .. Len(base) : r[j] = base[j]
      BY <1>1, <1>3, UnderIs
    <3>4. CASE a = r
      <4>1. Len(r) = Len(base)
        BY <3>1, <3>2, <3>3, <3>4
      <4>2. r = base
        BY <1>1, <1>3, <3>3, <4>1, SamePath
      <4> QED
        BY <2>1, <4>2
    <3> QED
      BY <3>2, <3>4
  <2>7. RootGood(v, base)
    BY <1>1, <2>4, <2>6 DEF RootGood, Kind, Exists
  <2> QED
    BY <2>3, <2>5, <2>7
<1> QED
  BY <1>5, <1>6

-----------------------------------------------------------------------------
(***************************************************************************)
(* The two adapters.                                                       *)
(***************************************************************************)

\* A path of a zone is a path of the host.
LEMMA HostOfIs ==
    ASSUME NEW p \in Paths, MatchZone(p) # {}
    PROVE  ZoneOf(p) \in Zones /\ HostOf(p) \in Paths
<1>1. PICK z : z = ZoneOf(p) /\ z \in MatchZone(p)
  BY DEF ZoneOf
<1>2. z \in Zones /\ Under(z.root, p)
  BY <1>1 DEF MatchZone
<1>3. z.root \in Paths /\ z.base \in Paths
  BY <1>2, TreesAssumption DEF Paths
<1>4. Len(z.root) \in 0 .. Len(p)
  BY <1>2, <1>3 DEF Under, Paths
<1>5. Rest(z.root, p) \in Paths
  BY <1>4, RestIs DEF Rest
<1>6. HostOf(p) = z.base \o Rest(z.root, p)
  BY <1>1 DEF HostOf, ToHostPath
<1> QED
  BY <1>1, <1>2, <1>3, <1>5, <1>6, AfterIs

\* What may be written lies in a writable zone, and passes its check.
LEMMA ZonePasses ==
    ASSUME NEW h, LinksGood(h), \A z \in Zones : z.writable => RootGood(h, z.base),
           NEW p \in Paths, Ok(ZoneMayWrite(h, p))
    PROVE  /\ ZoneOf(p) \in Zones /\ ZoneOf(p).writable
           /\ Passes(h, ZoneOf(p).base, HostOf(p))
<1>1. Ok(ZoneResolve(h, p))
  BY DEF ZoneMayWrite, ZoneCheckPathOp, ZoneAllows
<1>2. MatchZone(p) # {} /\ Ok(ResolveIn(h, ZoneOf(p), p))
  BY <1>1 DEF ZoneResolve, Ok
<1>3. ZoneOf(p) \in Zones /\ HostOf(p) \in Paths
  BY <1>2, HostOfIs
<1>4. ZoneOf(p).writable
  BY <1>1 DEF ZoneMayWrite, ZoneCheckPathOp, ZoneAllows, Ensure, Ok
<1>5. Ok(Check(h, ZoneOf(p).base, HostOf(p)))
  BY <1>2 DEF ResolveIn, HostOf
<1> QED
  BY <1>3, <1>4, <1>5, CheckPasses

\* What a call of a file system makes of a host, once it may.
Made(h, place, op, limit, torn, result) ==
    \/ result = WriteAt(h, place, op.content, limit, torn)
    \/ result = AppendAt(h, place, op.content, limit, torn)
    \/ result = EditAt(h, place, op.old, op.content, op.all, limit, torn)
    \/ result = MkdirAll(h, place)
    \/ result = RemoveFileAt(h, place)

\* The calls of the agent file system but one.
LEMMA AgentGuarded ==
    ASSUME NEW h, NEW op, op.kind \in Kinds \ {"rmdir"}, NEW torn
    PROVE  \E result : /\ AgentApply(h, op, torn) = Guarded(ZoneMayWrite(h, op.path), h, result)
                       /\ Made(h, HostOf(op.path), op, WriteLimit, torn, result)
<1>1. CASE op.kind = "write"
  BY <1>1 DEF AgentApply, ZoneWrite, Made
<1>2. CASE op.kind = "append"
  BY <1>2 DEF AgentApply, ZoneAppend, Made
<1>3. CASE op.kind = "edit"
  BY <1>3 DEF AgentApply, ZoneEdit, Made
<1>4. CASE op.kind = "mkdir"
  BY <1>4 DEF AgentApply, ZoneMakeDir, Made
<1>5. CASE op.kind = "rm"
  BY <1>5 DEF AgentApply, ZoneRemoveFile, Made
<1> QED
  BY <1>1, <1>2, <1>3, <1>4, <1>5 DEF Kinds

\* A call of the agent file system changes nothing, or keeps to a writable zone.
LEMMA AgentSafe ==
    ASSUME NEW h, LinksGood(h), \A z \in Zones : z.writable => RootGood(h, z.base),
           NEW op, op.kind \in Kinds, op.path \in Paths, NEW torn \in BOOLEAN
    PROVE  \/ AgentApply(h, op, torn).host = h
           \/ \E z \in Zones : z.writable /\ Safe(h, AgentApply(h, op, torn).host, z.base)
<1>1. PICK p \in Paths : p = op.path
  OBVIOUS
<1>2. CASE op.kind = "rmdir"
  BY <1>2 DEF AgentApply, Refused
<1>3. CASE op.kind # "rmdir"
  <2>1. PICK result : /\ AgentApply(h, op, torn) = Guarded(ZoneMayWrite(h, p), h, result)
                      /\ Made(h, HostOf(p), op, WriteLimit, torn, result)
    <3>1. op.kind \in Kinds \ {"rmdir"}
      BY <1>3
    <3> QED
      BY <1>1, <3>1, AgentGuarded
  <2>2. CASE ~Ok(ZoneMayWrite(h, p))
    BY <2>1, <2>2, GuardedIs
  <2>3. CASE Ok(ZoneMayWrite(h, p))
    <3>1. PICK z \in Zones : z = ZoneOf(p) /\ z.writable /\ Passes(h, z.base, HostOf(p))
      BY <2>3, ZonePasses
    <3>2. Safe(h, result.host, z.base)
      BY <2>1, <3>1, WriteSafe, AppendSafe, EditSafe, MkdirAllSafe, RemoveSafe DEF Made
    <3>3. AgentApply(h, op, torn) = result
      BY <2>1, <2>3 DEF Guarded
    <3> QED
      BY <3>1, <3>2, <3>3
  <2> QED
    BY <2>2, <2>3
<1> QED
  BY <1>2, <1>3

\* What may be written on the local file system passes the check of its root.
LEMMA LocalPasses ==
    ASSUME NEW h, LinksGood(h), RootGood(h, LocalRoot), NEW p \in Paths, NEW may,
           Ok(LocalMayWrite(h, p, may))
    PROVE  Passes(h, LocalRoot, p)
<1>1. Ok(Check(h, LocalRoot, p))
  BY DEF LocalMayWrite, LocalCheckPathOp, LocalResolve, Ok
<1> QED
  BY <1>1, CheckPasses

\* The calls of the local file system but one.
LEMMA LocalGuarded ==
    ASSUME NEW h, NEW op, op.kind \in Kinds \ {"rmdir"}, NEW may, NEW torn
    PROVE  \E result, err : /\ LocalApply(h, op, may, torn) = Guarded(err, h, result)
                            /\ err \in {"plain", LocalMayWrite(h, op.path, may)}
                            /\ Made(h, op.path, op, WriteLimit, torn, result)
<1> DEFINE p == op.path
<1>0. \A text : LocalMayStore(h, p, text, may) \in {"plain", LocalMayWrite(h, p, may)}
  BY DEF LocalMayStore
<1>1. CASE op.kind = "write"
  BY <1>0, <1>1 DEF LocalApply, LocalWrite, Made
<1>2. CASE op.kind = "append"
  BY <1>0, <1>2 DEF LocalApply, LocalAppend, Made
<1>3. CASE op.kind = "edit"
  BY <1>3 DEF LocalApply, LocalEdit, Made
<1>4. CASE op.kind = "mkdir"
  BY <1>4 DEF LocalApply, LocalMakeDir, Made
<1>5. CASE op.kind = "rm"
  BY <1>5 DEF LocalApply, LocalRemoveFile, Made
<1> QED
  BY <1>1, <1>2, <1>3, <1>4, <1>5 DEF Kinds

\* A call of the local file system changes nothing, or keeps to its root, which
\* stays.
LEMMA LocalSafe ==
    ASSUME NEW h, LinksGood(h), RootGood(h, LocalRoot),
           NEW op, op.kind \in Kinds, op.path \in Paths, NEW may, NEW torn \in BOOLEAN
    PROVE  \/ LocalApply(h, op, may, torn).host = h
           \/ /\ Within(h, LocalApply(h, op, may, torn).host, LocalRoot)
              /\ RootGood(LocalApply(h, op, may, torn).host, LocalRoot)
<1>1. PICK p \in Paths : p = op.path
  OBVIOUS
<1>2. PICK v : v = LocalApply(h, op, may, torn)
  OBVIOUS
<1>3. CASE op.kind \in Kinds \ {"rmdir"}
  <2>1. PICK result, err : /\ v = Guarded(err, h, result) /\ err \in {"plain", LocalMayWrite(h, p, may)}
                           /\ Made(h, p, op, WriteLimit, torn, result)
    BY <1>1, <1>2, <1>3, LocalGuarded
  <2>2. CASE ~Ok(err)
    BY <1>2, <2>1, <2>2, GuardedIs
  <2>3. CASE Ok(err)
    <3>1. Passes(h, LocalRoot, p)
      BY <2>1, <2>3, LocalPasses DEF Ok
    <3>2. Safe(h, result.host, LocalRoot)
      BY <2>1, <3>1, WriteSafe, AppendSafe, EditSafe, MkdirAllSafe, RemoveSafe DEF Made
    <3>3. v = result
      BY <2>1, <2>3 DEF Guarded
    <3> QED
      BY <1>2, <3>2, <3>3, RootStays DEF Safe
  <2> QED
    BY <2>2, <2>3
<1>4. CASE op.kind = "rmdir"
  <2>1. PICK checks : checks = <<LocalMayWrite(h, p, may), Ensure(p # LocalRoot, "plain"),
                                 IsKind(Stat(h, p), "dir")>>
    OBVIOUS
  <2>2. v = Guarded(FirstError(checks), h, Rmdir(h, p))
    BY <1>1, <1>2, <1>4, <2>1 DEF LocalApply, LocalRemoveDir
  <2>3. CASE ~Ok(FirstError(checks))
    BY <1>2, <2>2, <2>3, GuardedIs
  <2>4. CASE Ok(FirstError(checks))
    <3>1. PICK n \in Nat : n = 3 /\ DOMAIN checks = 1 .. n
      BY <2>1
    <3>2. \A i \in 1 .. n : Ok(checks[i])
      BY <2>4, <3>1, AllChecksGood
    <3>3. Ok(checks[1]) /\ Ok(checks[2])
      BY <3>1, <3>2
    <3>4. Ok(LocalMayWrite(h, p, may)) /\ p # LocalRoot
      BY <2>1, <3>3 DEF Ensure, Ok
    <3>5. Within(h, Rmdir(h, p).host, LocalRoot) /\ RootGood(Rmdir(h, p).host, LocalRoot)
      BY <3>4, LocalPasses, RmdirWithin
    <3>6. v = Rmdir(h, p)
      BY <2>2, <2>4 DEF Guarded
    <3> QED
      BY <1>2, <3>5, <3>6
  <2> QED
    BY <2>3, <2>4
<1> QED
  BY <1>3, <1>4 DEF Kinds

-----------------------------------------------------------------------------
(***************************************************************************)
(* The inductive invariant of the whole.                                   *)
(***************************************************************************)

\* Every link of the host is one that was there.
LinksKept ==
    \A q \in DOMAIN world.host :
      world.host[q].kind = "link" => Exists(InitialHost, q) /\ world.host[q] = InitialHost[q]

\* The directories that commands may change below, and those towards them, remain.
ActiveRoots ==
    IF OnAgent(world) THEN {z.base : z \in {z \in Zones : z.writable}} ELSE {LocalRoot}
RootsKept == \A base \in ActiveRoots : RootGood(world.host, base)

FilesInv ==
    /\ Shaped(world)
    /\ ProjectionsKept /\ Confined /\ LinksKept /\ RootsKept
    /\ DOMAIN execs = Execs
    /\ \A e \in Execs : ExecInv(execs[e], Commands[e], world.allowWrite)

\* Links that are those of the beginning lead to paths.
LEMMA KeptLinksGood ==
    ASSUME LinksKept
    PROVE  LinksGood(world.host)
  BY TreesAssumption DEF LinksKept, LinksGood, Exists, Paths

\* What a call may change, the host's part of the invariant allows.
LEMMA HostStays ==
    ASSUME FilesInv, world.allowWrite, NEW c, WellFormed(c), Leaves(world, world', c)
    PROVE  Confined' /\ LinksKept' /\ RootsKept' /\ NoNewLinks(world.host, world'.host)
<1>1. ASSUME world'.host = world.host, world'.adapter = world.adapter,
             world'.allowWrite = world.allowWrite
      PROVE  Confined' /\ LinksKept' /\ RootsKept' /\ NoNewLinks(world.host, world'.host)
  BY <1>1 DEF FilesInv, Confined, MayChange, OnAgent, LinksKept, RootsKept, ActiveRoots, NoNewLinks
<1>2. ASSUME NEW base, world'.adapter = world.adapter, world'.allowWrite = world.allowWrite,
             \/ OnAgent(world) /\ \E z \in Zones : z.writable /\ base = z.base
             \/ ~OnAgent(world) /\ base = LocalRoot,
             Within(world.host, world'.host, base), RootsKept'
      PROVE  Confined' /\ LinksKept' /\ RootsKept' /\ NoNewLinks(world.host, world'.host)
  <2>1. LinksKept'
    BY <1>2 DEF FilesInv, LinksKept, Within, NoNewLinks, Exists
  <2>2. OnAgent(world)' = OnAgent(world)
    BY <1>2 DEF OnAgent
  <2>3. ASSUME NEW p \in DOMAIN InitialHost \cup DOMAIN world'.host
        PROVE  \/ MayChange(p)'
               \/ /\ Exists(InitialHost, p) /\ Exists(world'.host, p)
                  /\ world'.host[p] = InitialHost[p]
    <3>1. Under(base, p) => MayChange(p)'
      BY <1>2, <2>2 DEF MayChange
    <3>2. MayChange(p) => MayChange(p)'
      BY <1>2, <2>2 DEF MayChange
    <3>3. CASE ~Under(base, p) /\ p \in DOMAIN world.host \cup DOMAIN world'.host
      <4>1. p \in DOMAIN world.host /\ p \in DOMAIN world'.host /\ world'.host[p] = world.host[p]
        BY <1>2, <3>3 DEF Within
      <4>2. MayChange(p) \/ (Exists(InitialHost, p) /\ world.host[p] = InitialHost[p])
        BY <4>1 DEF FilesInv, Confined
      <4> QED
        BY <3>2, <4>1, <4>2 DEF Exists
    <3>4. CASE p \notin DOMAIN world.host
      <4>1. CASE p \in DOMAIN InitialHost
        <5>1. MayChange(p)
          BY <3>4, <4>1 DEF FilesInv, Confined, Exists
        <5> QED
          BY <3>2, <5>1
      <4>2. CASE p \notin DOMAIN InitialHost
        BY <2>3, <3>1, <3>3, <4>2
      <4> QED
        BY <4>1, <4>2
    <3> QED
      BY <3>1, <3>3, <3>4
  <2>4. NoNewLinks(world.host, world'.host)
    BY <1>2 DEF Within
  <2> QED
    BY <1>2, <2>1, <2>3, <2>4 DEF Confined
<1>3. CASE MountsOnly(world, world')
  BY <1>1, <1>3 DEF MountsOnly
<1>4. ASSUME NEW op, NEW fault, OpOf(c, op), fault \in Faults, world' = FsApply(world, op, fault).world
      PROVE  Confined' /\ LinksKept' /\ RootsKept' /\ NoNewLinks(world.host, world'.host)
  <2>1. HostOnly(world, world')
    BY <1>4, FsKeeps DEF FilesInv
  <2>2. world'.adapter = world.adapter /\ world'.allowWrite = world.allowWrite
    BY <2>1 DEF HostOnly
  <2>3. op.kind \in Kinds /\ op.path \in Paths
    BY <1>4, PathsOf DEF OpOf
  <2>4. PICK h : h = world.host
    OBVIOUS
  <2>5. LinksGood(h)
    BY <2>4, KeptLinksGood DEF FilesInv
  <2>6. PICK torn \in BOOLEAN : torn = (fault = "torn")
    OBVIOUS
  <2>7. CASE fault = "fails"
    <3>1. world' = world
      BY <1>4, <2>7 DEF FsApply, Failed
    <3> QED
      BY <1>1, <3>1
  <2>8. CASE fault # "fails" /\ OnAgent(world)
    <3>1. PICK result : result = AgentApply(h, op, torn)
      OBVIOUS
    <3>2. world'.host = result.host
      BY <1>4, <2>4, <2>6, <2>8, <3>1 DEF FsApply, WithHost, FilesInv, Shaped
    <3>3. \A z \in Zones : z.writable => RootGood(h, z.base)
      BY <2>4, <2>8 DEF FilesInv, RootsKept, ActiveRoots
    <3>4. \/ result.host = h
          \/ \E z \in Zones : z.writable /\ Safe(h, result.host, z.base)
      BY <2>3, <2>5, <3>1, <3>3, AgentSafe
    <3>5. CASE result.host = h
      BY <1>1, <2>2, <2>4, <3>2, <3>5
    <3>6. CASE \E z \in Zones : z.writable /\ Safe(h, result.host, z.base)
      <4>1. PICK z \in Zones : z.writable /\ Safe(h, world'.host, z.base)
        BY <3>2, <3>6
      <4>2. \A y \in Zones : y.writable => RootGood(world'.host, y.base)
        BY <3>3, <4>1, RootStays DEF Safe
      <4>3. RootsKept'
        BY <2>2, <2>8, <4>2 DEF RootsKept, ActiveRoots, OnAgent
      <4> QED
        BY <1>2, <2>2, <2>4, <2>8, <4>1, <4>3 DEF Safe
    <3> QED
      BY <3>4, <3>5, <3>6
  <2>9. CASE fault # "fails" /\ ~OnAgent(world)
    <3>1. PICK result : result = LocalApply(h, op, world.allowWrite, torn)
      OBVIOUS
    <3>2. world'.host = result.host
      BY <1>4, <2>4, <2>6, <2>9, <3>1 DEF FsApply, WithHost, FilesInv, Shaped
    <3>3. RootGood(h, LocalRoot)
      BY <2>4, <2>9 DEF FilesInv, RootsKept, ActiveRoots
    <3>4. \/ result.host = h
          \/ Within(h, result.host, LocalRoot) /\ RootGood(result.host, LocalRoot)
      BY <2>3, <2>5, <3>1, <3>3, LocalSafe
    <3>5. CASE result.host = h
      BY <1>1, <2>2, <2>4, <3>2, <3>5
    <3>6. CASE Within(h, result.host, LocalRoot) /\ RootGood(result.host, LocalRoot)
      <4>1. RootsKept'
        BY <2>2, <2>9, <3>2, <3>6 DEF RootsKept, ActiveRoots, OnAgent
      <4> QED
        BY <1>2, <2>2, <2>4, <2>9, <3>2, <3>6, <4>1
    <3> QED
      BY <3>4, <3>5, <3>6
  <2> QED
    BY <2>7, <2>8, <2>9
<1> QED
  BY <1>3, <1>4 DEF Leaves

\* A call changes the world as its execution is allowed to.
LEMMA WorldStays ==
    ASSUME FilesInv, NEW e \in Execs, StepOf(e), Changing(e)
    PROVE  /\ Shaped(world') /\ ProjectionsKept' /\ Confined' /\ LinksKept' /\ RootsKept'
           /\ world'.allowWrite = world.allowWrite /\ world'.adapter = world.adapter
           /\ NoNewLinks(world.host, world'.host)
<1> DEFINE x == execs[e]
<1>1. x.code = "run" /\ ExecInv(x, Commands[e], world.allowWrite)
  BY DEF StepOf, OnlyMoves, Running, FilesInv
<1>2. WellFormed(x.cmd) /\ Fitting(x.cmd, CallAt(x), x.at)
  BY <1>1, AtCall, CommandsAssumption DEF ExecInv
<1>3. world.allowWrite
  <2>1. x.cmd.name \in Writers /\ x.at > AllowedAt(x.cmd)
    BY <1>2 DEF Changing, Fitting
  <2> QED
    BY <1>1, <2>1 DEF ExecInv, Cleared
<1>4. Leaves(world, world', x.cmd)
  BY DEF StepOf
<1>5. Confined' /\ LinksKept' /\ RootsKept' /\ NoNewLinks(world.host, world'.host)
  BY <1>2, <1>3, <1>4, HostStays
<1>6. /\ Shaped(world') /\ world'.allowWrite = world.allowWrite /\ world'.adapter = world.adapter
      /\ \A m \in Mounts : WriteProtected(m) => world'.data[m.point] = world.data[m.point]
  <2>1. CASE MountsOnly(world, world')
    BY <2>1 DEF MountsOnly
  <2>2. CASE \E op, fault : OpOf(x.cmd, op) /\ fault \in Faults /\ world' = FsApply(world, op, fault).world
    <3>1. HostOnly(world, world')
      BY <2>2, FsKeeps DEF FilesInv
    <3> QED
      BY <3>1 DEF HostOnly
  <2> QED
    BY <1>4, <2>1, <2>2 DEF Leaves
<1>7. ProjectionsKept'
  BY <1>3, <1>6 DEF FilesInv, ProjectionsKept, WriteProtected
<1> QED
  BY <1>5, <1>6, <1>7

\* An execution that starts has everything before it.
LEMMA StartKeeps ==
    ASSUME NEW commands, \A c \in commands : WellFormed(c), NEW c \in commands, NEW alone, NEW may
    PROVE  ExecInv([Idle EXCEPT !.cmd = c, !.at = 1, !.sub = 1, !.code = "run", !.alone = alone],
                   commands, may)
<1>1. PICK x : x = [Idle EXCEPT !.cmd = c, !.at = 1, !.sub = 1, !.code = "run", !.alone = alone]
  OBVIOUS
<1>2. /\ DOMAIN x = Fields /\ x.cmd = c /\ x.at = 1 /\ x.code = "run"
      /\ x.changed = {} /\ x.refreshed = {}
  BY <1>1 DEF Idle, Fields
<1>3. Laid(c, ProgramOf(x))
  BY <1>2, ProgramLaid DEF ProgramOf
<1>4. x.at \in DOMAIN ProgramOf(x)
  BY <1>2, <1>3 DEF Laid
<1>5. Fitting(c, CallAt(x), x.at)
  BY <1>3, <1>4 DEF Laid, CallAt
<1>6. CallAt(x).call # "batch"
  BY <1>2, <1>5 DEF Fitting, BatchAt
<1>7. Placed(x, commands)
  BY <1>2, <1>4, <1>6 DEF Placed
<1>8. Cleared(x, may)
  BY <1>2 DEF Cleared, AllowedAt
<1>9. Whole(x) /\ Narrow(x)
  BY <1>2 DEF Whole, Narrow, BatchAt
<1> QED
  BY <1>1, <1>7, <1>8, <1>9 DEF ExecInv

\* Whether it has been alone has no part in it.
LEMMA AloneKeeps ==
    ASSUME NEW x, NEW commands, NEW may, ExecInv(x, commands, may)
    PROVE  ExecInv([x EXCEPT !.alone = FALSE], commands, may)
<1>1. PICK y : y = [x EXCEPT !.alone = FALSE]
  OBVIOUS
<1>2. /\ DOMAIN y = Fields /\ y.cmd = x.cmd /\ y.at = x.at /\ y.sub = x.sub /\ y.text = x.text
      /\ y.code = x.code /\ y.changed = x.changed /\ y.refreshed = x.refreshed
  BY <1>1 DEF ExecInv, Placed, Fields
<1>3. ProgramOf(y) = ProgramOf(x) /\ CallAt(y) = CallAt(x)
  BY <1>2 DEF ProgramOf, CallAt
<1> QED
  BY <1>1, <1>2, <1>3 DEF ExecInv, Placed, Cleared, Whole, Narrow

\* Where only an execution moves, the invariant stays when the world's part does.
LEMMA ExecsStay ==
    ASSUME FilesInv, NEW e \in Execs, OnlyMoves(e), world'.allowWrite = world.allowWrite
    PROVE  /\ DOMAIN execs' = Execs
           /\ \A d \in Execs : ExecInv(execs'[d], Commands[d], world'.allowWrite)
<1>1. ExecInv(execs'[e], Commands[e], world.allowWrite)
  BY MovesKeep, CommandsAssumption DEF OnlyMoves, Running, FilesInv
<1>2. ASSUME NEW d \in Execs, d # e
      PROVE  ExecInv(execs'[d], Commands[d], world.allowWrite)
  BY <1>2 DEF OnlyMoves, FilesInv
<1> QED
  BY <1>1, <1>2 DEF OnlyMoves

\* The invariant in the next state, from its parts there.
LEMMA InvNext ==
    ASSUME Shaped(world'), ProjectionsKept', Confined', LinksKept', RootsKept', DOMAIN execs' = Execs,
           \A d \in Execs : ExecInv(execs'[d], Commands[d], world'.allowWrite)
    PROVE  FilesInv'
  BY DEF FilesInv

\* The parts that are about the world, when what they look at has not changed.
LEMMA WorldSame ==
    ASSUME FilesInv, Shaped(world'), world'.host = world.host, world'.data = world.data,
           world'.adapter = world.adapter, world'.allowWrite = world.allowWrite
    PROVE  ProjectionsKept' /\ Confined' /\ LinksKept' /\ RootsKept'
<1>1. ProjectionsKept'
  BY DEF FilesInv, ProjectionsKept
<1>2. Confined'
  BY DEF FilesInv, Confined, MayChange, OnAgent
<1>3. LinksKept' /\ RootsKept'
  BY DEF FilesInv, LinksKept, RootsKept, ActiveRoots, OnAgent
<1> QED
  BY <1>1, <1>2, <1>3

\* The invariant holds in the beginning.
LEMMA InvInit ==
    ASSUME Init
    PROVE  FilesInv
<1>1. /\ Shaped(world) /\ world.host = InitialHost /\ world.data = InitialData
      /\ world.adapter \in Adapters
  <2>1. world \in [host : {InitialHost}, data : {InitialData}, adapter : Adapters,
                   allowWrite : BOOLEAN, active : {{m.point : m \in Mounts}}]
    BY DEF Init
  <2> QED
    BY <2>1, TreesAssumption DEF Shaped
<1>2. ProjectionsKept /\ Confined /\ LinksKept
  BY <1>1 DEF ProjectionsKept, Confined, LinksKept, Exists
<1>3. RootsKept
  <2>1. ActiveRoots \subseteq Roots
    BY DEF ActiveRoots, Roots
  <2>2. \A base \in Roots : base \in Paths
    BY TreesAssumption DEF Roots, Paths
  <2> QED
    BY <1>1, <2>1, <2>2, TreesAssumption DEF RootsKept, RootGood
<1>4. DOMAIN execs = Execs /\ \A e \in Execs : execs[e] = Idle
  BY DEF Init
<1>5. \A commands, may : ExecInv(Idle, commands, may)
  BY DEF ExecInv, Placed, Cleared, Whole, Narrow, Idle, Fields
<1> QED
  BY <1>1, <1>2, <1>3, <1>4, <1>5 DEF FilesInv

\* Every step keeps it.
LEMMA InvStep ==
    ASSUME FilesInv, [Next]_vars
    PROVE  FilesInv'
<1> USE DEF FilesInv
<1>1. Shaped(world) /\ DOMAIN execs = Execs
  OBVIOUS
<1>2. ASSUME NEW e \in Execs
      PROVE  Placed(execs[e], Commands[e])
  BY DEF ExecInv
<1>3. ASSUME NEW e \in Execs, OnlyMoves(e), world' = world
      PROVE  FilesInv'
  <2>1. Shaped(world') /\ ProjectionsKept' /\ Confined' /\ LinksKept' /\ RootsKept'
    BY <1>3, WorldSame
  <2> QED
    BY <1>3, <2>1, ExecsStay, InvNext
<1>4. ASSUME NEW e \in Execs, StepOf(e), Changing(e)
      PROVE  FilesInv'
  <2>1. /\ Shaped(world') /\ ProjectionsKept' /\ Confined' /\ LinksKept' /\ RootsKept'
        /\ world'.allowWrite = world.allowWrite
    BY <1>4, WorldStays
  <2> QED
    BY <1>4, <2>1, ExecsStay, InvNext DEF StepOf
<1>5. ASSUME NEW e \in Execs, Start(e)
      PROVE  FilesInv'
  <2>1. PICK c \in Commands[e], alone \in BOOLEAN :
          execs' = [d \in Execs |->
                      IF d = e THEN [Idle EXCEPT !.cmd = c, !.at = 1, !.sub = 1, !.code = "run", !.alone = alone]
                      ELSE [execs[d] EXCEPT !.alone = FALSE]]
    BY <1>5 DEF Start
  <2>2. world' = world
    BY <1>5 DEF Start
  <2>3. ExecInv(execs'[e], Commands[e], world.allowWrite)
    BY <2>1, StartKeeps, CommandsAssumption
  <2>4. ASSUME NEW d \in Execs, d # e
        PROVE  ExecInv(execs'[d], Commands[d], world.allowWrite)
    BY <2>1, <2>4, AloneKeeps
  <2>5. DOMAIN execs' = Execs
    BY <2>1
  <2>6. Shaped(world') /\ ProjectionsKept' /\ Confined' /\ LinksKept' /\ RootsKept'
    BY <2>2, WorldSame
  <2> QED
    BY <2>2, <2>3, <2>4, <2>5, <2>6, InvNext
<1>6. ASSUME NEW e \in Execs,
             \/ DoRequire(e) \/ DoAllowed(e) \/ DoPreflight(e) \/ DoRead(e) \/ DoLook(e)
             \/ DoUnique(e) \/ DoFits(e) \/ DoGroup(e)
      PROVE  FilesInv'
  BY <1>1, <1>2, <1>3, <1>6, ReadsMove
<1>7. ASSUME NEW e \in Execs, DoProbe(e)
      PROVE  FilesInv'
  BY <1>1, <1>2, <1>3, <1>7, ProbeMoves
<1>8. ASSUME NEW e \in Execs, DoRefresh(e)
      PROVE  FilesInv'
  BY <1>1, <1>2, <1>3, <1>8, RefreshMoves
<1>9. ASSUME NEW e \in Execs, DoCall(e)
      PROVE  FilesInv'
  BY <1>1, <1>2, <1>4, <1>9, CallMoves
<1>10. ASSUME NEW e \in Execs, DoMountBatch(e)
       PROVE  FilesInv'
  BY <1>1, <1>2, <1>4, <1>10, MountBatchMoves
<1>11. ASSUME NEW e \in Execs, DoFsBatch(e)
       PROVE  FilesInv'
  BY <1>1, <1>2, <1>4, <1>11, FsBatchMoves
<1>12. ASSUME NEW m \in Mounts, Flip(m)
       PROVE  FilesInv'
  <2>1. PICK active : world' = [world EXCEPT !.active = active]
    BY <1>12 DEF Flip
  <2>2. execs' = execs
    BY <1>12 DEF Flip
  <2>3. /\ Shaped(world') /\ world'.host = world.host /\ world'.data = world.data
        /\ world'.adapter = world.adapter /\ world'.allowWrite = world.allowWrite
    BY <1>1, <2>1 DEF Shaped
  <2>4. ProjectionsKept' /\ Confined' /\ LinksKept' /\ RootsKept'
    BY <2>3, WorldSame
  <2> QED
    BY <1>1, <2>2, <2>3, <2>4, InvNext
<1>13. CASE UNCHANGED vars
  <2>1. world' = world /\ execs' = execs
    BY <1>13 DEF vars
  <2>2. ProjectionsKept' /\ Confined' /\ LinksKept' /\ RootsKept'
    BY <1>1, <2>1, WorldSame
  <2> QED
    BY <1>1, <2>1, <2>2, InvNext
<1> QED
  BY <1>5, <1>6, <1>7, <1>8, <1>9, <1>10, <1>11, <1>12, <1>13 DEF Next

\* The inductive invariant holds for any trees, zones, mounts, commands and
\* executions: what the builtins have found out when they make a call (access,
\* checks, the one mount of a batch) is what keeps the world as it must be.
THEOREM FilesInvHolds == Spec => []FilesInv
<1>1. Init => FilesInv
  BY InvInit
<1>2. FilesInv /\ [Next]_vars => FilesInv'
  BY InvStep
<1> QED
  BY <1>1, <1>2, PTL DEF Spec

\* Whatever runs, what changes lies under the base of a writable zone, or under the
\* root of the local file system, with the directories towards it where they were:
\* pathUnderRoot and the resolved check of ensureWithinRootResolved are enough, also
\* for paths with links on them.
THEOREM FilesConfined == Spec => []Confined
<1>1. FilesInv => Confined
  BY DEF FilesInv
<1> QED
  BY <1>1, FilesInvHolds, PTL

\* The tree of a mount that is read-only, not consistent, of another class or
\* without a mutator never changes, and no tree does when writing is not allowed.
THEOREM ProjectionsStay == Spec => []ProjectionsKept
<1>1. FilesInv => ProjectionsKept
  BY DEF FilesInv
<1> QED
  BY <1>1, FilesInvHolds, PTL

\* A command that tries its operations in a batch changes things of one mount or of
\* none, and a refresh that asks for paths has not gone beyond them.
THEOREM BoundariesHold == Spec => []BoundariesKept
<1>1. FilesInv => BoundariesKept
  <2>1. SUFFICES ASSUME FilesInv
                 PROVE  BoundariesKept
    OBVIOUS
  <2>2. ASSUME NEW e \in Execs
        PROVE  ExecInv(execs[e], Commands[e], world.allowWrite)
    BY <2>1 DEF FilesInv
  <2>3. BatchesStayWhole
    BY <2>2 DEF BatchesStayWhole, ExecInv, Placed, Whole, OneMount, Batched
  <2>4. RefreshStaysNarrow
    BY <2>2 DEF RefreshStaysNarrow, ExecInv, Narrow
  <2> QED
    BY <2>3, <2>4 DEF BoundariesKept
<1> QED
  BY <1>1, FilesInvHolds, PTL

-----------------------------------------------------------------------------
(***************************************************************************)
(* What the trace records.                                                 *)
(***************************************************************************)

Lists == DOMAIN EmptyTrace
EffectLists == {"written", "appended", "edited", "created", "removed"}

\* A trace that tells of all the effects that another tells of.
TellsMore(t, u) == DOMAIN u = Lists /\ Effects(t) \subseteq Effects(u)

\* The paths of calls that a trace would show as denied.
DeniedOf(errors) == {p \in DOMAIN errors : IsDeniedPathError(errors[p])}

LEMMA PathsRecorded ==
    ASSUME NEW t, DOMAIN t = Lists, NEW list \in Lists, NEW ps, NEW u, u = RecordPaths(t, list, ps)
    PROVE  /\ DOMAIN u = Lists /\ u[list] = t[list] \cup (ps \ {<<>>})
           /\ \A l \in Lists : l # list => u[l] = t[l]
  BY DEF RecordPaths

LEMMA EffectsAre ==
    ASSUME NEW t
    PROVE  Effects(t) = UNION {t[l] : l \in EffectLists}
  BY DEF Effects, EffectLists

LEMMA ListsAre ==
    /\ Lists = {"requested", "read", "denied"} \cup EffectLists
    /\ "requested" \in Lists /\ "read" \in Lists /\ "denied" \in Lists
    /\ "requested" \notin EffectLists /\ "read" \notin EffectLists /\ "denied" \notin EffectLists
  BY DEF Lists, EmptyTrace, EffectLists

\* Of calls, the lists of their effects have those that were made, and the denials
\* those that were denied.
LEMMA CallsRecorded ==
    ASSUME NEW t, DOMAIN t = Lists, NEW list \in Lists \ {"denied"}, NEW errors, NEW u,
           u = RecordCalls(t, list, errors)
    PROVE  /\ TellsMore(t, u) /\ u.denied = t.denied \cup (DeniedOf(errors) \ {<<>>})
           /\ \A p \in DOMAIN errors : (list \in EffectLists /\ Ok(errors[p]) /\ p # <<>>) => p \in Effects(u)
<1>1. PICK asked : asked = RecordPaths(t, "requested", DOMAIN errors)
  OBVIOUS
<1>2. PICK done : done = RecordPaths(asked, list, {p \in DOMAIN errors : Ok(errors[p])})
  OBVIOUS
<1>3. u = RecordPaths(done, "denied", DeniedOf(errors))
  BY <1>1, <1>2 DEF RecordCalls, DeniedOf
<1>r. "requested" \in Lists
  BY ListsAre
<1>a. /\ DOMAIN asked = Lists /\ asked["requested"] = t["requested"] \cup (DOMAIN errors \ {<<>>})
      /\ \A l \in Lists : l # "requested" => asked[l] = t[l]
  BY <1>1, <1>r, PathsRecorded
<1>4. /\ DOMAIN asked = Lists
      /\ \A l \in Lists : t[l] \subseteq asked[l] /\ (l # "requested" => asked[l] = t[l])
  BY <1>a
<1>5. /\ DOMAIN done = Lists
      /\ done[list] = asked[list] \cup ({p \in DOMAIN errors : Ok(errors[p])} \ {<<>>})
      /\ \A l \in Lists : l # list => done[l] = asked[l]
  BY <1>2, <1>4, PathsRecorded
<1>d. "denied" \in Lists
  BY ListsAre
<1>6. /\ DOMAIN u = Lists /\ u["denied"] = done["denied"] \cup (DeniedOf(errors) \ {<<>>})
      /\ \A l \in Lists : l # "denied" => u[l] = done[l]
  BY <1>3, <1>5, <1>d, PathsRecorded
<1>7. \A l \in EffectLists : t[l] \subseteq u[l]
  BY <1>4, <1>5, <1>6, ListsAre
<1>8. TellsMore(t, u)
  BY <1>6, <1>7, EffectsAre DEF TellsMore
<1>9. u.denied = t.denied \cup (DeniedOf(errors) \ {<<>>})
  BY <1>4, <1>5, <1>6, ListsAre
<1>10. ASSUME NEW p \in DOMAIN errors, list \in EffectLists, Ok(errors[p]), p # <<>>
       PROVE  p \in Effects(u)
  <2>1. p \in u[list]
    BY <1>5, <1>6, <1>10, ListsAre
  <2> QED
    BY <1>10, <2>1, EffectsAre
<1> QED
  BY <1>8, <1>9, <1>10

\* The same of one call.
LEMMA CallRecorded ==
    ASSUME NEW t, DOMAIN t = Lists, NEW list \in Lists \ {"denied"}, NEW p, NEW err, NEW u,
           u = RecordCall(t, list, p, err)
    PROVE  /\ TellsMore(t, u)
           /\ u.denied \subseteq t.denied \cup {p}
           /\ ~IsDeniedPathError(err) => u.denied = t.denied
           /\ (list \in EffectLists /\ Ok(err) /\ p # <<>>) => p \in Effects(u)
<1>1. PICK errors : errors = [q \in {p} |-> err]
  OBVIOUS
<1>2. DOMAIN errors = {p} /\ errors[p] = err
  BY <1>1
<1>3. u = RecordCalls(t, list, errors)
  BY <1>1 DEF RecordCall
<1>4. DeniedOf(errors) \subseteq {p} /\ (~IsDeniedPathError(err) => DeniedOf(errors) = {})
  BY <1>2 DEF DeniedOf
<1>5. /\ TellsMore(t, u) /\ u.denied = t.denied \cup (DeniedOf(errors) \ {<<>>})
      /\ \A q \in DOMAIN errors : (list \in EffectLists /\ Ok(errors[q]) /\ q # <<>>) => q \in Effects(u)
  BY <1>3, CallsRecorded
<1> QED
  BY <1>2, <1>4, <1>5

\* Every kind of operation has its list.
LEMMA MutationListIs ==
    ASSUME NEW kind \in Kinds
    PROVE  MutationList(kind) \in EffectLists
  BY DEF MutationList, Kinds, EffectLists

\* Paths are asked for and denied.
LEMMA DenialRecorded ==
    ASSUME NEW t, DOMAIN t = Lists, NEW asked, NEW denied, NEW u,
           u = RecordPaths(RecordPaths(t, "requested", asked), "denied", denied)
    PROVE  TellsMore(t, u) /\ u.denied = t.denied \cup (denied \ {<<>>})
<1>1. PICK v : v = RecordPaths(t, "requested", asked)
  OBVIOUS
<1>r. "requested" \in Lists /\ "denied" \in Lists
  BY ListsAre
<1>2. DOMAIN v = Lists /\ \A l \in Lists : l # "requested" => v[l] = t[l]
  BY <1>1, <1>r, PathsRecorded
<1>3. /\ DOMAIN u = Lists /\ u["denied"] = v["denied"] \cup (denied \ {<<>>})
      /\ \A l \in Lists : l # "denied" => u[l] = v[l]
  BY <1>1, <1>2, <1>r, PathsRecorded
<1>4. \A l \in EffectLists : u[l] = t[l]
  BY <1>2, <1>3, ListsAre
<1> QED
  BY <1>2, <1>3, <1>4, EffectsAre, ListsAre DEF TellsMore

\* Paths are asked for.
LEMMA RequestRecorded ==
    ASSUME NEW t, DOMAIN t = Lists, NEW asked, NEW u, u = RecordPaths(t, "requested", asked)
    PROVE  TellsMore(t, u) /\ u.denied = t.denied
<1>r. "requested" \in Lists
  BY ListsAre
<1>1. DOMAIN u = Lists /\ \A l \in Lists : l # "requested" => u[l] = t[l]
  BY <1>r, PathsRecorded
<1>2. \A l \in EffectLists : u[l] = t[l]
  BY <1>1, ListsAre
<1> QED
  BY <1>1, <1>2, EffectsAre, ListsAre DEF TellsMore

\* Checks that all pass are denied nothing.
LEMMA ChecksRecorded ==
    ASSUME NEW t, DOMAIN t = Lists, NEW paths, NEW errors, NEW u, u = TraceChecks(t, paths, errors)
    PROVE  /\ TellsMore(t, u)
           /\ (\A i \in DOMAIN errors : Ok(errors[i])) => u.denied = t.denied
<1>1. PICK made : made = {i \in DOMAIN errors : \A j \in 1 .. (i - 1) : Ok(errors[j])}
  OBVIOUS
<1>2. PICK denied : denied = {paths[i] : i \in {i \in made : IsDeniedPathError(errors[i])}}
  OBVIOUS
<1>3. u = RecordPaths(RecordPaths(t, "requested", {paths[i] : i \in made}), "denied", denied)
  BY <1>1, <1>2 DEF TraceChecks
<1>4. TellsMore(t, u) /\ u.denied = t.denied \cup (denied \ {<<>>})
  BY <1>3, DenialRecorded
<1>5. ASSUME \A i \in DOMAIN errors : Ok(errors[i])
      PROVE  denied = {}
  BY <1>1, <1>2, <1>5 DEF Ok, IsDeniedPathError, IsUnsupported
<1> QED
  BY <1>4, <1>5

\* A batch that has been made leaves each of its operations in the list of its effect.
LEMMA BatchRecorded ==
    ASSUME NEW t, DOMAIN t = Lists, NEW ops, \A i \in DOMAIN ops : ops[i].kind \in Kinds,
           NEW records, NEW u, u = RecordMutationBatch(t, ops, records)
    PROVE  /\ TellsMore(t, u) /\ \A i \in DOMAIN ops : ops[i].path # <<>> => ops[i].path \in Effects(u)
<1>1. PICK done : /\ u = RecordEffects(t, done)
                  /\ \A i \in DOMAIN ops : <<ops[i].kind, ops[i].path>> \in done
  BY DEF RecordMutationBatch
<1>2. DOMAIN u = Lists /\ \A l \in Lists : t[l] \subseteq u[l]
  BY <1>1 DEF RecordEffects
<1>3. TellsMore(t, u)
  BY <1>2, EffectsAre, ListsAre DEF TellsMore
<1>4. ASSUME NEW i \in DOMAIN ops, ops[i].path # <<>>
      PROVE  ops[i].path \in Effects(u)
  <2>1. PICK l \in EffectLists : l = MutationList(ops[i].kind)
    BY MutationListIs
  <2>2. PICK d \in done : d = <<ops[i].kind, ops[i].path>>
    BY <1>1
  <2>3. d[1] = ops[i].kind /\ d[2] = ops[i].path
    BY <2>2
  <2>4. u[l] = t[l] \cup ({c[2] : c \in {c \in done : MutationList(c[1]) = l}} \ {<<>>})
    BY <1>1, <2>1, ListsAre DEF RecordEffects
  <2>5. ops[i].path \in u[l]
    BY <1>4, <2>1, <2>3, <2>4
  <2> QED
    BY <2>1, <2>5, EffectsAre
<1> QED
  BY <1>3, <1>4

-----------------------------------------------------------------------------
(***************************************************************************)
(* What a call is denied for: not the tree, but its path.                  *)
(***************************************************************************)

\* The errors that no trace shows as a denial.
Undenied == {"ok", "missing", "plain"}

LEMMA UndeniedIs ==
    ASSUME NEW err \in Undenied
    PROVE  ~IsDeniedPathError(err)
  BY DEF Undenied, IsDeniedPathError, IsUnsupported

\* What is guarded has the guard's error or its own.
LEMMA GuardedErr ==
    ASSUME NEW err, NEW h, NEW result
    PROVE  Guarded(err, h, result).err \in {err, result.err}
  BY DEF Guarded, Refused

LEMMA MkdirErr ==
    ASSUME NEW h, NEW p
    PROVE  MkdirAll(h, p).err \in Undenied
  BY DEF MkdirAll, MkdirAt, Refused, Done, Undenied

LEMMA StoreErr ==
    ASSUME NEW h, NEW p, NEW text, NEW torn \in BOOLEAN
    PROVE  StoreFile(h, p, text, torn).err \in Undenied
<1>1. PICK r : r = Resolve(h, p)
  OBVIOUS
<1>2. StoreNode(h, r, text, torn).err \in {"ok", "plain"}
  <2>1. CASE Kind(h, r) = "dir"
    BY <2>1 DEF StoreNode, Refused
  <2>2. CASE Kind(h, r) # "dir" /\ torn
    BY <2>2 DEF StoreNode, Refused
  <2>3. CASE Kind(h, r) # "dir" /\ ~torn
    BY <2>3 DEF StoreNode, Done
  <2> QED
    BY <2>1, <2>2, <2>3
<1> QED
  BY <1>1, <1>2 DEF StoreFile, Undenied

\* No call is denied for what it meets in the tree: a directory, a file, a text that
\* is too long.
LEMMA MadeErr ==
    ASSUME NEW h, NEW place, NEW op, NEW limit, NEW torn \in BOOLEAN, NEW result, Made(h, place, op, limit, torn, result)
    PROVE  result.err \in Undenied
<1>0. \A condition : Ensure(condition, "plain") \in Undenied /\ Ensure(condition, "missing") \in Undenied
  BY DEF Ensure, Undenied
<1>k. \A kind, wanted : IsKind(kind, wanted) \in Undenied
  BY DEF IsKind, Undenied
<1>1. CASE result = WriteAt(h, place, op.content, limit, torn)
  <2>1. PICK made, below : /\ made = MkdirAll(h, Front(place))
                           /\ below = StoreBelow(made, place, op.content, torn)
    OBVIOUS
  <2>2. below.err \in {made.err, StoreFile(made.host, place, op.content, torn).err}
    BY <2>1, GuardedErr DEF StoreBelow
  <2>3. below.err \in Undenied
    BY <2>1, <2>2, MkdirErr, StoreErr
  <2>4. result = Guarded(Ensure(~OverLimit(op.content, limit), "plain"), h, below)
    BY <1>1, <2>1 DEF WriteAt
  <2> QED
    BY <1>0, <2>3, <2>4, GuardedErr
<1>2. CASE result = AppendAt(h, place, op.content, limit, torn)
  <2>1. PICK made, below : /\ made = MkdirAll(h, Front(place))
                           /\ below = AppendBelow(made, place, op.content, torn)
    OBVIOUS
  <2>2. PICK to : to = AppendTo(made.host, place, ReadFile(made.host, place).text, op.content, torn)
    OBVIOUS
  <2>3. to.err \in Undenied
    <3>1. CASE torn
      BY <2>2, <3>1 DEF AppendTo, Refused, Undenied
    <3>2. CASE ~torn
      BY <2>2, <3>2, StoreErr DEF AppendTo
    <3> QED
      BY <3>1, <3>2
  <2>4. below.err \in {made.err, to.err}
    BY <2>1, <2>2, GuardedErr DEF AppendBelow
  <2>5. below.err \in Undenied
    BY <2>1, <2>3, <2>4, MkdirErr
  <2>6. result = Guarded(Ensure(~OverLimit(op.content, limit), "plain"), h, below)
    BY <1>2, <2>1 DEF AppendAt
  <2> QED
    BY <1>0, <2>5, <2>6, GuardedErr
<1>3. CASE result = EditAt(h, place, op.old, op.content, op.all, limit, torn)
  <2>1. PICK read, count, edited :
          /\ read = ReadFile(h, place)
          /\ result = EditRead(h, place, read, count, edited, op.all, limit, torn)
    BY <1>3 DEF EditAt
  <2>2. PICK checks : checks = <<read.err, Ensure(count > 0, "missing"), Ensure(count <= 1 \/ op.all, "plain"),
                                 Ensure(~OverLimit(edited, limit), "plain")>>
    OBVIOUS
  <2>3. read.err \in Undenied
    BY <1>k, <2>1 DEF ReadFile, ReadNode
  <2>4. DOMAIN checks = 1 .. 4 /\ \A i \in 1 .. 4 : checks[i] \in Undenied
    BY <1>0, <2>2, <2>3
  <2>5. FirstError(checks) \in Undenied
    <3>1. PICK n \in Nat : n = 4
      OBVIOUS
    <3>2. DOMAIN checks = 1 .. n /\ (\A i \in 1 .. n : checks[i] \in Undenied) /\ "ok" \in Undenied
      BY <2>4, <3>1 DEF Undenied
    <3> QED
      BY <3>2, FirstErrorIn
  <2>6. result = Guarded(FirstError(checks), h, StoreFile(h, place, edited, torn))
    BY <2>1, <2>2 DEF EditRead, EditError
  <2> QED
    BY <2>5, <2>6, StoreErr, GuardedErr
<1>4. CASE result = MkdirAll(h, place)
  BY <1>4, MkdirErr
<1>5. CASE result = RemoveFileAt(h, place)
  <2>1. result.err \in {IsKind(Stat(h, place), "file"), "ok"}
    BY <1>5 DEF RemoveFileAt, Guarded, Refused, Done
  <2> QED
    BY <1>k, <2>1 DEF Undenied
<1> QED
  BY <1>1, <1>2, <1>3, <1>4, <1>5 DEF Made

\* A path that lies under its base, also with its links resolved, is not denied.
LEMMA CheckErr ==
    ASSUME NEW h, NEW base, NEW p, Under(base, p), Under(base, Resolve(h, p))
    PROVE  Check(h, base, p) \in Undenied
<1>1. PICK checks : checks = <<Ensure(WithinRoot(base, p), "denied"), Ensure(~Dangling(h, p), "missing"),
                               Ensure(~ThroughFile(h, Resolve(h, p)), "plain"),
                               Ensure(WithinRoot(base, Resolve(h, p)), "denied")>>
  OBVIOUS
<1>2. Check(h, base, p) = FirstError(checks)
  BY <1>1 DEF Check, CheckResolved
<1>3. PICK n \in Nat : n = 4
  OBVIOUS
<1>4. DOMAIN checks = 1 .. n /\ (\A i \in 1 .. n : checks[i] \in Undenied) /\ "ok" \in Undenied
  BY <1>1, <1>3 DEF Ensure, WithinRoot, Undenied
<1> QED
  BY <1>2, <1>4, FirstErrorIn

\* A call of the file system that is denied has changed nothing.
LEMMA DeniedChangesNothing ==
    ASSUME NEW w, Shaped(w), NEW op, op.kind \in Kinds, NEW fault, NEW answer, answer = FsApply(w, op, fault),
           IsDeniedPathError(answer.err)
    PROVE  answer.world.host = w.host
<1>0. PICK torn \in BOOLEAN : torn = (fault = "torn")
  OBVIOUS
<1>1. PICK h, p : h = w.host /\ p = op.path /\ torn = (fault = "torn")
  BY <1>0
<1>2. CASE fault = "fails"
  BY <1>2 DEF FsApply, Failed
<1>3. ASSUME fault # "fails", NEW result,
             result = IF OnAgent(w) THEN AgentApply(h, op, torn) ELSE LocalApply(h, op, w.allowWrite, torn)
      PROVE  answer.world.host = w.host
  <2>1. answer = WithHost(w, result)
    BY <1>1, <1>3 DEF FsApply
  <2>2. answer.err = result.err /\ answer.world.host = result.host
    BY <2>1 DEF WithHost, Shaped
  <2>3. ASSUME NEW err, NEW made, result = Guarded(err, h, made), made.err \in Undenied
        PROVE  result.host = h
    BY <2>2, <2>3, GuardedIs, UndeniedIs
  <2>4. CASE OnAgent(w) /\ op.kind = "rmdir"
    BY <1>1, <1>3, <2>2, <2>4 DEF AgentApply, Refused
  <2>5. CASE OnAgent(w) /\ op.kind # "rmdir"
    <3>1. PICK made : result = Guarded(ZoneMayWrite(h, p), h, made) /\ Made(h, HostOf(p), op, WriteLimit, torn, made)
      BY <1>1, <1>3, <2>5, AgentGuarded
    <3> QED
      BY <1>1, <2>2, <2>3, <3>1, MadeErr
  <2>6. CASE ~OnAgent(w) /\ op.kind = "rmdir"
    <3>1. PICK err : result = Guarded(err, h, Rmdir(h, p))
      BY <1>1, <1>3, <2>6 DEF LocalApply, LocalRemoveDir
    <3>2. Rmdir(h, p).err \in Undenied
      BY DEF Rmdir, RmdirAt, Refused, Done, Undenied
    <3> QED
      BY <1>1, <2>2, <2>3, <3>1, <3>2
  <2>7. CASE ~OnAgent(w) /\ op.kind # "rmdir"
    <3>1. PICK made, err : result = Guarded(err, h, made) /\ Made(h, p, op, WriteLimit, torn, made)
      BY <1>1, <1>3, <2>7, LocalGuarded
    <3> QED
      BY <1>1, <2>2, <2>3, <3>1, MadeErr
  <2> QED
    BY <2>4, <2>5, <2>6, <2>7
<1> QED
  BY <1>2, <1>3

-----------------------------------------------------------------------------
(***************************************************************************)
(* Paths that have passed a check are not denied later.                    *)
(***************************************************************************)

\* The place of a path lies under the base that is written there, also with its
\* links resolved.
Admits(w, p) ==
    IF OnAgent(w)
    THEN /\ MatchZone(p) # {} /\ ZoneOf(p).writable
         /\ Under(ZoneOf(p).base, HostOf(p)) /\ Under(ZoneOf(p).base, Resolve(w.host, HostOf(p)))
    ELSE Under(LocalRoot, p) /\ Under(LocalRoot, Resolve(w.host, p))

\* What a check of a change lets pass is admitted.
LEMMA AdmittedByCheck ==
    ASSUME FilesInv, NEW p \in Paths, NEW op \in {"write", "mkdir", "remove"}, ~IsMounted(p),
           Ok(CheckPathOp(world, op, p))
    PROVE  Admits(world, p)
<1>1. PICK h : h = world.host
  OBVIOUS
<1>2. LinksGood(h)
  BY <1>1, KeptLinksGood DEF FilesInv
<1>3. Ok(FsCheckPathOp(world, op, p))
  <2>1. CheckPathOp(world, op, p) = IF IsSyntheticPrefix(p) THEN "unsupported" ELSE FsCheckPathOp(world, op, p)
    BY DEF CheckPathOp
  <2> QED
    BY <2>1 DEF Ok
<1>4. CASE OnAgent(world)
  <2>1. Ok(ZoneMayWrite(h, p))
    BY <1>1, <1>3, <1>4 DEF FsCheckPathOp, ZoneMayWrite, ZoneCheckPathOp, ZoneAllows, Ok
  <2>2. \A z \in Zones : z.writable => RootGood(h, z.base)
    BY <1>1, <1>4 DEF FilesInv, RootsKept, ActiveRoots
  <2>3. ZoneOf(p).writable /\ Passes(h, ZoneOf(p).base, HostOf(p))
    BY <1>2, <2>1, <2>2, ZonePasses
  <2>4. MatchZone(p) # {}
    BY <2>1 DEF ZoneMayWrite, ZoneCheckPathOp, ZoneAllows, ZoneResolve, Ok
  <2> QED
    BY <1>1, <1>4, <2>3, <2>4 DEF Admits, Passes
<1>5. CASE ~OnAgent(world)
  <2>1. Ok(LocalMayWrite(h, p, world.allowWrite))
    BY <1>1, <1>3, <1>5 DEF FsCheckPathOp, LocalMayWrite, LocalCheckPathOp, Ok
  <2>2. RootGood(h, LocalRoot)
    BY <1>1, <1>5 DEF FilesInv, RootsKept, ActiveRoots
  <2>3. Passes(h, LocalRoot, p)
    BY <1>2, <2>1, <2>2, LocalPasses
  <2> QED
    BY <1>1, <1>5, <2>3 DEF Admits, Passes
<1> QED
  BY <1>4, <1>5

\* On a path there is one link at most.
LEMMA OneLink ==
    ASSUME LinksKept, NEW p \in Paths, NEW i \in LinksOn(world.host, p), NEW j \in LinksOn(world.host, p)
    PROVE  i = j /\ i \in 0 .. Len(p)
<1> DEFINE h == world.host
<1>1. LinksGood(h)
  BY KeptLinksGood
<1>2. ASSUME NEW m \in LinksOn(h, p), NEW n \in LinksOn(h, p)
      PROVE  ~(m < n)
  <2>1. m \in 0 .. Len(p) /\ n \in 0 .. Len(p) /\ Len(p) \in Nat
    BY DEF LinksOn, Paths
  <2>2. /\ SubSeq(p, 1, m) \in DOMAIN h /\ h[SubSeq(p, 1, m)].kind = "link"
        /\ SubSeq(p, 1, n) \in DOMAIN h /\ h[SubSeq(p, 1, n)].kind = "link"
    BY DEF LinksOn, Kind, Exists
  <2>3. /\ SubSeq(p, 1, m) \in DOMAIN InitialHost /\ InitialHost[SubSeq(p, 1, m)].kind = "link"
        /\ SubSeq(p, 1, n) \in DOMAIN InitialHost
    BY <2>2 DEF LinksKept, Exists
  <2>4. SubSeq(p, 1, m) # <<>> /\ Len(SubSeq(p, 1, m)) = m /\ SubSeq(p, 1, m) \in Paths
    BY <1>1, <2>1, <2>2, StartIs DEF LinksGood
  <2>5. m # 0
    BY <2>4 DEF Paths
  <2>6. ASSUME m < n
        PROVE  FALSE
    <3>1. PICK q \in Paths : q = SubSeq(p, 1, n) /\ Len(q) = n
      BY <2>1, StartIs
    <3>2. m \in 1 .. (Len(q) - 1) /\ m \in 0 .. n
      BY <2>1, <2>5, <2>6, <3>1
    <3>3. SubSeq(q, 1, m) = SubSeq(p, 1, m)
      BY <2>1, <3>1, <3>2, StartOfStart
    <3>4. Kind(InitialHost, SubSeq(q, 1, m)) # "link"
      BY <2>3, <3>1, <3>2, TreesAssumption
    <3> QED
      BY <2>3, <3>3, <3>4 DEF Kind, Exists
  <2> QED
    BY <2>6
<1>3. i \in 0 .. Len(p) /\ j \in 0 .. Len(p) /\ Len(p) \in Nat
  BY DEF LinksOn, Paths
<1> QED
  BY <1>2, <1>3

\* Where no link is new a path leads where it led, or to itself.
LEMMA ResolveStays ==
    ASSUME LinksKept, NEW v, NoNewLinks(world.host, v), NEW p \in Paths
    PROVE  Resolve(v, p) \in {p, Resolve(world.host, p)}
<1> DEFINE h == world.host
<1>1. CASE LinksOn(v, p) = {}
  BY <1>1 DEF Resolve, ResolveLinks
<1>2. CASE LinksOn(v, p) # {}
  <2>1. ASSUME NEW i \in LinksOn(v, p)
        PROVE  i \in LinksOn(h, p) /\ Followed(v, p, i) = Followed(h, p, i)
    <3>1. SubSeq(p, 1, i) \in DOMAIN v /\ v[SubSeq(p, 1, i)].kind = "link" /\ i \in 0 .. Len(p)
      BY DEF LinksOn, Kind, Exists
    <3>2. SubSeq(p, 1, i) \in DOMAIN h /\ v[SubSeq(p, 1, i)] = h[SubSeq(p, 1, i)]
      BY <3>1 DEF NoNewLinks
    <3> QED
      BY <3>1, <3>2 DEF LinksOn, Kind, Exists, Followed
  <2>2. LinksOn(v, p) \subseteq Nat /\ LinksOn(h, p) \subseteq Nat /\ LinksOn(h, p) # {}
    BY <1>2, <2>1 DEF LinksOn, Paths
  <2>3. PICK i \in LinksOn(v, p) : i = Min(LinksOn(v, p))
    BY <1>2, <2>2, MinIs
  <2>4. PICK j \in LinksOn(h, p) : j = Min(LinksOn(h, p))
    BY <2>2, MinIs
  <2>5. i = j
    BY <2>1, <2>3, <2>4, OneLink
  <2>6. Resolve(v, p) = Followed(v, p, i) /\ Resolve(h, p) = Followed(h, p, i)
    BY <1>2, <2>2, <2>3, <2>4, <2>5 DEF Resolve, ResolveLinks
  <2> QED
    BY <2>1, <2>3, <2>6
<1> QED
  BY <1>1, <1>2

\* So what is admitted remains so.
LEMMA AdmitsStays ==
    ASSUME LinksKept, NEW v, NoNewLinks(world.host, v.host), v.adapter = world.adapter,
           NEW p \in Paths, Admits(world, p)
    PROVE  Admits(v, p)
<1>1. CASE OnAgent(world)
  <2>1. HostOf(p) \in Paths
    BY <1>1, HostOfIs DEF Admits
  <2>2. Resolve(v.host, HostOf(p)) \in {HostOf(p), Resolve(world.host, HostOf(p))}
    BY <2>1, ResolveStays
  <2> QED
    BY <1>1, <2>2 DEF Admits, OnAgent
<1>2. CASE ~OnAgent(world)
  <2>1. Resolve(v.host, p) \in {p, Resolve(world.host, p)}
    BY ResolveStays
  <2> QED
    BY <1>2, <2>1 DEF Admits, OnAgent
<1> QED
  BY <1>1, <1>2

\* And what may be written then is not denied.
LEMMA AdmittedMayWrite ==
    ASSUME NEW w, NEW p, Admits(w, p)
    PROVE  /\ OnAgent(w) => ZoneMayWrite(w.host, p) \in Undenied /\ ZoneResolve(w.host, p) \in Undenied
           /\ ~OnAgent(w) => /\ w.allowWrite => LocalMayWrite(w.host, p, w.allowWrite) \in Undenied
                             /\ LocalResolve(w.host, p) \in Undenied
<1>1. CASE OnAgent(w)
  <2>1. Check(w.host, ZoneOf(p).base, HostOf(p)) \in Undenied
    BY <1>1, CheckErr DEF Admits
  <2>2. ZoneResolve(w.host, p) \in Undenied
    BY <1>1, <2>1 DEF Admits, ZoneResolve, ResolveIn, HostOf
  <2>3. ZoneMayWrite(w.host, p) \in {"ok", ZoneResolve(w.host, p)}
    BY <1>1 DEF Admits, ZoneMayWrite, ZoneCheckPathOp, ZoneAllows, Ensure
  <2> QED
    BY <1>1, <2>2, <2>3 DEF Undenied
<1>2. CASE ~OnAgent(w)
  <2>1. Check(w.host, LocalRoot, p) \in Undenied
    BY <1>2, CheckErr DEF Admits
  <2> QED
    BY <1>2, <2>1 DEF LocalMayWrite, LocalCheckPathOp, LocalResolve
<1> QED
  BY <1>1, <1>2

LEMMA AdmittedErr ==
    ASSUME NEW w, w.allowWrite, NEW op, op.kind \in Kinds \ {"rmdir"}, Admits(w, op.path), NEW fault
    PROVE  ~IsDeniedPathError(FsApply(w, op, fault).err)
<1>0. PICK torn \in BOOLEAN : torn = (fault = "torn")
  OBVIOUS
<1>1. PICK h, p : h = w.host /\ p = op.path /\ torn = (fault = "torn")
  BY <1>0
<1>2. CASE fault = "fails"
  <2>1. FsApply(w, op, fault).err = "plain"
    BY <1>2 DEF FsApply, Failed
  <2> QED
    BY <2>1, UndeniedIs DEF Undenied
<1>3. CASE fault # "fails" /\ OnAgent(w)
  <2>1. FsApply(w, op, fault).err = AgentApply(h, op, torn).err
    BY <1>1, <1>3 DEF FsApply, WithHost
  <2>2. PICK made : /\ AgentApply(h, op, torn) = Guarded(ZoneMayWrite(h, p), h, made)
                    /\ Made(h, HostOf(p), op, WriteLimit, torn, made)
    BY <1>1, AgentGuarded
  <2>3. AgentApply(h, op, torn).err \in {ZoneMayWrite(h, p), made.err}
    BY <2>2, GuardedErr
  <2>4. ZoneMayWrite(h, p) \in Undenied
    BY <1>1, <1>3, AdmittedMayWrite
  <2>5. made.err \in Undenied
    BY <2>2, MadeErr
  <2> QED
    BY <2>1, <2>3, <2>4, <2>5, UndeniedIs
<1>4. CASE fault # "fails" /\ ~OnAgent(w)
  <2>1. FsApply(w, op, fault).err = LocalApply(h, op, w.allowWrite, torn).err
    BY <1>1, <1>4 DEF FsApply, WithHost
  <2>2. PICK made, err : /\ LocalApply(h, op, w.allowWrite, torn) = Guarded(err, h, made)
                         /\ err \in {"plain", LocalMayWrite(h, p, w.allowWrite)}
                         /\ Made(h, p, op, WriteLimit, torn, made)
    BY <1>1, LocalGuarded
  <2>3. LocalApply(h, op, w.allowWrite, torn).err \in {err, made.err}
    BY <2>2, GuardedErr
  <2>4. LocalMayWrite(h, p, w.allowWrite) \in Undenied
    BY <1>1, <1>4, AdmittedMayWrite
  <2>5. made.err \in Undenied
    BY <2>2, MadeErr
  <2>6. err \in Undenied
    BY <2>2, <2>4 DEF Undenied
  <2> QED
    BY <2>1, <2>3, <2>5, <2>6, UndeniedIs
<1> QED
  BY <1>2, <1>3, <1>4

\* Nor is a look at it.
LEMMA AdmittedLook ==
    ASSUME NEW w, NEW p, Admits(w, p), ~IsMounted(p)
    PROVE  ~IsDeniedPathError(IsDirPath(w, p).err)
<1>1. ~IsActive(w, p)
  BY NoMountOf DEF IsActive
<1>2. IsDirPath(w, p).err = "ok" \/ IsDirPath(w, p) = FsIsDir(w, p)
  BY <1>1 DEF IsDirPath, IsDirOf, StatEntry
<1>3. CASE OnAgent(w)
  <2>1. FsIsDir(w, p).err \in {"ok", ZoneResolve(w.host, p)}
    BY <1>3 DEF FsIsDir, ZoneIsDir, IsDirIf
  <2> QED
    BY <1>2, <1>3, <2>1, AdmittedMayWrite, UndeniedIs DEF Undenied
<1>4. CASE ~OnAgent(w)
  <2>1. FsIsDir(w, p).err \in {"ok", LocalResolve(w.host, p)}
    BY <1>4 DEF FsIsDir, LocalIsDir, IsDirIf
  <2> QED
    BY <1>2, <1>4, <2>1, AdmittedMayWrite, UndeniedIs DEF Undenied
<1> QED
  BY <1>3, <1>4

-----------------------------------------------------------------------------
(***************************************************************************)
(* The invariant of a trace.                                               *)
(***************************************************************************)

\* The operations of a batch of the file system that have been made: the trace
\* tells of them when the batch has ended.
InHand(x) ==
    IF x.code = "run" /\ CallAt(x).call = "batch"
    THEN {CallAt(x).ops[k].path : k \in 1 .. (x.sub - 1)} ELSE {}

\* What is reported denied has not been changed, or an effect is reported too, or it
\* was hidden by an error of the host.
DenialsOf(x) ==
    \A p \in x.changed \cap x.trace.denied :
      IsMounted(p) \/ p \in Effects(x.trace) \/ p \in x.hidden

\* While a command runs, all it has changed is in its trace or in hand, and what has
\* been denied is of mounts.
Tracked(x) ==
    /\ x.changed \subseteq Effects(x.trace) \cup InHand(x)
    /\ \A p \in x.trace.denied : IsMounted(p)
    /\ (CallAt(x).call = "batch" /\ x.sub # 1) =>
         ~IsMounted(CallAt(x).ops[1].path) /\ Ok(BatchError(CallAt(x).ops))

\* The trace of an execution accounts for what it has changed.
Accounted(x) ==
    /\ DOMAIN x.trace = Lists
    /\ <<>> \notin x.changed
    /\ x.code = "run" => Tracked(x)
    /\ x.code = "ok" => x.changed \subseteq Effects(x.trace)
    /\ DenialsOf(x)

\* Past the checks of a batch, its paths are of mounts or admitted.
Admitted(w, x) ==
    (x.code = "run" /\ x.cmd.name \in Batched /\ x.at > 3)
      => \A p \in Range(x.cmd.paths) : IsMounted(p) \/ Admits(w, p)

TraceInv ==
    /\ FilesInv
    /\ \A e \in Execs : Accounted(execs[e]) /\ Admitted(world, execs[e])

\* A trace that tells of everything its command has changed.
LEMMA SettledIs ==
    ASSUME NEW y, DOMAIN y.trace = Lists, <<>> \notin y.changed, y.changed \subseteq Effects(y.trace),
           y.code = "run" => y.sub = 1 /\ \A p \in y.trace.denied : IsMounted(p)
    PROVE  Accounted(y)
<1>1. y.code = "run" => Tracked(y)
  BY DEF Tracked
<1>2. DenialsOf(y)
  BY DEF DenialsOf
<1> QED
  BY <1>1, <1>2 DEF Accounted

\* Away from a batch, and at its start, nothing is in hand.
LEMMA NothingInHand ==
    ASSUME NEW x, x.code = "run", Accounted(x), CallAt(x).call = "batch" => x.sub = 1
    PROVE  x.changed \subseteq Effects(x.trace)
<1>1. InHand(x) = {}
  <2>1. CASE CallAt(x).call # "batch"
    BY <2>1 DEF InHand
  <2>2. CASE x.sub = 1
    <3>1. 1 .. (x.sub - 1) = {}
      BY <2>2
    <3> QED
      BY <3>1 DEF InHand
  <2> QED
    BY <2>1, <2>2
<1> QED
  BY <1>1 DEF Accounted, Tracked

\* A call that changes nothing may record what it reads and what it is denied.
LEMMA ReadAccounted ==
    ASSUME NEW x, x.code = "run", Accounted(x), CallAt(x).call # "batch",
           NEW z, DOMAIN z = Fields, z.code = "run", z.changed = x.changed, TellsMore(x.trace, z.trace), NEW y,
           \/ (\A p \in z.trace.denied : IsMounted(p)) /\ \E n \in Nat : y = Skip(z, n)
           \/ \E code \in Codes \ {"idle", "run"} : y = Exit(z, code)
    PROVE  Accounted(y)
<1>1. x.changed \subseteq Effects(x.trace)
  BY NothingInHand
<1>2. DOMAIN z.trace = Lists /\ <<>> \notin z.changed /\ z.changed \subseteq Effects(z.trace)
  BY <1>1 DEF TellsMore, Accounted
<1>3. CASE (\A p \in z.trace.denied : IsMounted(p)) /\ \E n \in Nat : y = Skip(z, n)
  <2>1. PICK n \in Nat : y = Skip(z, n)
    BY <1>3
  <2>2. y.trace = z.trace /\ y.changed = z.changed /\ (y.code = "run" => y.sub = 1)
    <3>1. CASE z.at + n > Len(ProgramOf(z))
      <4>1. y = [z EXCEPT !.code = "ok"]
        BY <2>1, <3>1 DEF Skip
      <4> QED
        BY <4>1 DEF Fields
    <3>2. CASE ~(z.at + n > Len(ProgramOf(z)))
      <4>1. y = [z EXCEPT !.at = z.at + n, !.sub = 1]
        BY <2>1, <3>2 DEF Skip
      <4> QED
        BY <4>1 DEF Fields
    <3> QED
      BY <3>1, <3>2
  <2> QED
    BY <1>2, <1>3, <2>2, SettledIs
<1>4. CASE \E code \in Codes \ {"idle", "run"} : y = Exit(z, code)
  <2>1. PICK code \in Codes \ {"idle", "run"} : y = [z EXCEPT !.code = code]
    BY <1>4 DEF Exit
  <2>2. y.trace = z.trace /\ y.changed = z.changed /\ y.code # "run"
    BY <2>1 DEF Fields
  <2> QED
    BY <1>2, <2>2, SettledIs
<1> QED
  BY <1>3, <1>4

\* So of the calls that only read, the first that is denied ends the command, but
\* for a look at paths that have passed the checks.
LEMMA ReadsAccounted ==
    ASSUME NEW e \in Execs, DOMAIN execs = Execs, Placed(execs[e], Commands[e]),
           Accounted(execs[e]), Admitted(world, execs[e]),
           \/ DoRequire(e) \/ DoAllowed(e) \/ DoPreflight(e) \/ DoRead(e) \/ DoProbe(e) \/ DoLook(e)
           \/ DoUnique(e) \/ DoFits(e) \/ DoGroup(e) \/ DoRefresh(e)
    PROVE  Accounted(execs'[e])
<1> DEFINE x == execs[e]
           Same(z) == /\ DOMAIN z = Fields /\ z.code = "run" /\ z.changed = x.changed
                      /\ TellsMore(x.trace, z.trace)
           Kept(z) == \A p \in z.trace.denied : IsMounted(p)
<1>1. Running(e)
  BY DEF DoRequire, DoAllowed, DoPreflight, DoRead, DoProbe, DoLook, DoUnique, DoFits, DoGroup, DoRefresh,
     IsCall
<1>2. /\ WellFormed(x.cmd) /\ x.at \in Nat \ {0} /\ x.code = "run" /\ DOMAIN x = Fields
      /\ Fitting(x.cmd, CallAt(x), x.at)
  BY <1>1, AtCall, CommandsAssumption DEF Running
<1>3. CallOf(e) = CallAt(x)
  BY DEF CallOf, CallAt
<1>4. CallAt(x).call # "batch"
  BY <1>3 DEF DoRequire, DoAllowed, DoPreflight, DoRead, DoProbe, DoLook, DoUnique, DoFits, DoGroup, DoRefresh,
     IsCall
<1>5. DOMAIN x.trace = Lists /\ Kept(x) /\ TellsMore(x.trace, x.trace)
  BY <1>2 DEF Accounted, Tracked, TellsMore
<1>s. Same(x)
  BY <1>2, <1>5
<1>6. ASSUME NEW u, TellsMore(x.trace, u), NEW z, z = [x EXCEPT !.trace = u]
      PROVE  Same(z) /\ z.trace = u
  BY <1>2, <1>6 DEF Fields
<1>7. ASSUME NEW z, Same(z), NEW y, Reads(e, y),
             \/ Kept(z) /\ \E n \in Nat : y = Skip(z, n)
             \/ \E code \in Codes \ {"idle", "run"} : y = Exit(z, code)
      PROVE  Accounted(execs'[e])
  <2>1. execs'[e] = y
    BY <1>7 DEF Reads, Step
  <2>2. Accounted(y)
    BY <1>2, <1>4, <1>7, ReadAccounted
  <2> QED
    BY <2>1, <2>2
<1> HIDE DEF x, Same, Kept
<1>8. ASSUME NEW z, Same(z), NEW y, Reads(e, y),
             \/ Kept(z) /\ (y = Advance(z) \/ y = Skip(z, 2))
             \/ y = Exit(z, "usage") \/ y = Exit(z, "unsupported") \/ y = Exit(z, "general")
             \/ \E err : y = Exit(z, Code(err))
      PROVE  Accounted(execs'[e])
  <2>1. y = Advance(z) => \E n \in Nat : y = Skip(z, n)
    BY DEF Advance
  <2>2. y = Skip(z, 2) => \E n \in Nat : y = Skip(z, n)
    OBVIOUS
  <2>3. {"usage", "unsupported", "general"} \subseteq Codes \ {"idle", "run"}
    BY DEF Codes
  <2>4. \A err : Code(err) \in {"unsupported", "general"}
    BY DEF Code
  <2>5. \/ Kept(z) /\ \E n \in Nat : y = Skip(z, n)
        \/ \E code \in Codes \ {"idle", "run"} : y = Exit(z, code)
    BY <1>8, <2>1, <2>2, <2>3, <2>4
  <2> QED
    BY <1>7, <1>8, <2>5
<1>10. CASE DoRequire(e)
  <2>1. PICK y : Reads(e, y) /\ (y = Exit(x, "usage") \/ y = Advance(x))
    BY <1>10 DEF DoRequire, x
  <2> QED
    BY <1>5, <1>8, <1>s, <2>1
<1>11. CASE DoAllowed(e)
  <2>1. CASE world.allowWrite
    <3>1. Reads(e, Advance(x))
      BY <1>11, <2>1 DEF DoAllowed, x
    <3> QED
      BY <1>5, <1>8, <1>s, <3>1
  <2>2. CASE ~world.allowWrite
    <3>1. PICK ps, u : /\ u = RecordPaths(RecordPaths(x.trace, "requested", ps), "denied", ps)
                       /\ Reads(e, Exit([x EXCEPT !.trace = u], "unsupported"))
      BY <1>11, <2>2 DEF DoAllowed, x, MarkTraceDenied
    <3>2. TellsMore(x.trace, u)
      BY <1>5, <3>1, DenialRecorded
    <3> QED
      BY <1>6, <1>8, <3>1, <3>2
  <2> QED
    BY <2>1, <2>2
<1>12. CASE DoPreflight(e)
  <2>1. PICK checks : checks = CallOf(e).checks
    OBVIOUS
  <2>2. PICK errors : errors = Map(checks, LAMBDA check : CheckPathOp(world, check[1], check[2]))
    OBVIOUS
  <2>3. PICK paths : paths = Map(checks, LAMBDA check : check[2])
    OBVIOUS
  <2>4. PICK u : u = TraceChecks(x.trace, paths, errors)
    OBVIOUS
  <2>5. Reads(e, AfterError([x EXCEPT !.trace = u], FirstError(errors)))
    BY <1>12, <2>1, <2>2, <2>3, <2>4, Zenon DEF DoPreflight, x
  <2>6. PICK z : z = [x EXCEPT !.trace = u]
    OBVIOUS
  <2>7. TellsMore(x.trace, u) /\ ((\A i \in DOMAIN errors : Ok(errors[i])) => u.denied = x.trace.denied)
    BY <1>5, <2>4, ChecksRecorded
  <2>8. Same(z) /\ z.trace = u
    BY <1>6, <2>6, <2>7
  <2>9. CASE Ok(FirstError(errors)) /\ \A i \in DOMAIN errors : Ok(errors[i])
    <3>1. Kept(z)
      BY <1>5, <2>7, <2>8, <2>9 DEF Kept
    <3>2. Reads(e, Advance(z))
      BY <2>5, <2>6, <2>9 DEF AfterError
    <3> QED
      BY <1>8, <2>8, <3>1, <3>2
  <2>10. CASE ~Ok(FirstError(errors))
    <3>1. Reads(e, Exit(z, Code(FirstError(errors))))
      BY <2>5, <2>6, <2>10 DEF AfterError
    <3> QED
      BY <1>8, <2>8, <3>1
  <2>11. Ok(FirstError(errors)) => \A i \in DOMAIN errors : Ok(errors[i])
    <3>1. CallAt(x).call = "preflight"
      BY <1>3, <1>12 DEF DoPreflight, IsCall
    <3>2. Numbered(checks)
      BY <1>2, <1>3, <2>1, <3>1 DEF Fitting
    <3>3. PICK n \in Nat : DOMAIN errors = 1 .. n
      BY <2>2, <3>2 DEF Numbered, Map
    <3> QED
      BY <3>3, AllChecksGood
  <2> QED
    BY <2>9, <2>10, <2>11
<1>13. CASE DoRead(e)
  <2>1. PICK p, err, text, u : /\ u = RecordCall(x.trace, "read", p, err)
                               /\ Reads(e, IF Ok(err) THEN Advance([x EXCEPT !.text = text, !.trace = u])
                                           ELSE Exit([x EXCEPT !.text = text, !.trace = u],
                                                     IF x.cmd.name \in {"edit", "count"} THEN Code(err)
                                                     ELSE "general"))
    BY <1>13 DEF DoRead, x, TraceRead
  <2>2. PICK z : z = [x EXCEPT !.text = text, !.trace = u]
    OBVIOUS
  <2>3. "read" \in Lists \ {"denied"}
    BY ListsAre
  <2>4. TellsMore(x.trace, u) /\ (~IsDeniedPathError(err) => u.denied = x.trace.denied)
    BY <1>5, <2>1, <2>3, CallRecorded
  <2>5. Same(z) /\ z.trace = u
    BY <1>2, <2>2, <2>4 DEF Same, Fields, x
  <2>6. Ok(err) => Kept(z)
    BY <1>5, <2>4, <2>5 DEF Kept, Ok, IsDeniedPathError, IsUnsupported
  <2>7. PICK y : /\ Reads(e, y)
                 /\ y = IF Ok(err) THEN Advance(z)
                        ELSE Exit(z, IF x.cmd.name \in {"edit", "count"} THEN Code(err) ELSE "general")
    BY <2>1, <2>2
  <2>8. \/ Kept(z) /\ y = Advance(z)
        \/ y = Exit(z, Code(err)) \/ y = Exit(z, "general")
    BY <2>6, <2>7
  <2> QED
    BY <1>8, <2>5, <2>7, <2>8
<1>14. CASE DoProbe(e)
  <2>1. PICK p, err, u : /\ u = RecordCall(x.trace, "read", p, err)
                         /\ Reads(e, CASE Ok(err) -> Skip([x EXCEPT !.trace = u], 2)
                                       [] IsPathMissing(err) -> Advance([x EXCEPT !.trace = u])
                                       [] OTHER -> Exit([x EXCEPT !.trace = u], "general"))
    BY <1>14 DEF DoProbe, x, TraceRead
  <2>2. PICK z : z = [x EXCEPT !.trace = u]
    OBVIOUS
  <2>3. "read" \in Lists \ {"denied"}
    BY ListsAre
  <2>4. TellsMore(x.trace, u) /\ (~IsDeniedPathError(err) => u.denied = x.trace.denied)
    BY <1>5, <2>1, <2>3, CallRecorded
  <2>5. Same(z) /\ z.trace = u
    BY <1>6, <2>2, <2>4
  <2>6. (Ok(err) \/ IsPathMissing(err)) => Kept(z)
    BY <1>5, <2>4, <2>5 DEF Kept, Ok, IsDeniedPathError, IsUnsupported, IsPathMissing
  <2>7. PICK y : /\ Reads(e, y)
                 /\ y = CASE Ok(err) -> Skip(z, 2)
                          [] IsPathMissing(err) -> Advance(z)
                          [] OTHER -> Exit(z, "general")
    BY <2>1, <2>2
  <2>8. \/ Kept(z) /\ (y = Advance(z) \/ y = Skip(z, 2))
        \/ y = Exit(z, "general")
    BY <2>6, <2>7
  <2> QED
    BY <1>8, <2>5, <2>7, <2>8
<1>15. CASE DoLook(e)
  <2>1. PICK ps : ps = Range(CallOf(e).paths)
    OBVIOUS
  <2>2. PICK errors : errors = [p \in ps |-> IsDirPath(world, p).err]
    OBVIOUS
  <2>3. PICK u : u = RecordCalls(x.trace, "read", errors)
    OBVIOUS
  <2>4. Reads(e, Advance([x EXCEPT !.trace = u]))
    BY <1>15, <2>1, <2>2, <2>3, Zenon DEF DoLook, x, TraceReads
  <2>5. PICK z : z = [x EXCEPT !.trace = u]
    OBVIOUS
  <2>6. "read" \in Lists \ {"denied"}
    BY ListsAre
  <2>7. TellsMore(x.trace, u) /\ u.denied = x.trace.denied \cup (DeniedOf(errors) \ {<<>>})
    BY <1>5, <2>3, <2>6, CallsRecorded
  <2>8. Same(z) /\ z.trace = u
    BY <1>6, <2>5, <2>7
  <2>9. \A p \in ps : IsMounted(p) \/ Admits(world, p)
    <3>1. CallAt(x).call = "look"
      BY <1>3, <1>15 DEF DoLook, IsCall
    <3>2. x.cmd.name = "mkdir" /\ x.at > 3 /\ ps \subseteq Range(x.cmd.paths)
      BY <1>2, <1>3, <2>1, <3>1 DEF Fitting
    <3> QED
      BY <1>2, <3>2 DEF Admitted, Batched, x
  <2>10. \A p \in DeniedOf(errors) : IsMounted(p)
    BY <2>2, <2>9, AdmittedLook DEF DeniedOf
  <2>11. Kept(z)
    BY <1>5, <2>7, <2>8, <2>10 DEF Kept
  <2> QED
    BY <1>8, <2>4, <2>5, <2>8, <2>11
<1>16. CASE DoUnique(e) \/ DoFits(e) \/ DoGroup(e)
  <2>1. PICK y : Reads(e, y) /\ (y = Exit(x, "general") \/ y = Advance(x))
    BY <1>16 DEF DoUnique, DoFits, DoGroup, x
  <2> QED
    BY <1>5, <1>8, <1>s, <2>1
<1>17. CASE DoRefresh(e)
  <2>1. PICK targets, narrow, m : /\ targets = CallOf(e).targets /\ narrow = CallOf(e).narrow
                                  /\ m = MountOf(CHOOSE p \in targets : TRUE)
    OBVIOUS
  <2>2. CASE ~Ok(RefreshMountRefused(m, targets, narrow))
    <3>1. Reads(e, Exit(x, Code(RefreshMountRefused(m, targets, narrow))))
      BY <1>17, <2>1, <2>2 DEF DoRefresh, x
    <3> QED
      BY <1>8, <1>s, <3>1
  <2>3. CASE /\ Ok(RefreshMountRefused(m, targets, narrow))
             /\ \E err : Reads(e, Exit(x, Code(err)))
    BY <1>8, <1>s, <2>3
  <2>4. CASE /\ Ok(RefreshMountRefused(m, targets, narrow))
             /\ ~\E err : Reads(e, Exit(x, Code(err)))
    <3>1. PICK took, err : Reads(e, AfterError([x EXCEPT !.refreshed = x.refreshed \cup took], err))
      BY <1>17, <2>1, <2>4 DEF DoRefresh, x
    <3>2. PICK z : z = [x EXCEPT !.refreshed = x.refreshed \cup took]
      OBVIOUS
    <3>3. Same(z) /\ z.trace = x.trace
      BY <1>2, <1>5, <3>2 DEF Same, Fields, x
    <3>4. PICK y : Reads(e, y) /\ (y = Advance(z) \/ y = Exit(z, Code(err)))
      BY <3>1, <3>2 DEF AfterError
    <3> QED
      BY <1>5, <1>8, <3>3, <3>4 DEF Kept
  <2> QED
    BY <2>2, <2>3, <2>4
<1> QED
  BY <1>10, <1>11, <1>12, <1>13, <1>14, <1>15, <1>16, <1>17

-----------------------------------------------------------------------------
(***************************************************************************)
(* What a call may be seen to have changed.                                *)
(***************************************************************************)

\* A path of the file system is seen as its host has it.
LEMMA ViewOfHost ==
    ASSUME NEW w, NEW v, v.host = w.host, v.adapter = w.adapter, NEW p, ~IsMounted(p)
    PROVE  View(v, p) = View(w, p)
  BY DEF View, HostNode, HostPlace, OnAgent

\* The root belongs to no mount.
LEMMA RootUnmounted == ~IsMounted(<<>>) /\ ~IsSyntheticPrefix(<<>>)
<1>1. ASSUME NEW m \in Mounts, Under(m.point, <<>>)
      PROVE  FALSE
  <2>1. m.point \in Paths /\ m.point # <<>>
    BY TreesAssumption, MountsAssumption DEF NewMountRouter, Paths
  <2> QED
    BY <1>1, <2>1, OverRoot
<1> QED
  BY <1>1 DEF IsMounted, IsSyntheticPrefix

\* Nor to a zone.
LEMMA RootOfNoZone == MatchZone(<<>>) = {}
<1>1. ASSUME NEW z \in Zones, Under(z.root, <<>>)
      PROVE  FALSE
  <2>1. z.root \in Paths /\ z.root # <<>>
    BY TreesAssumption, ZonesAssumption DEF NewFilesystem, Paths
  <2> QED
    BY <1>1, <2>1, OverRoot
<1> QED
  BY <1>1 DEF MatchZone

\* A change of the file system leaves every directory, but the one of an rmdir.
LEMMA CallKeepsDirs ==
    ASSUME NEW h, NEW base, NEW place, Passes(h, base, place), NEW op, NEW limit, NEW torn \in BOOLEAN,
           NEW result, Made(h, place, op, limit, torn, result)
    PROVE  DirsStay(h, result.host)
  BY WriteSafe, AppendSafe, EditSafe, MkdirAllSafe, RemoveSafe DEF Made, Safe

\* So the root is never seen to change.
LEMMA RootSeenSame ==
    ASSUME FilesInv, NEW op, op.kind \in Kinds, op.path = <<>>, NEW fault
    PROVE  View(FsApply(world, op, fault).world, <<>>) = View(world, <<>>)
<1> DEFINE v == FsApply(world, op, fault).world
<1>1. PICK h, torn : h = world.host /\ torn = (fault = "torn")
  OBVIOUS
<1>2. v.adapter = world.adapter
  BY FsKeeps DEF FilesInv, HostOnly
<1>3. CASE v.host = h
  BY <1>1, <1>2, <1>3, RootUnmounted, ViewOfHost
<1>4. CASE fault = "fails"
  BY <1>1, <1>3, <1>4 DEF FsApply, Failed
<1>5. CASE fault # "fails" /\ OnAgent(world)
  <2>1. v.host = AgentApply(h, op, torn).host
    BY <1>1, <1>5 DEF FsApply, WithHost, FilesInv, Shaped
  <2>2. ~Ok(ZoneMayWrite(h, <<>>))
    BY RootOfNoZone DEF ZoneMayWrite, ZoneCheckPathOp, ZoneResolve, ZoneAllows, Ok
  <2>3. AgentApply(h, op, torn).host = h
    <3>1. CASE op.kind = "rmdir"
      BY <3>1 DEF AgentApply, Refused
    <3>2. CASE op.kind # "rmdir"
      <4>1. op.kind \in Kinds \ {"rmdir"}
        BY <3>2
      <4> QED
        BY <2>2, <4>1, AgentGuarded, GuardedIs
    <3> QED
      BY <3>1, <3>2
  <2> QED
    BY <1>3, <2>1, <2>3
<1>6. CASE fault # "fails" /\ ~OnAgent(world)
  <2>1. PICK result : result = LocalApply(h, op, world.allowWrite, torn)
    OBVIOUS
  <2>2. v.host = result.host
    BY <1>1, <1>6, <2>1 DEF FsApply, WithHost, FilesInv, Shaped
  <2>3. LinksGood(h) /\ RootGood(h, LocalRoot) /\ LocalRoot \in Paths
    BY <1>1, <1>6, KeptLinksGood DEF FilesInv, RootsKept, ActiveRoots, RootGood
  <2>4. torn \in BOOLEAN /\ <<>> \in Paths
    BY <1>1 DEF Paths
  <2>5. CASE ~Ok(LocalMayWrite(h, <<>>, world.allowWrite))
    <3>1. CASE op.kind = "rmdir"
      <4>1. PICK checks : checks = <<LocalMayWrite(h, <<>>, world.allowWrite), Ensure(<<>> # LocalRoot, "plain"),
                                     IsKind(Stat(h, <<>>), "dir")>>
        OBVIOUS
      <4>2. result = Guarded(FirstError(checks), h, Rmdir(h, <<>>))
        BY <2>1, <3>1, <4>1 DEF LocalApply, LocalRemoveDir
      <4>3. PICK n \in Nat : n = 3 /\ DOMAIN checks = 1 .. n /\ checks[1] = LocalMayWrite(h, <<>>, world.allowWrite)
        BY <4>1
      <4>4. ~Ok(FirstError(checks))
        <5>1. 1 \in 1 .. n
          BY <4>3
        <5> QED
          BY <2>5, <4>3, <5>1, AllChecksGood
      <4> QED
        BY <1>3, <2>2, <4>2, <4>4, GuardedIs
    <3>2. CASE op.kind # "rmdir"
      <4>1. op.kind \in Kinds \ {"rmdir"}
        BY <3>2
      <4>2. PICK made, err : result = Guarded(err, h, made) /\ err \in {"plain", LocalMayWrite(h, <<>>, world.allowWrite)}
        BY <2>1, <4>1, LocalGuarded
      <4>3. ~Ok(err)
        BY <2>5, <4>2 DEF Ok
      <4> QED
        BY <1>3, <2>2, <4>2, <4>3, GuardedIs
    <3> QED
      BY <3>1, <3>2
  <2>6. CASE Ok(LocalMayWrite(h, <<>>, world.allowWrite))
    <3>1. Passes(h, LocalRoot, <<>>)
      BY <2>3, <2>4, <2>6, LocalPasses
    <3>2. LocalRoot = <<>>
      BY <2>3, <3>1, OverRoot DEF Passes
    <3>3. Kind(h, SubSeq(<<>>, 1, 0)) = "dir"
      BY <2>3, <3>2 DEF RootGood
    <3>4. SubSeq(<<>>, 1, 0) = <<>>
      OBVIOUS
    <3>5. <<>> \in DOMAIN h /\ h[<<>>].kind = "dir"
      BY <3>3, <3>4 DEF Kind, Exists
    <3>6. CASE op.kind = "rmdir"
      <4>1. PICK checks : checks = <<LocalMayWrite(h, <<>>, world.allowWrite), Ensure(<<>> # LocalRoot, "plain"),
                                     IsKind(Stat(h, <<>>), "dir")>>
        OBVIOUS
      <4>2. result = Guarded(FirstError(checks), h, Rmdir(h, <<>>))
        BY <2>1, <3>6, <4>1 DEF LocalApply, LocalRemoveDir
      <4>3. PICK n \in Nat : n = 3 /\ DOMAIN checks = 1 .. n /\ checks[2] = "plain"
        BY <3>2, <4>1 DEF Ensure
      <4>4. ~Ok(FirstError(checks))
        <5>1. 2 \in 1 .. n /\ ~Ok(checks[2])
          BY <4>3 DEF Ok
        <5> QED
          BY <4>3, <5>1, AllChecksGood
      <4> QED
        BY <1>3, <2>2, <4>2, <4>4, GuardedIs
    <3>7. CASE op.kind # "rmdir"
      <4>1. op.kind \in Kinds \ {"rmdir"}
        BY <3>7
      <4>2. PICK made, err : result = Guarded(err, h, made) /\ Made(h, <<>>, op, WriteLimit, torn, made)
        BY <2>1, <4>1, LocalGuarded
      <4>3. DirsStay(h, made.host)
        BY <2>4, <3>1, <4>2, CallKeepsDirs
      <4>4. CASE result = made
        <5>1. <<>> \in DOMAIN v.host /\ v.host[<<>>] = h[<<>>]
          BY <2>2, <3>5, <4>3, <4>4 DEF DirsStay
        <5>2. ASSUME NEW g, <<>> \in DOMAIN g, g[<<>>].kind = "dir"
              PROVE  Resolve(g, <<>>) = <<>>
          <6>1. \A i \in 0 .. Len(<<>>) : SubSeq(<<>>, 1, i) = <<>>
            OBVIOUS
          <6>2. LinksOn(g, <<>>) = {}
            BY <5>2, <6>1 DEF LinksOn, Kind, Exists
          <6> QED
            BY <6>2 DEF Resolve, ResolveLinks
        <5>3. Resolve(h, <<>>) = <<>> /\ Resolve(v.host, <<>>) = <<>>
          BY <3>5, <5>1, <5>2
        <5> QED
          BY <1>1, <1>2, <1>6, <3>5, <5>1, <5>3, RootUnmounted DEF View, HostNode, HostPlace, Node, OnAgent, Exists
      <4> QED
        BY <1>3, <2>2, <4>2, <4>4, GuardedIs
    <3> QED
      BY <3>6, <3>7
  <2> QED
    BY <2>5, <2>6
<1> QED
  BY <1>4, <1>5, <1>6

\* A call is seen to have changed at most its own path, and not the root.
LEMMA ChangedByOne ==
    ASSUME NEW w, NEW op
    PROVE  /\ ChangedBy(w, <<op>>) \subseteq {op.path}
           /\ View(w, op.path) = View(world, op.path) => ChangedBy(w, <<op>>) = {}
<1>0. PICK ops : ops = <<op>>
  OBVIOUS
<1>1. ops = <<op>> /\ \A i \in DOMAIN ops : ops[i] = op
  <2>1. DOMAIN ops = 1 .. 1 /\ ops[1] = op
    BY <1>0
  <2> QED
    BY <1>0, <2>1
<1>2. ChangedBy(w, ops) \subseteq {op.path}
  BY <1>1 DEF ChangedBy
<1>3. View(w, op.path) = View(world, op.path) => ChangedBy(w, ops) = {}
  BY <1>1 DEF ChangedBy
<1> QED
  BY <1>1, <1>2, <1>3

\* A batch of a mount is seen to have changed paths of mounts.
LEMMA ChangedByMount ==
    ASSUME NEW v, MountsOnly(world, v), NEW ops
    PROVE  \A p \in ChangedBy(v, ops) : IsMounted(p) /\ \E i \in DOMAIN ops : p = ops[i].path
  BY ViewOfHost DEF ChangedBy, MountsOnly

-----------------------------------------------------------------------------
(***************************************************************************)
(* What the calls that change something leave in the trace.                *)
(***************************************************************************)

\* What a change adds to what its execution has changed.
LEMMA EffectIs ==
    ASSUME NEW e \in Execs, DOMAIN execs = Execs, NEW z, DOMAIN z = Fields, NEW ops, NEW made,
           NEW result, Effect(e, z, ops, made, result), NEW y, y = execs'[e]
    PROVE  /\ DOMAIN y = Fields /\ y.changed = z.changed \cup ChangedBy(result.world, ops)
           /\ HiddenBy(made, result.err) \subseteq y.hidden
           /\ y.trace = z.trace /\ y.code = z.code /\ y.sub = z.sub
           /\ CallAt(y) = CallAt(z)
<1>1. PICK S, H : /\ S = z.changed \cup ChangedBy(result.world, ops)
                  /\ H = z.hidden \cup HiddenBy(made, result.err)
  OBVIOUS
<1>2. y = [z EXCEPT !.changed = S, !.hidden = H]
  BY <1>1 DEF Effect, Step
<1>3. /\ DOMAIN y = Fields /\ y.changed = S /\ y.hidden = H /\ y.trace = z.trace /\ y.code = z.code /\ y.sub = z.sub
      /\ y.cmd = z.cmd /\ y.text = z.text /\ y.at = z.at
  BY <1>2 DEF Fields
<1>4. CallAt(y) = CallAt(z)
  BY <1>3 DEF CallAt, ProgramOf
<1> QED
  BY <1>1, <1>3, <1>4

\* Where going on leads, and an exit, the trace stays.
LEMMA GoingOnKeeps ==
    ASSUME NEW z, DOMAIN z = Fields, z.code = "run", NEW y
    PROVE  /\ y = Advance(z) => /\ DOMAIN y = Fields /\ y.trace = z.trace /\ y.changed = z.changed
                                /\ y.code \in {"run", "ok"} /\ (y.code = "run" => y.sub = 1)
           /\ \A code : y = Exit(z, code) =>
                /\ DOMAIN y = Fields /\ y.trace = z.trace /\ y.changed = z.changed /\ y.code = code
<1>1. ASSUME y = Advance(z)
      PROVE  /\ DOMAIN y = Fields /\ y.trace = z.trace /\ y.changed = z.changed
             /\ y.code \in {"run", "ok"} /\ (y.code = "run" => y.sub = 1)
  <2>1. y = [z EXCEPT !.code = "ok"] \/ y = [z EXCEPT !.at = z.at + 1, !.sub = 1]
    BY <1>1 DEF Advance, Skip
  <2>2. CASE y = [z EXCEPT !.code = "ok"]
    BY <2>2 DEF Fields
  <2>3. CASE y = [z EXCEPT !.at = z.at + 1, !.sub = 1]
    BY <2>3 DEF Fields
  <2> QED
    BY <2>1, <2>2, <2>3
<1>2. ASSUME NEW code, y = Exit(z, code)
      PROVE  DOMAIN y = Fields /\ y.trace = z.trace /\ y.changed = z.changed /\ y.code = code
  <2>1. y = [z EXCEPT !.code = code]
    BY <1>2 DEF Exit
  <2> QED
    BY <2>1 DEF Fields
<1> QED
  BY <1>1, <1>2

\* A single change: on success its path is in the list of its effect, and what a rule
\* denies has changed nothing.
LEMMA CallAccounted ==
    ASSUME FilesInv, NEW e \in Execs, Accounted(execs[e]), DoCall(e)
    PROVE  Accounted(execs'[e])
<1> DEFINE x == execs[e]
<1>0. DOMAIN execs = Execs /\ Placed(x, Commands[e]) /\ Shaped(world)
  BY DEF FilesInv, ExecInv
<1>1. Running(e)
  BY DEF DoCall, IsCall
<1>2. /\ WellFormed(x.cmd) /\ x.code = "run" /\ DOMAIN x = Fields /\ Fitting(x.cmd, CallAt(x), x.at)
  BY <1>0, <1>1, AtCall, CommandsAssumption DEF Running
<1>3. CallAt(x).call = "call" /\ CallAt(x) = CallOf(e)
  BY DEF DoCall, IsCall, CallOf, CallAt
<1>4. PICK op : op = CallOf(e).op
  OBVIOUS
<1>5. OpOf(x.cmd, op) /\ op.kind \in Kinds
  BY <1>2, <1>3, <1>4 DEF Fitting, OpOf
<1>f. PICK fault \in Faults :
        \E result \in Mutate(world, op, fault) :
          Effect(e, AfterError([x EXCEPT !.trace = TraceMutate(x.trace, op, result.err)], result.err),
                 <<op>>, <<op>>, result)
  BY <1>4 DEF DoCall
<1>r. PICK result \in Mutate(world, op, fault) :
        Effect(e, AfterError([x EXCEPT !.trace = TraceMutate(x.trace, op, result.err)], result.err),
               <<op>>, <<op>>, result)
  BY <1>f
<1>6. PICK u, err : u = TraceMutate(x.trace, op, err) /\ err = result.err
  OBVIOUS
<1>7. PICK z : z = [x EXCEPT !.trace = u]
  OBVIOUS
<1>8. PICK a : a = AfterError(z, err)
  OBVIOUS
<1>9. PICK y : y = execs'[e]
  OBVIOUS
<1>10. DOMAIN z = Fields /\ z.trace = u /\ z.changed = x.changed /\ z.code = "run"
  BY <1>2, <1>7 DEF Fields
<1>11. a = IF Ok(err) THEN Advance(z) ELSE Exit(z, Code(err))
  BY <1>8 DEF AfterError
<1>12. /\ DOMAIN a = Fields /\ a.trace = u /\ a.changed = x.changed
       /\ Ok(err) => a.code \in {"run", "ok"} /\ (a.code = "run" => a.sub = 1)
       /\ ~Ok(err) => a.code \in {"unsupported", "general"}
  <2>1. Code(err) \in {"unsupported", "general"}
    BY DEF Code
  <2> QED
    BY <1>10, <1>11, <2>1, GoingOnKeeps
<1>13. Effect(e, a, <<op>>, <<op>>, result)
  BY <1>r, <1>6, <1>7, <1>8
<1> DEFINE new == ChangedBy(result.world, <<op>>)
<1>14. /\ y.changed = x.changed \cup new /\ y.trace = u /\ y.code = a.code /\ y.sub = a.sub
       /\ HiddenBy(<<op>>, err) \subseteq y.hidden
  BY <1>6, <1>0, <1>9, <1>12, <1>13, EffectIs
<1>15. MutationList(op.kind) \in Lists \ {"denied"} /\ MutationList(op.kind) \in EffectLists
  BY <1>5, MutationListIs, ListsAre
<1>16. DOMAIN x.trace = Lists /\ <<>> \notin x.changed /\ \A p \in x.trace.denied : IsMounted(p)
  BY <1>2 DEF Accounted, Tracked
<1>17. /\ TellsMore(x.trace, u)
       /\ u.denied \subseteq x.trace.denied \cup {op.path}
       /\ ~IsDeniedPathError(err) => u.denied = x.trace.denied
       /\ (Ok(err) /\ op.path # <<>>) => op.path \in Effects(u)
  <2>1. u = RecordCall(x.trace, MutationList(op.kind), op.path, err)
    BY <1>6 DEF TraceMutate
  <2> QED
    BY <1>15, <1>16, <2>1, CallRecorded
<1>18. x.changed \subseteq Effects(u) /\ DOMAIN u = Lists
  <2>1. x.changed \subseteq Effects(x.trace)
    BY <1>2, <1>3, NothingInHand
  <2> QED
    BY <1>17, <2>1 DEF TellsMore
<1>19. new \subseteq {op.path}
  BY ChangedByOne
<1>20. <<>> \notin new
  <2>1. CASE op.path = <<>>
    <3>1. result \in FsResults(world, op, fault)
      BY <2>1, RootUnmounted DEF Mutate
    <3>2. result.world = FsApply(world, op, fault).world
      BY <1>0, <3>1, FsResultIs DEF FsSame
    <3>3. View(result.world, <<>>) = View(world, <<>>)
      BY <1>5, <2>1, <3>2, RootSeenSame
    <3> QED
      BY <2>1, <3>3, ChangedByOne
  <2>2. CASE op.path # <<>>
    BY <1>19, <2>2
  <2> QED
    BY <2>1, <2>2
<1>21. ASSUME ~IsMounted(op.path), IsDeniedPathError(err), err # "worded"
       PROVE  new = {}
  <2>1. CASE IsSyntheticPrefix(op.path)
    <3>1. result.world = world
      BY <2>1 DEF Mutate, Failed
    <3> QED
      BY <3>1, NoChange
  <2>2. CASE ~IsSyntheticPrefix(op.path)
    <3>1. PICK r : r = FsApply(world, op, fault)
      OBVIOUS
    <3>s. FsSame(result, r)
      BY <1>0, <1>21, <2>2, <3>1, FsResultIs DEF Mutate
    <3>2. result.world.host = world.host
      <4>1. r.err = err
        BY <1>6, <1>21, <3>s DEF FsSame
      <4> QED
        BY <1>0, <1>5, <1>21, <3>1, <3>s, <4>1, DeniedChangesNothing DEF FsSame
    <3>3. result.world.adapter = world.adapter
      BY <1>0, <3>1, <3>s, FsKeeps DEF HostOnly, FsSame
    <3>4. View(result.world, op.path) = View(world, op.path)
      BY <1>21, <3>2, <3>3, ViewOfHost
    <3> QED
      BY <3>4, ChangedByOne
  <2> QED
    BY <2>1, <2>2
<1> HIDE DEF new, x
<1>22. CASE Ok(err)
  <2>1. ~IsDeniedPathError(err)
    BY <1>22 DEF Ok, IsDeniedPathError, IsUnsupported
  <2>2. DOMAIN y.trace = Lists /\ <<>> \notin y.changed /\ y.changed \subseteq Effects(y.trace)
    BY <1>14, <1>16, <1>17, <1>18, <1>19, <1>20, <1>22
  <2>3. y.code = "run" => y.sub = 1 /\ \A p \in y.trace.denied : IsMounted(p)
    BY <1>12, <1>14, <1>16, <1>17, <1>22, <2>1
  <2> QED
    BY <1>9, <2>2, <2>3, SettledIs
<1>23. CASE ~Ok(err)
  <2>1. y.code \in {"unsupported", "general"}
    BY <1>12, <1>14, <1>23
  <2>2. ASSUME NEW p \in y.changed, p \in y.trace.denied
        PROVE  IsMounted(p) \/ p \in Effects(y.trace) \/ p \in y.hidden
    <3>1. CASE err = "worded"
      <4>1. op.path \in HiddenBy(<<op>>, err)
        BY <3>1 DEF HiddenBy
      <4> QED
        BY <1>14, <1>18, <1>19, <2>2, <4>1
    <3>2. CASE err # "worded"
      BY <1>14, <1>16, <1>17, <1>18, <1>19, <1>21, <2>2, <3>2
    <3> QED
      BY <3>1, <3>2
  <2> QED
    BY <1>9, <1>14, <1>16, <1>18, <1>20, <2>1, <2>2 DEF Accounted, DenialsOf
<1> QED
  BY <1>22, <1>23

\* The operations of a batch that is not denied are all of mounts, or none is and the
\* batch goes on to the file system.
LEMMA BatchSides ==
    ASSUME NEW c, NEW ops, OpsOf(c, ops), BatchError(ops) # "denied",
           \A i \in DOMAIN ops : ~IsSyntheticPrefix(ops[i].path)
    PROVE  \/ \A i \in DOMAIN ops : IsMounted(ops[i].path)
           \/ Ok(BatchError(ops)) /\ \A i \in DOMAIN ops : ~IsMounted(ops[i].path)
<1>1. PICK n \in Nat \ {0} : DOMAIN ops = 1 .. n
  BY DEF OpsOf
<1>2. PICK mounted : mounted = {i \in 1 .. n : IsMounted(ops[i].path)}
  OBVIOUS
<1>3. BatchError(ops) = IF mounted = 1 .. n
                        THEN ValidateMountedMutationBatch(MountOf(ops[1].path), ops)
                        ELSE Ensure(mounted = {}, "denied")
  BY <1>1, <1>2, SortingIs
<1> QED
  BY <1>1, <1>2, <1>3 DEF Ensure, Ok

\* A batch of a mount that permits the calls one by one has changed nothing.
LEMMA FallbackKeeps ==
    ASSUME NEW w, Shaped(w), NEW ops, ops[1].path \in Paths, Ok(BatchError(ops)) => IsMounted(ops[1].path),
           NEW result \in MountBatch(w, ops), AllowsUnsupportedFallback(result.err)
    PROVE  result.world = w
<1>1. CASE ~Ok(BatchError(ops))
  BY <1>1 DEF MountBatch, UnlessRefused, Failed
<1>2. CASE Ok(BatchError(ops))
  <2>1. PICK m : m = MountOf(ops[1].path)
    OBVIOUS
  <2>2. m \in Mounts
    BY <1>2, <2>1, MountOfIs
  <2>3. PICK given \in ApplyMountMutations(w, m, ops) : result = ReorderMutationRecords(ops, given)
    BY <1>2, <2>1 DEF MountBatch, UnlessRefused
  <2>4. Answered(given)
    BY <2>2, MutationKeeps
  <2>5. result.err \in {given.err, "plain"} /\ result.world = given.world
    BY <2>3, <2>4 DEF ReorderMutationRecords, Failed, Answered
  <2>6. ~Ok(given.err)
    BY <2>5 DEF AllowsUnsupportedFallback, Ok
  <2>7. CASE ~Ok(MountMutationError(m, ops))
    BY <2>3, <2>5, <2>7 DEF ApplyMountMutations, UnlessRefused, Failed
  <2>8. CASE Ok(MountMutationError(m, ops))
    <3>1. given \in MutatorApply(w, m, ops)
      BY <2>3, <2>8 DEF ApplyMountMutations, UnlessRefused
    <3>2. PICK applied : given \in MutatorResults(w, m, ops, applied)
      BY <3>1, Zenon DEF MutatorApply
    <3> QED
      BY <2>5, <2>6, <3>2 DEF MutatorResults, Worded, Failed, Ok
  <2> QED
    BY <2>7, <2>8
<1> QED
  BY <1>1, <1>2

\* What a batch leaves, and where it leads.
Asked(batch) == {batch.ops[i].path : i \in DOMAIN batch.ops}

BatchTold(x, batch, result, y) ==
    /\ DOMAIN y = Fields /\ y.changed = x.changed /\ TellsMore(x.trace, y.trace)
    /\ ~Ok(result.err) => y.trace.denied \subseteq x.trace.denied \cup Asked(batch)
    /\ ~Ok(result.err) /\ ~IsDeniedPathError(result.err) => y.trace.denied = x.trace.denied
    /\ Ok(result.err) => y.code \in {"ok", "general"} /\ Asked(batch) \ {<<>>} \subseteq Effects(y.trace)
    /\ ~Ok(result.err) => \/ y.code = "general"
                          \/ AllowsUnsupportedFallback(result.err) /\ (y.code = "run" => y.sub = 1)

LEMMA BatchLeads ==
    ASSUME NEW x, DOMAIN x = Fields, x.code = "run", DOMAIN x.trace = Lists,
           NEW batch, \A i \in DOMAIN batch.ops : batch.ops[i].kind \in Kinds,
           NEW result, NEW y, y = AfterBatch(x, batch, result)
    PROVE  BatchTold(x, batch, result, y)
<1>0. PICK paths : paths = Asked(batch)
  OBVIOUS
<1>1. PICK ops : ops = batch.ops /\ paths = {ops[i].path : i \in DOMAIN ops}
  BY <1>0 DEF Asked
<1>2. PICK t : t = x.trace
  OBVIOUS
<1>3. PICK asked : asked = RecordPaths(t, "requested", paths)
  OBVIOUS
<1>4. PICK u : u = TraceBatch(t, ops, result)
  OBVIOUS
<1>r. PICK records : records = result.records
  OBVIOUS
<1>5. /\ Ok(result.err) => u = RecordMutationBatch(asked, ops, records)
      /\ ~Ok(result.err) => u = IF IsDeniedPathError(result.err)
                                 THEN RecordPaths(asked, "denied", paths) ELSE asked
  <2>1. PICK all : all = RecordMutationBatch(asked, ops, records)
    OBVIOUS
  <2>2. u = CASE Ok(result.err) -> all
              [] IsDeniedPathError(result.err) -> RecordPaths(asked, "denied", paths)
              [] OTHER -> asked
    BY <1>1, <1>3, <1>4, <1>r, <2>1 DEF TraceBatch
  <2> QED
    BY <2>1, <2>2 DEF Ok, IsDeniedPathError, IsUnsupported
<1>6. TellsMore(t, asked) /\ asked.denied = t.denied
  BY <1>2, <1>3, RequestRecorded
<1>7. CASE Ok(result.err)
  <2>2. u = RecordMutationBatch(asked, ops, records)
    BY <1>5, <1>7
  <2>3. /\ TellsMore(asked, u)
        /\ \A i \in DOMAIN ops : ops[i].path # <<>> => ops[i].path \in Effects(u)
    <3>1. DOMAIN asked = Lists
      BY <1>6 DEF TellsMore
    <3>2. \A i \in DOMAIN ops : ops[i].kind \in Kinds
      BY <1>1
    <3> QED
      BY <2>2, <3>1, <3>2, BatchRecorded
  <2>4. TellsMore(t, u) /\ paths \ {<<>>} \subseteq Effects(u)
    BY <1>1, <1>6, <2>3 DEF TellsMore
  <2>5. PICK z : z = [x EXCEPT !.trace = u]
    OBVIOUS
  <2>6. DOMAIN z = Fields /\ z.trace = u /\ z.changed = x.changed /\ z.code = "run"
    BY <2>5 DEF Fields
  <2>7. PICK code \in {"ok", "general"} : y = Exit(z, code)
    <3>1. PICK good \in BOOLEAN :
            good = (~batch.strict \/ EnsureSuccessfulTransferRecords(result.records))
      OBVIOUS
    <3>2. y = CASE Ok(result.err) -> Exit(z, IF good THEN "ok" ELSE "general")
                [] AllowsUnsupportedFallback(result.err) -> Advance(z)
                [] OTHER -> Exit(z, "general")
      BY <1>1, <1>2, <1>4, <2>5, <3>1 DEF AfterBatch
    <3> QED
      BY <1>7, <3>1, <3>2 DEF Ok, AllowsUnsupportedFallback
  <2>8. DOMAIN y = Fields /\ y.trace = u /\ y.changed = x.changed /\ y.code = code
    BY <2>6, <2>7, GoingOnKeeps
  <2> QED
    BY <1>0, <1>2, <1>7, <2>4, <2>8 DEF BatchTold
<1>8. CASE ~Ok(result.err)
  <2>1. /\ TellsMore(t, u) /\ u.denied \subseteq t.denied \cup paths
        /\ ~IsDeniedPathError(result.err) => u.denied = t.denied
    <3>1. CASE IsDeniedPathError(result.err)
      <4>1. u = RecordPaths(RecordPaths(t, "requested", paths), "denied", paths)
        BY <1>3, <1>5, <1>8, <3>1
      <4>2. TellsMore(t, u) /\ u.denied = t.denied \cup (paths \ {<<>>})
        BY <1>2, <4>1, DenialRecorded
      <4> QED
        BY <3>1, <4>2
    <3>2. CASE ~IsDeniedPathError(result.err)
      BY <1>5, <1>6, <1>8, <3>2
    <3> QED
      BY <3>1, <3>2
  <2>2. PICK z : z = [x EXCEPT !.trace = u]
    OBVIOUS
  <2>3. DOMAIN z = Fields /\ z.trace = u /\ z.changed = x.changed /\ z.code = "run"
    BY <2>2 DEF Fields
  <2>4. y = Exit(z, "general") \/ (AllowsUnsupportedFallback(result.err) /\ y = Advance(z))
    BY <1>1, <1>2, <1>4, <1>8, <2>2 DEF AfterBatch
  <2>5. /\ DOMAIN y = Fields /\ y.trace = u /\ y.changed = x.changed
        /\ \/ y.code = "general"
           \/ AllowsUnsupportedFallback(result.err) /\ (y.code = "run" => y.sub = 1)
    BY <2>3, <2>4, GoingOnKeeps
  <2> QED
    BY <1>0, <1>2, <1>8, <2>1, <2>5 DEF BatchTold
<1> QED
  BY <1>7, <1>8

\* A batch of a mount: the trace has all of it once it is done, and its denial only
\* when it changed nothing but mounts.
LEMMA MountBatchAccounted ==
    ASSUME FilesInv, NEW e \in Execs, Accounted(execs[e]), DoMountBatch(e)
    PROVE  Accounted(execs'[e])
<1> DEFINE x == execs[e]
<1>0. DOMAIN execs = Execs /\ Placed(x, Commands[e]) /\ Shaped(world) /\ ExecInv(x, Commands[e], world.allowWrite)
  BY DEF FilesInv, ExecInv
<1>1. Running(e)
  BY DEF DoMountBatch, IsCall
<1>2. /\ WellFormed(x.cmd) /\ x.code = "run" /\ DOMAIN x = Fields /\ Fitting(x.cmd, CallAt(x), x.at)
  BY <1>0, <1>1, AtCall, CommandsAssumption DEF Running
<1>3. PICK batch : batch = CallOf(e)
  OBVIOUS
<1>4. CallAt(x).call = "batch" /\ CallAt(x) = batch
  BY <1>3 DEF DoMountBatch, IsCall, CallOf, CallAt
<1>5. PICK ops : ops = batch.ops
  OBVIOUS
<1>6. OpsOf(x.cmd, ops) /\ x.cmd.name \in Batched /\ x.at > 3
  BY <1>2, <1>4, <1>5 DEF Fitting, BatchAt
<1>7. /\ 1 \in DOMAIN ops /\ ops[1].path \in Paths
      /\ \A i \in DOMAIN ops : ops[i].kind \in Kinds /\ ops[i].path \in Range(x.cmd.paths)
  BY <1>2, <1>6, PathsOf DEF OpsOf, OpOf
<1>8. /\ Ok(BatchError(ops)) => IsMounted(ops[1].path)
      /\ \E result \in MountBatch(world, ops) :
           Effect(e, AfterBatch(x, batch, result), ops, ops, result)
  BY <1>3, <1>5 DEF DoMountBatch
<1>9. PICK result \in MountBatch(world, ops) : Effect(e, AfterBatch(x, batch, result), ops, ops, result)
  BY <1>8
<1>10. MountsOnly(world, result.world)
  BY <1>0, <1>7, <1>8, BatchKeeps
<1>11. x.sub = 1 /\ \A p \in x.trace.denied : IsMounted(p)
  BY <1>2, <1>4, <1>5, <1>8 DEF Accounted, Tracked
<1>12. DOMAIN x.trace = Lists /\ <<>> \notin x.changed /\ x.changed \subseteq Effects(x.trace)
  BY <1>2, <1>11, NothingInHand DEF Accounted
<1>13. PICK new : /\ new = ChangedBy(result.world, ops)
                  /\ \A p \in new : IsMounted(p) /\ \E i \in DOMAIN ops : p = ops[i].path
  BY <1>10, ChangedByMount
<1>14. <<>> \notin new
  BY <1>13, RootUnmounted
<1>15. PICK a : a = AfterBatch(x, batch, result)
  OBVIOUS
<1>16. PICK paths : paths = {batch.ops[i].path : i \in DOMAIN batch.ops}
  OBVIOUS
<1>r. PICK rx : rx = x
  OBVIOUS
<1>17. /\ DOMAIN a = Fields /\ a.changed = x.changed /\ TellsMore(x.trace, a.trace)
       /\ ~Ok(result.err) => a.trace.denied \subseteq x.trace.denied \cup paths
       /\ ~Ok(result.err) /\ ~IsDeniedPathError(result.err) => a.trace.denied = x.trace.denied
       /\ Ok(result.err) => a.code \in {"ok", "general"} /\ paths \ {<<>>} \subseteq Effects(a.trace)
       /\ ~Ok(result.err) => \/ a.code = "general"
                             \/ AllowsUnsupportedFallback(result.err) /\ (a.code = "run" => a.sub = 1)
  <2>1. DOMAIN rx = Fields /\ rx.code = "run" /\ DOMAIN rx.trace = Lists
    BY <1>2, <1>12, <1>r
  <2>2. \A i \in DOMAIN batch.ops : batch.ops[i].kind \in Kinds
    BY <1>5, <1>7
  <2>3. a = AfterBatch(rx, batch, result)
    BY <1>15, <1>r
  <2>4. BatchTold(rx, batch, result, a)
    BY <2>1, <2>2, <2>3, BatchLeads
  <2>5. Asked(batch) = paths
    BY <1>16 DEF Asked
  <2> QED
    BY <1>r, <2>4, <2>5 DEF BatchTold
<1>18. PICK y : y = execs'[e]
  OBVIOUS
<1>19. y.changed = x.changed \cup new /\ y.trace = a.trace /\ y.code = a.code /\ y.sub = a.sub
  BY <1>0, <1>9, <1>13, <1>15, <1>17, <1>18, EffectIs
<1>20. DOMAIN y.trace = Lists /\ <<>> \notin y.changed /\ x.changed \subseteq Effects(y.trace)
  BY <1>12, <1>14, <1>17, <1>19 DEF TellsMore
<1>21. CASE Ok(result.err)
  <2>1. y.changed \subseteq Effects(y.trace)
    BY <1>5, <1>13, <1>14, <1>16, <1>17, <1>19, <1>20, <1>21
  <2>2. y.code # "run"
    BY <1>17, <1>19, <1>21
  <2> QED
    BY <1>18, <1>20, <2>1, <2>2, SettledIs
<1>22. CASE AllowsUnsupportedFallback(result.err)
  <2>1. new = {}
    BY <1>0, <1>7, <1>8, <1>9, <1>13, <1>22, FallbackKeeps, NoChange
  <2>2. BatchError(ops) # "denied"
    <3>1. ~Ok(BatchError(ops)) => result = Failed(world, BatchError(ops))
      BY <1>9 DEF MountBatch, UnlessRefused
    <3> QED
      BY <1>22, <3>1 DEF Failed, Ok, AllowsUnsupportedFallback
  <2>3. \A i \in DOMAIN ops : ~IsSyntheticPrefix(ops[i].path)
    BY <1>0, <1>2, <1>6, <1>7 DEF ExecInv, Cleared
  <2>4. \A i \in DOMAIN ops : IsMounted(ops[i].path)
    BY <1>6, <1>7, <1>8, <2>2, <2>3, BatchSides
  <2>5. \A p \in y.trace.denied : IsMounted(p)
    BY <1>5, <1>11, <1>16, <1>17, <1>19, <1>22, <2>4 DEF AllowsUnsupportedFallback, Ok
  <2>6. y.changed \subseteq Effects(y.trace)
    BY <1>19, <1>20, <2>1
  <2>7. y.code = "run" => y.sub = 1
    BY <1>17, <1>19, <1>22 DEF AllowsUnsupportedFallback, Ok
  <2> QED
    BY <1>18, <1>20, <2>5, <2>6, <2>7, SettledIs
<1>23. CASE ~Ok(result.err) /\ ~AllowsUnsupportedFallback(result.err)
  <2>1. y.code = "general"
    BY <1>17, <1>19, <1>23
  <2>2. ASSUME NEW p \in y.changed, p \in y.trace.denied
        PROVE  IsMounted(p) \/ p \in Effects(y.trace) \/ p \in y.hidden
    BY <1>13, <1>19, <1>20, <2>2
  <2> QED
    BY <1>18, <1>20, <2>1, <2>2 DEF Accounted, DenialsOf
<1> QED
  BY <1>21, <1>22, <1>23

\* One operation of a batch of the file system: no rule denies it, for its path has
\* passed the checks, and while the batch goes on it is in hand; an error in the words
\* of a denial hides it and those before it.
LEMMA FsBatchAccounted ==
    ASSUME FilesInv, NEW e \in Execs, Accounted(execs[e]), Admitted(world, execs[e]), DoFsBatch(e)
    PROVE  Accounted(execs'[e])
<1> DEFINE x == execs[e]
<1>0. DOMAIN execs = Execs /\ Placed(x, Commands[e]) /\ Shaped(world) /\ ExecInv(x, Commands[e], world.allowWrite)
  BY DEF FilesInv, ExecInv
<1>1. Running(e)
  <2>1. IsCall(e, "batch")
    BY Zenon DEF DoFsBatch
  <2> QED
    BY <2>1 DEF IsCall
<1>2. /\ WellFormed(x.cmd) /\ x.code = "run" /\ DOMAIN x = Fields /\ Fitting(x.cmd, CallAt(x), x.at)
  BY <1>0, <1>1, AtCall, CommandsAssumption DEF Running
<1>3. PICK batch : batch = CallOf(e)
  OBVIOUS
<1>4. CallAt(x).call = "batch" /\ CallAt(x) = batch
  BY <1>3 DEF DoFsBatch, IsCall, CallOf, CallAt
<1>5. PICK ops, i : ops = batch.ops /\ i = x.sub
  OBVIOUS
<1>6. OpsOf(x.cmd, ops) /\ x.cmd.name \in Batched /\ x.at > 3 /\ i \in DOMAIN ops
  BY <1>0, <1>2, <1>4, <1>5 DEF Fitting, BatchAt, Placed
<1>7. PICK op : op = ops[i]
  OBVIOUS
<1>8. op.kind \in Kinds \ {"rmdir"} /\ op.path \in Range(x.cmd.paths)
  BY <1>6, <1>7 DEF OpsOf, OpOf
<1>9. Ok(BatchError(ops)) /\ ~IsMounted(ops[1].path)
  BY <1>3, <1>5 DEF DoFsBatch
<1>10. \A k \in DOMAIN ops : ~IsMounted(ops[k].path)
  <2>1. \A k \in DOMAIN ops : ~IsSyntheticPrefix(ops[k].path)
    BY <1>0, <1>2, <1>6 DEF ExecInv, Cleared, OpsOf, OpOf
  <2>2. BatchError(ops) # "denied" /\ 1 \in DOMAIN ops
    BY <1>6, <1>9 DEF Ok, OpsOf
  <2> QED
    BY <1>6, <1>9, <2>1, <2>2, BatchSides
<1>11. Admits(world, op.path) /\ world.allowWrite
  <2>1. Admits(world, op.path)
    BY <1>2, <1>6, <1>7, <1>8, <1>10 DEF Admitted
  <2>2. x.cmd.name \in Writers /\ x.at > AllowedAt(x.cmd)
    BY <1>2, <1>4 DEF Fitting
  <2> QED
    BY <1>0, <1>2, <2>1, <2>2 DEF ExecInv, Cleared
<1>12. PICK fault \in Faults : \E result \in FsResults(world, op, fault) :
         LET whole == [result EXCEPT !.records = Records(ops)]
         IN Effect(e, CASE ~Ok(result.err) -> AfterBatch(x, batch, result)
                        [] Ok(result.err) /\ i < Len(ops) -> [x EXCEPT !.sub = i + 1]
                        [] OTHER -> AfterBatch(x, batch, whole),
                   <<op>>, SubSeq(ops, 1, i), result)
  BY <1>3, <1>5, <1>7 DEF DoFsBatch
<1>13. PICK result \in FsResults(world, op, fault) :
         LET whole == [result EXCEPT !.records = Records(ops)]
         IN Effect(e, CASE ~Ok(result.err) -> AfterBatch(x, batch, result)
                        [] Ok(result.err) /\ i < Len(ops) -> [x EXCEPT !.sub = i + 1]
                        [] OTHER -> AfterBatch(x, batch, whole),
                   <<op>>, SubSeq(ops, 1, i), result)
  BY <1>12
<1>s. FsSame(result, FsApply(world, op, fault))
  BY <1>0, <1>13, FsResultIs
<1>14. PICK whole : whole = [result EXCEPT !.records = Records(ops)]
  OBVIOUS
<1>15. PICK z : z = CASE ~Ok(result.err) -> AfterBatch(x, batch, result)
                      [] Ok(result.err) /\ i < Len(ops) -> [x EXCEPT !.sub = i + 1]
                      [] OTHER -> AfterBatch(x, batch, whole)
  OBVIOUS
<1>16. Effect(e, z, <<op>>, SubSeq(ops, 1, i), result)
  BY <1>13, <1>14, <1>15
<1>17. result.err = "worded" \/ ~IsDeniedPathError(result.err)
  BY <1>8, <1>11, <1>s, AdmittedErr DEF FsSame
<1>18. PICK rx : rx = x
  OBVIOUS
<1>19. /\ DOMAIN rx = Fields /\ rx.code = "run" /\ DOMAIN rx.trace = Lists
       /\ <<>> \notin rx.changed /\ \A p \in rx.trace.denied : IsMounted(p)
       /\ rx.changed \subseteq Effects(rx.trace) \cup {ops[k].path : k \in 1 .. (i - 1)}
  <2>1. InHand(x) = {ops[k].path : k \in 1 .. (i - 1)}
    BY <1>2, <1>4, <1>5 DEF InHand
  <2> QED
    BY <1>2, <1>18, <2>1 DEF Accounted, Tracked
<1>20. \A k \in DOMAIN batch.ops : batch.ops[k].kind \in Kinds
  BY <1>5, <1>6 DEF OpsOf, OpOf
<1>21. PICK new : new = ChangedBy(result.world, <<op>>)
  OBVIOUS
<1>22. new \subseteq {op.path} /\ <<>> \notin new
  <2>1. new \subseteq {op.path}
    BY <1>21, ChangedByOne
  <2>2. CASE op.path = <<>>
    <3>1. View(result.world, <<>>) = View(world, <<>>)
      BY <1>8, <1>s, <2>2, RootSeenSame DEF FsSame
    <3> QED
      BY <1>21, <2>2, <3>1, ChangedByOne
  <2>3. CASE op.path # <<>>
    BY <2>1, <2>3
  <2> QED
    BY <2>2, <2>3, <2>1
<1>23. PICK y : y = execs'[e]
  OBVIOUS
<1>24. DOMAIN z = Fields =>
         /\ DOMAIN y = Fields /\ y.changed = z.changed \cup new
         /\ y.trace = z.trace /\ y.code = z.code /\ y.sub = z.sub /\ CallAt(y) = CallAt(z)
         /\ HiddenBy(SubSeq(ops, 1, i), result.err) \subseteq y.hidden
  BY <1>0, <1>16, <1>21, <1>23, EffectIs
<1>25. \E n \in Nat \ {0} : DOMAIN ops = 1 .. n /\ Len(ops) = n
  BY <1>6 DEF OpsOf
<1>26. CASE ~Ok(result.err)
  <2>1. z = AfterBatch(rx, batch, result)
    BY <1>15, <1>18, <1>26
  <2>2. BatchTold(rx, batch, result, z)
    BY <1>19, <1>20, <2>1, BatchLeads
  <2>3. /\ DOMAIN z = Fields /\ z.changed = rx.changed /\ TellsMore(rx.trace, z.trace)
        /\ z.code = "general"
        /\ result.err # "worded" => z.trace.denied = rx.trace.denied
    BY <1>17, <1>26, <2>2 DEF BatchTold, AllowsUnsupportedFallback, IsDeniedPathError, IsUnsupported
  <2>4. DOMAIN y.trace = Lists /\ <<>> \notin y.changed /\ y.code = "general"
    BY <1>19, <1>22, <1>24, <2>3 DEF TellsMore
  <2>5. CASE result.err # "worded"
    BY <1>19, <1>23, <1>24, <2>3, <2>4, <2>5 DEF DenialsOf, Accounted
  <2>6. CASE result.err = "worded"
    <3>1. {ops[k].path : k \in 1 .. (i - 1)} \cup {op.path} \subseteq y.hidden
      <4>1. PICK made : made = SubSeq(ops, 1, i)
        OBVIOUS
      <4>2. DOMAIN made = 1 .. i /\ \A k \in 1 .. i : made[k] = ops[k]
        BY <1>6, <1>25, <4>1
      <4>3. {made[k].path : k \in DOMAIN made} \subseteq y.hidden
        BY <1>24, <2>3, <2>6, <4>1 DEF HiddenBy
      <4>4. i \in 1 .. i /\ 1 .. (i - 1) \subseteq 1 .. i
        BY <1>6, <1>25
      <4> QED
        BY <1>7, <4>2, <4>3, <4>4
    <3>2. y.changed \subseteq Effects(y.trace) \cup y.hidden
      BY <1>19, <1>22, <1>24, <2>3, <3>1 DEF TellsMore
    <3>3. DenialsOf(y)
      BY <3>2 DEF DenialsOf
    <3> QED
      BY <1>23, <2>4, <3>3 DEF Accounted
  <2> QED
    BY <2>5, <2>6
<1>27. CASE Ok(result.err) /\ i < Len(ops)
  <2>1. z = [rx EXCEPT !.sub = i + 1]
    BY <1>15, <1>18, <1>27
  <2>2. /\ DOMAIN z = Fields /\ z.cmd = rx.cmd /\ z.code = "run" /\ z.changed = rx.changed
        /\ z.trace = rx.trace /\ z.sub = i + 1 /\ z.at = rx.at /\ z.text = rx.text
    BY <1>19, <2>1 DEF Fields
  <2>3. CallAt(z) = batch
    BY <1>4, <1>18, <2>2 DEF ProgramOf, CallAt
  <2>4. /\ y.changed = rx.changed \cup new /\ y.trace = rx.trace /\ y.code = "run" /\ y.sub = i + 1
        /\ CallAt(y) = batch
    BY <1>24, <2>2, <2>3
  <2>5. InHand(y) = {ops[k].path : k \in 1 .. i}
    <3>1. y.sub - 1 = i
      BY <1>6, <1>25, <2>4
    <3> QED
      BY <1>4, <1>5, <2>4, <3>1 DEF InHand
  <2>6. y.changed \subseteq Effects(y.trace) \cup InHand(y)
    <3>1. i \in 1 .. i /\ 1 .. (i - 1) \subseteq 1 .. i
      BY <1>6, <1>25
    <3> QED
      BY <1>7, <1>19, <1>22, <2>4, <2>5, <3>1
  <2>7. Tracked(y)
    BY <1>5, <1>9, <1>19, <2>4, <2>6 DEF Tracked
  <2>8. DenialsOf(y)
    BY <1>19, <2>4 DEF DenialsOf
  <2>9. DOMAIN y.trace = Lists /\ <<>> \notin y.changed
    BY <1>19, <1>22, <2>4
  <2> QED
    BY <1>23, <2>4, <2>7, <2>8, <2>9 DEF Accounted
<1>28. CASE Ok(result.err) /\ ~(i < Len(ops))
  <2>1. z = AfterBatch(rx, batch, whole)
    BY <1>15, <1>18, <1>28
  <2>2. whole.err = result.err
    BY <1>14, <1>s DEF FsSame, Answered
  <2>3. BatchTold(rx, batch, whole, z)
    BY <1>19, <1>20, <2>1, BatchLeads
  <2>4. /\ DOMAIN z = Fields /\ z.changed = rx.changed /\ TellsMore(rx.trace, z.trace)
        /\ z.code \in {"ok", "general"} /\ Asked(batch) \ {<<>>} \subseteq Effects(z.trace)
    BY <1>28, <2>2, <2>3 DEF BatchTold
  <2>5. 1 .. (i - 1) \subseteq DOMAIN ops
    BY <1>6, <1>25
  <2>6. {ops[k].path : k \in 1 .. (i - 1)} \cup {op.path} \subseteq Asked(batch)
    BY <1>5, <1>6, <1>7, <2>5 DEF Asked
  <2>7. DOMAIN y.trace = Lists /\ <<>> \notin y.changed /\ y.code # "run"
    BY <1>19, <1>22, <1>24, <2>4 DEF TellsMore
  <2>8. y.changed \subseteq Effects(y.trace)
    BY <1>19, <1>22, <1>24, <2>4, <2>6 DEF TellsMore
  <2> QED
    BY <1>23, <2>7, <2>8, SettledIs
<1> QED
  BY <1>26, <1>27, <1>28

\* Paths that are admitted remain so while no link is new.
LEMMA AdmittedStays ==
    ASSUME LinksKept, NEW v, NoNewLinks(world.host, v.host), v.adapter = world.adapter,
           NEW x, x.code = "run" => WellFormed(x.cmd), Admitted(world, x)
    PROVE  Admitted(v, x)
<1>1. ASSUME x.code = "run", x.cmd.name \in Batched, x.at > 3, NEW p \in Range(x.cmd.paths), ~IsMounted(p)
      PROVE  Admits(v, p)
  <2>1. Admits(world, p)
    BY <1>1 DEF Admitted
  <2>2. p \in Paths
    BY <1>1, PathsOf
  <2> QED
    BY <2>1, <2>2, AdmitsStays
<1> QED
  BY <1>1 DEF Admitted

\* An execution that goes past the checks of its batch has had them.
LEMMA AdmittedMoves ==
    ASSUME FilesInv, NEW e \in Execs, OnlyMoves(e), Admitted(world, execs[e])
    PROVE  Admitted(world, execs'[e])
<1> DEFINE x == execs[e]
<1>0. /\ Running(e) /\ Moves(x, execs'[e]) /\ Placed(x, Commands[e])
  BY DEF OnlyMoves, FilesInv, ExecInv
<1>1. WellFormed(x.cmd) /\ x.at \in Nat \ {0} /\ Fitting(x.cmd, CallAt(x), x.at) /\ x.code = "run"
  BY <1>0, AtCall, CommandsAssumption DEF Running
<1>2. PICK y : y = execs'[e]
  OBVIOUS
<1>3. Moves(x, y) /\ y.cmd = x.cmd
  BY <1>0, <1>2 DEF Moves
<1>4. ASSUME y.code = "run", y.cmd.name \in Batched, y.at > 3, NEW p \in Range(y.cmd.paths), ~IsMounted(p)
      PROVE  Admits(world, p)
  <2>1. CASE x.at > 3
    BY <1>1, <1>3, <1>4, <2>1 DEF Admitted
  <2>2. CASE ~(x.at > 3)
    <3>1. CallAt(x).call = "probe" => x.cmd.name = "touch"
      BY <1>1 DEF Fitting
    <3>2. y.at = x.at + 1 /\ Passed(CallAt(x)) /\ x.at = 3
      BY <1>1, <1>3, <1>4, <2>2, <3>1 DEF Moves, Batched
    <3>3. CallAt(x).call = "preflight" /\ ChecksOf(x.cmd, CallAt(x).checks)
      BY <1>1, <1>3, <1>4, <3>2 DEF Fitting
    <3>4. PICK checks : checks = CallAt(x).checks
      OBVIOUS
    <3>5. \A k \in DOMAIN checks : Ok(CheckPathOp(world, checks[k][1], checks[k][2]))
      BY <3>2, <3>3, <3>4 DEF Passed, ChecksOf
    <3>6. PICK k \in DOMAIN checks : checks[k][2] = p /\ checks[k][1] \in {"write", "mkdir", "remove"}
      BY <1>3, <1>4, <3>3, <3>4 DEF ChecksOf
    <3>7. PICK op \in {"write", "mkdir", "remove"} : Ok(CheckPathOp(world, op, p))
      BY <3>5, <3>6
    <3>8. p \in Paths
      BY <1>1, <1>3, <1>4, PathsOf
    <3> QED
      BY <1>4, <3>7, <3>8, AdmittedByCheck
  <2> QED
    BY <2>1, <2>2
<1> QED
  BY <1>2, <1>4 DEF Admitted

\* The others are accounted for as before.
LEMMA OthersAccounted ==
    ASSUME TraceInv, NEW e \in Execs, OnlyMoves(e), Accounted(execs'[e]),
           NoNewLinks(world.host, world'.host), world'.adapter = world.adapter
    PROVE  \A d \in Execs : Accounted(execs'[d]) /\ Admitted(world', execs'[d])
<1>1. FilesInv /\ LinksKept
  BY DEF TraceInv, FilesInv
<1>2. ASSUME NEW d \in Execs
      PROVE  execs[d].code = "run" => WellFormed(execs[d].cmd)
  BY <1>1, CommandsAssumption DEF FilesInv, ExecInv, Placed
<1>3. Admitted(world', execs'[e])
  <2>1. Admitted(world, execs'[e])
    BY <1>1, AdmittedMoves DEF TraceInv
  <2>2. execs'[e].cmd = execs[e].cmd /\ execs[e].code = "run"
    BY DEF OnlyMoves, Moves, Running
  <2> QED
    BY <1>1, <1>2, <2>1, <2>2, AdmittedStays
<1>4. ASSUME NEW d \in Execs, d # e
      PROVE  Accounted(execs'[d]) /\ Admitted(world', execs'[d])
  <2>1. execs'[d] = execs[d]
    BY <1>4 DEF OnlyMoves
  <2>2. Accounted(execs[d]) /\ Admitted(world, execs[d])
    BY DEF TraceInv
  <2>3. Admitted(world', execs[d])
    BY <1>1, <1>2, <2>2, AdmittedStays
  <2> QED
    BY <2>1, <2>2, <2>3
<1> QED
  BY <1>3, <1>4

\* Whether an execution has been alone has no part in it.
LEMMA AloneAccounted ==
    ASSUME NEW x, DOMAIN x = Fields, NEW w, Accounted(x), Admitted(w, x), NEW y, y = [x EXCEPT !.alone = FALSE]
    PROVE  Accounted(y) /\ Admitted(w, y)
<1>1. /\ y.cmd = x.cmd /\ y.at = x.at /\ y.sub = x.sub /\ y.text = x.text
      /\ y.code = x.code /\ y.changed = x.changed /\ y.trace = x.trace
  BY DEF Fields
<1>2. CallAt(y) = CallAt(x)
  BY <1>1 DEF ProgramOf, CallAt
<1>3. InHand(y) = InHand(x)
  BY <1>1, <1>2 DEF InHand
<1>4. Tracked(x) => Tracked(y)
  BY <1>1, <1>2, <1>3 DEF Tracked
<1> QED
  BY <1>1, <1>4 DEF Accounted, DenialsOf, Admitted

\* An execution starts with nothing changed and an empty trace.
LEMMA StartAccounted ==
    ASSUME NEW w, NEW c, NEW alone, NEW y,
           y = [Idle EXCEPT !.cmd = c, !.at = 1, !.sub = 1, !.code = "run", !.alone = alone]
    PROVE  Accounted(y) /\ Admitted(w, y)
<1>1. y.at = 1 /\ y.sub = 1 /\ y.trace = EmptyTrace /\ y.changed = {}
  BY DEF Idle
<1>2. DOMAIN EmptyTrace = Lists /\ EmptyTrace.denied = {}
  BY DEF EmptyTrace, Lists
<1>3. Accounted(y)
  <2>1. DOMAIN y.trace = Lists /\ <<>> \notin y.changed /\ y.changed \subseteq Effects(y.trace)
    BY <1>1, <1>2
  <2>2. y.code = "run" => y.sub = 1 /\ \A p \in y.trace.denied : IsMounted(p)
    BY <1>1, <1>2
  <2> QED
    BY <2>1, <2>2, SettledIs
<1> QED
  BY <1>1, <1>3 DEF Admitted

\* In the beginning every trace is empty.
LEMMA TraceInit ==
    ASSUME Init
    PROVE  TraceInv
<1>1. ASSUME NEW e \in Execs
      PROVE  Accounted(execs[e]) /\ Admitted(world, execs[e])
  <2>1. PICK x : x = execs[e] /\ x = Idle
    BY DEF Init
  <2>2. x.code = "idle" /\ x.changed = {} /\ x.trace = EmptyTrace
    BY <2>1 DEF Idle
  <2>3. Accounted(x)
    BY <2>2 DEF Accounted, DenialsOf, Lists
  <2>4. Admitted(world, x)
    BY <2>2 DEF Admitted
  <2> QED
    BY <2>1, <2>3, <2>4
<1> QED
  BY <1>1, InvInit DEF TraceInv

\* And every step keeps them true.
LEMMA TraceStep ==
    ASSUME TraceInv, [Next]_vars
    PROVE  TraceInv'
<1>1. FilesInv
  BY DEF TraceInv
<1>2. FilesInv'
  BY <1>1, InvStep
<1>3. Shaped(world) /\ DOMAIN execs = Execs
  BY <1>1 DEF FilesInv
<1>4. ASSUME NEW e \in Execs
      PROVE  Placed(execs[e], Commands[e]) /\ Accounted(execs[e]) /\ Admitted(world, execs[e])
  BY DEF TraceInv, FilesInv, ExecInv
<1>5. SUFFICES \A d \in Execs : Accounted(execs'[d]) /\ Admitted(world', execs'[d])
  BY <1>2 DEF TraceInv
<1> DEFINE Goal == \A d \in Execs : Accounted(execs'[d]) /\ Admitted(world', execs'[d])
<1>6. ASSUME NEW e \in Execs, OnlyMoves(e), world' = world, Accounted(execs'[e])
      PROVE  Goal
  <2>1. NoNewLinks(world.host, world'.host)
    BY <1>6 DEF NoNewLinks
  <2> QED
    BY <1>6, <2>1, OthersAccounted
<1>7. ASSUME NEW e \in Execs, StepOf(e), Changing(e), Accounted(execs'[e])
      PROVE  Goal
  <2>1. OnlyMoves(e) /\ NoNewLinks(world.host, world'.host) /\ world'.adapter = world.adapter
    BY <1>1, <1>7, WorldStays DEF StepOf
  <2> QED
    BY <1>7, <2>1, OthersAccounted
<1>8. ASSUME NEW e \in Execs, Start(e)
      PROVE  Goal
  <2>1. PICK c \in Commands[e], alone \in BOOLEAN :
          execs' = [d \in Execs |->
                      IF d = e THEN [Idle EXCEPT !.cmd = c, !.at = 1, !.sub = 1, !.code = "run", !.alone = alone]
                      ELSE [execs[d] EXCEPT !.alone = FALSE]]
    BY <1>8 DEF Start
  <2>2. world' = world
    BY <1>8 DEF Start
  <2>3. Accounted(execs'[e]) /\ Admitted(world, execs'[e])
    <3>1. execs'[e] = [Idle EXCEPT !.cmd = c, !.at = 1, !.sub = 1, !.code = "run", !.alone = alone]
      BY <2>1
    <3> QED
      BY <3>1, StartAccounted
  <2>4. ASSUME NEW d \in Execs, d # e
        PROVE  Accounted(execs'[d]) /\ Admitted(world, execs'[d])
    <3>1. execs'[d] = [execs[d] EXCEPT !.alone = FALSE]
      BY <2>1, <2>4
    <3>2. DOMAIN execs[d] = Fields
      BY <1>4 DEF Placed
    <3> QED
      BY <1>4, <3>1, <3>2, AloneAccounted
  <2> QED
    BY <2>2, <2>3, <2>4
<1>9. ASSUME NEW e \in Execs,
             \/ DoRequire(e) \/ DoAllowed(e) \/ DoPreflight(e) \/ DoRead(e) \/ DoLook(e)
             \/ DoUnique(e) \/ DoFits(e) \/ DoGroup(e)
      PROVE  Goal
  <2>1. OnlyMoves(e) /\ world' = world
    BY <1>3, <1>4, <1>9, ReadsMove
  <2>2. Accounted(execs'[e])
    BY <1>3, <1>4, <1>9, ReadsAccounted
  <2> QED
    BY <1>6, <2>1, <2>2
<1>10. ASSUME NEW e \in Execs, DoProbe(e)
       PROVE  Goal
  <2>1. OnlyMoves(e) /\ world' = world
    BY <1>3, <1>4, <1>10, ProbeMoves
  <2>2. Accounted(execs'[e])
    BY <1>3, <1>4, <1>10, ReadsAccounted
  <2> QED
    BY <1>6, <2>1, <2>2
<1>11. ASSUME NEW e \in Execs, DoRefresh(e)
       PROVE  Goal
  <2>1. OnlyMoves(e) /\ world' = world
    BY <1>3, <1>4, <1>11, RefreshMoves
  <2>2. Accounted(execs'[e])
    BY <1>3, <1>4, <1>11, ReadsAccounted
  <2> QED
    BY <1>6, <2>1, <2>2
<1>12. ASSUME NEW e \in Execs, DoCall(e)
       PROVE  Goal
  BY <1>1, <1>3, <1>4, <1>7, <1>12, CallMoves, CallAccounted
<1>13. ASSUME NEW e \in Execs, DoMountBatch(e)
       PROVE  Goal
  BY <1>1, <1>3, <1>4, <1>7, <1>13, MountBatchMoves, MountBatchAccounted
<1>14. ASSUME NEW e \in Execs, DoFsBatch(e)
       PROVE  Goal
  BY <1>1, <1>3, <1>4, <1>7, <1>14, FsBatchMoves, FsBatchAccounted
<1>15. ASSUME execs' = execs, world'.host = world.host, world'.adapter = world.adapter
       PROVE  Goal
  <2>1. ASSUME NEW d \in Execs
        PROVE  Admitted(world', execs[d])
    <3>1. NoNewLinks(world.host, world'.host)
      BY <1>15 DEF NoNewLinks
    <3>2. LinksKept /\ (execs[d].code = "run" => WellFormed(execs[d].cmd))
      BY <1>1, <1>4, CommandsAssumption DEF FilesInv, Placed
    <3> QED
      BY <1>4, <1>15, <3>1, <3>2, AdmittedStays
  <2> QED
    BY <1>4, <1>15, <2>1
<1>16. ASSUME NEW m \in Mounts, Flip(m)
       PROVE  Goal
  <2>1. PICK active : world' = [world EXCEPT !.active = active]
    BY <1>16 DEF Flip
  <2>2. execs' = execs
    BY <1>16 DEF Flip
  <2>3. world'.host = world.host /\ world'.adapter = world.adapter
    BY <1>3, <2>1 DEF Shaped
  <2> QED
    BY <1>15, <2>2, <2>3
<1>17. CASE UNCHANGED vars
  BY <1>15, <1>17 DEF vars
<1> QED
  BY <1>8, <1>9, <1>10, <1>11, <1>12, <1>13, <1>14, <1>16, <1>17 DEF Next

\* For any trees, zones, mounts, commands and executions, faults included, a trace
\* accounts for what its command has changed, while it runs and when it ends.
THEOREM TraceInvHolds == Spec => []TraceInv
<1>1. Init => TraceInv
  BY TraceInit
<1>2. TraceInv /\ [Next]_vars => TraceInv'
  BY TraceStep
<1> QED
  BY <1>1, <1>2, PTL DEF Spec

\* So a command that exits 0 has every path it changed in the lists of its effects,
\* and a path of the file system that is reported denied it has not changed, or the
\* change is reported too: preflightPathChecks has let all paths of a batch pass
\* before the first is changed, and no link comes up in between.  What a batch has
\* done before an error of the host that reads as a denial is excepted (hidden).
THEOREM TracesTrue == Spec => []TraceTruthful
<1>1. TraceInv => TraceTruthful
  <2>1. SUFFICES ASSUME TraceInv
                 PROVE  TraceTruthful
    OBVIOUS
  <2>2. \A e \in Execs : Accounted(execs[e])
    BY <2>1 DEF TraceInv
  <2>3. SuccessTraced
    BY <2>2 DEF SuccessTraced, Accounted
  <2>4. DenialsHold
    BY <2>2 DEF DenialsHold, Accounted, DenialsOf
  <2> QED
    BY <2>3, <2>4 DEF TraceTruthful
<1> QED
  BY <1>1, TraceInvHolds, PTL
-----------------------------------------------------------------------------
(***************************************************************************)
(* A batch of a mount, operation by operation.                             *)
(***************************************************************************)

\* A set that has 0 and, with a number, the next has every number.
LEMMA AllNumbers ==
    ASSUME NEW S, 0 \in S, \A n \in Nat : n \in S => n + 1 \in S
    PROVE  \A n \in Nat : n \in S
<1> SUFFICES ASSUME Nat \ S # {}
             PROVE  FALSE
  OBVIOUS
<1>1. PICK x \in Nat \ S : \A y \in Nat \ S : x <= y
  BY LeastNat
<1>2. x - 1 \in Nat /\ ~(x <= x - 1)
  BY <1>1
<1>3. x - 1 \in S /\ (x - 1) + 1 = x
  BY <1>1, <1>2
<1> QED
  BY <1>2, <1>3

\* The trees after each of the operations.
Stages(tree, ops, N, f) == f = [i \in 0 .. N |-> IF i = 0 THEN Done(tree) ELSE Then(f[i - 1], ops[i])]

\* There are such trees.
LEMMA StagesThere ==
    ASSUME NEW tree, NEW ops, NEW N \in Nat
    PROVE  \E f : Stages(tree, ops, N, f)
<1> DEFINE Upto(m) == \E f : Stages(tree, ops, m, f)
           S == {m \in Nat : Upto(m)}
<1>1. Upto(0)
  <2>1. PICK f : f = [i \in 0 .. 0 |-> Done(tree)]
    OBVIOUS
  <2>2. \A i \in 0 .. 0 : i = 0
    OBVIOUS
  <2>3. f = [i \in 0 .. 0 |-> IF i = 0 THEN Done(tree) ELSE Then(f[i - 1], ops[i])]
    BY <2>1, <2>2
  <2> QED
    BY <2>3 DEF Stages
<1>2. ASSUME NEW m \in Nat, Upto(m)
      PROVE  Upto(m + 1)
  <2>1. PICK f : f = [i \in 0 .. m |-> IF i = 0 THEN Done(tree) ELSE Then(f[i - 1], ops[i])]
    BY <1>2 DEF Stages
  <2>2. PICK last : last = Then(f[m], ops[m + 1])
    OBVIOUS
  <2>3. PICK h : h = [i \in 0 .. (m + 1) |-> IF i = m + 1 THEN last ELSE f[i]]
    OBVIOUS
  <2>4. DOMAIN h = 0 .. (m + 1) /\ h[0] = Done(tree)
    <3>1. 0 \in 0 .. m /\ 0 \in 0 .. (m + 1) /\ 0 # m + 1
      OBVIOUS
    <3> QED
      BY <2>1, <2>3, <3>1
  <2>5. ASSUME NEW i \in 1 .. (m + 1)
        PROVE  h[i] = Then(h[i - 1], ops[i])
    <3>1. i - 1 \in 0 .. m /\ i - 1 # m + 1 /\ i - 1 \in 0 .. (m + 1) /\ i \in 0 .. (m + 1) /\ i # 0
      OBVIOUS
    <3>2. h[i - 1] = f[i - 1]
      BY <2>3, <3>1
    <3>3. CASE i = m + 1
      <4>1. i - 1 = m
        BY <3>3
      <4> QED
        BY <2>2, <2>3, <3>1, <3>2, <3>3, <4>1
    <3>4. CASE i # m + 1
      <4>1. i \in 0 .. m
        BY <3>4
      <4> QED
        BY <2>1, <2>3, <3>1, <3>2, <3>4, <4>1
    <3> QED
      BY <3>3, <3>4
  <2>6. h = [i \in 0 .. (m + 1) |-> IF i = 0 THEN Done(tree) ELSE Then(h[i - 1], ops[i])]
    <3>1. \A i \in 0 .. (m + 1) : i = 0 \/ i \in 1 .. (m + 1)
      OBVIOUS
    <3>2. \E g : h = [i \in 0 .. (m + 1) |-> g[i]]
      BY <2>3
    <3> QED
      BY <2>4, <2>5, <3>1, <3>2
  <2> QED
    BY <2>6 DEF Stages
<1>3. N \in S
  <2>1. 0 \in S
    BY <1>1
  <2>2. \A m \in Nat : m \in S => m + 1 \in S
    BY <1>2
  <2> HIDE DEF S
  <2> QED
    BY <2>1, <2>2, AllNumbers
<1> QED
  BY <1>3

\* The tree at each stage comes from the one before it.
Staged(tree, ops, f) ==
    f[0] = Done(tree) /\ \A i \in 1 .. Len(ops) : f[i] = Then(f[i - 1], ops[i])

\* What is applied is the last of them.
LEMMA AppliedIs ==
    ASSUME NEW tree, NEW ops, Len(ops) \in Nat
    PROVE  \E f : Staged(tree, ops, f) /\ Applied(tree, ops) = f[Len(ops)]
<1> DEFINE N == Len(ops)
           IsAfter(f) == f = [i \in 0 .. N |-> IF i = 0 THEN Done(tree) ELSE Then(f[i - 1], ops[i])]
           after == CHOOSE f : IsAfter(f)
<1>1. Applied(tree, ops) = after[N]
  BY DEF Applied
<1>2. \E f : IsAfter(f)
  <2>1. \E f : Stages(tree, ops, N, f)
    BY StagesThere
  <2> QED
    BY <2>1 DEF Stages
<1>3. IsAfter(after)
  BY <1>2
<1> HIDE DEF after
<1>4. after[0] = Done(tree) /\ \A i \in 1 .. N : after[i] = Then(after[i - 1], ops[i])
  <2>1. 0 \in 0 .. N /\ \A i \in 1 .. N : i \in 0 .. N /\ i # 0
    OBVIOUS
  <2> QED
    BY <1>3, <2>1
<1> QED
  BY <1>1, <1>4 DEF Staged

\* Two operations.
LEMMA AppliedTwo ==
    ASSUME NEW tree, NEW ops, Len(ops) = 2
    PROVE  Applied(tree, ops) = Then(Then(Done(tree), ops[1]), ops[2])
<1>1. Len(ops) \in Nat
  OBVIOUS
<1>2. PICK f : Staged(tree, ops, f) /\ Applied(tree, ops) = f[Len(ops)]
  BY <1>1, AppliedIs
<1>3. f[1] = Then(f[0], ops[1]) /\ f[2] = Then(f[1], ops[2])
  <2>1. 1 \in 1 .. Len(ops) /\ 2 \in 1 .. Len(ops) /\ 1 - 1 = 0 /\ 2 - 1 = 1
    OBVIOUS
  <2> QED
    BY <1>2, <2>1 DEF Staged
<1>4. f[0] = Done(tree) /\ Applied(tree, ops) = f[2]
  BY <1>2 DEF Staged
<1> QED
  BY <1>3, <1>4

\* A write is the whole size of a batch in which a removal follows it.
LEMMA SizeOfMove ==
    ASSUME NEW a, a.kind = "write", NEW b, b.kind = "rm"
    PROVE  BatchSize(<<a, b>>) = BatchSize(<<a>>)
<1> DEFINE IsOne(f) == f = [i \in 0 .. 1 |-> IF i = 0 THEN 0 ELSE SizeWith(f[i - 1], <<a>>[i])]
           IsTwo(f) == f = [i \in 0 .. 2 |-> IF i = 0 THEN 0 ELSE SizeWith(f[i - 1], <<a, b>>[i])]
           one == CHOOSE f : IsOne(f)
           two == CHOOSE f : IsTwo(f)
<1>1. BatchSize(<<a>>) = one[1]
  <2>1. Len(<<a>>) = 1
    OBVIOUS
  <2> QED
    BY <2>1 DEF BatchSize
<1>2. BatchSize(<<a, b>>) = two[2]
  <2>1. Len(<<a, b>>) = 2
    OBVIOUS
  <2> QED
    BY <2>1 DEF BatchSize
<1>3. PICK s : s = SizeWith(0, a)
  OBVIOUS
<1>4. SizeWith(s, b) = s
  BY DEF SizeWith
<1>5. \E f : IsOne(f)
  <2>1. PICK f : f = [i \in 0 .. 1 |-> IF i = 0 THEN 0 ELSE s]
    OBVIOUS
  <2>2. f[0] = 0 /\ f[1] = s /\ <<a>>[1] = a
    BY <2>1
  <2>3. \A i \in 0 .. 1 : i = 0 \/ (i = 1 /\ i - 1 = 0)
    OBVIOUS
  <2>4. \A i \in 0 .. 1 : f[i] = IF i = 0 THEN 0 ELSE SizeWith(f[i - 1], <<a>>[i])
    BY <1>3, <2>2, <2>3
  <2> QED
    BY <2>1, <2>4
<1>6. \E f : IsTwo(f)
  <2>1. PICK f : f = [i \in 0 .. 2 |-> IF i = 0 THEN 0 ELSE s]
    OBVIOUS
  <2>2. f[0] = 0 /\ f[1] = s /\ f[2] = s /\ <<a, b>>[1] = a /\ <<a, b>>[2] = b
    BY <2>1
  <2>3. \A i \in 0 .. 2 : i = 0 \/ (i = 1 /\ i - 1 = 0) \/ (i = 2 /\ i - 1 = 1)
    OBVIOUS
  <2>4. \A i \in 0 .. 2 : f[i] = IF i = 0 THEN 0 ELSE SizeWith(f[i - 1], <<a, b>>[i])
    BY <1>3, <1>4, <2>2, <2>3
  <2> QED
    BY <2>1, <2>4
<1>7. IsOne(one) /\ IsTwo(two)
  BY <1>5, <1>6
<1> HIDE DEF one, two
<1>8. one[1] = s
  <2>1. 0 \in 0 .. 1 /\ 1 \in 0 .. 1 /\ 1 - 1 = 0 /\ <<a>>[1] = a
    OBVIOUS
  <2>2. one[0] = 0
    BY <1>7, <2>1
  <2> QED
    BY <1>3, <1>7, <2>1, <2>2
<1>9. two[2] = s
  <2>1. 0 \in 0 .. 2 /\ 1 \in 0 .. 2 /\ 2 \in 0 .. 2 /\ 1 - 1 = 0 /\ 2 - 1 = 1
        /\ <<a, b>>[1] = a /\ <<a, b>>[2] = b
    OBVIOUS
  <2>2. two[0] = 0
    BY <1>7, <2>1
  <2>3. two[1] = s
    BY <1>3, <1>7, <2>1, <2>2
  <2> QED
    BY <1>4, <1>7, <2>1, <2>3
<1> QED
  BY <1>1, <1>2, <1>8, <1>9
-----------------------------------------------------------------------------
(***************************************************************************)
(* No call makes a link, so the trees of mounts have none.                 *)
(***************************************************************************)

\* A tree without links, and a world whose mounts have none.
Linkless(g) == \A q \in DOMAIN g : g[q].kind # "link"
MountsLinkless(w) == \A m \in Mounts : Linkless(w.data[m.point])

LEMMA LinklessStays ==
    ASSUME NEW g, Linkless(g), NEW v, NoNewLinks(g, v)
    PROVE  Linkless(v)
  BY DEF Linkless, NoNewLinks

LEMMA NoNewTwice ==
    ASSUME NEW h, NEW g, NEW v, NoNewLinks(h, g), NoNewLinks(g, v)
    PROVE  NoNewLinks(h, v)
<1>1. ASSUME NEW q \in DOMAIN v, v[q].kind = "link"
      PROVE  q \in DOMAIN h /\ v[q] = h[q]
  BY <1>1 DEF NoNewLinks
<1> QED
  BY <1>1 DEF NoNewLinks

LEMMA NoNewSame ==
    ASSUME NEW h
    PROVE  NoNewLinks(h, h)
  BY DEF NoNewLinks

LEMMA PutNoLink ==
    ASSUME NEW h, NEW r, NEW node, node.kind # "link"
    PROVE  NoNewLinks(h, Put(h, r, node))
<1>1. PICK v : v = Put(h, r, node)
  OBVIOUS
<1>2. DOMAIN v = DOMAIN h \cup {r} /\ \A q \in DOMAIN v : v[q] = IF q = r THEN node ELSE h[q]
  BY <1>1 DEF Put
<1> QED
  BY <1>1, <1>2 DEF NoNewLinks

LEMMA DropNoLink ==
    ASSUME NEW h, NEW r
    PROVE  NoNewLinks(h, Drop(h, r))
<1>1. PICK v : v = Drop(h, r)
  OBVIOUS
<1>2. DOMAIN v = DOMAIN h \ {r} /\ \A q \in DOMAIN v : v[q] = h[q]
  BY <1>1 DEF Drop, Restrict
<1> QED
  BY <1>1, <1>2 DEF NoNewLinks

\* Directories are made, and nothing else changes.
LEMMA MkdirExtends ==
    ASSUME NEW h, NEW r
    PROVE  Extended(h, MkdirAt(h, r).host)
<1>1. CASE Kind(h, r) = "file"
  BY <1>1 DEF MkdirAt, Refused, Extended
<1>2. CASE Kind(h, r) # "file"
  <2>1. PICK v : v = [q \in DOMAIN h \cup Ancestors(r) |-> IF Exists(h, q) THEN h[q] ELSE Folder]
    OBVIOUS
  <2>2. MkdirAt(h, r).host = v
    BY <1>2, <2>1 DEF MkdirAt, Done
  <2>3. /\ DOMAIN v = DOMAIN h \cup Ancestors(r)
        /\ \A q \in DOMAIN v : v[q] = IF q \in DOMAIN h THEN h[q] ELSE Folder
    BY <2>1 DEF Exists
  <2> QED
    BY <2>2, <2>3 DEF Extended
<1> QED
  BY <1>1, <1>2

LEMMA ExtendedNoLink ==
    ASSUME NEW h, NEW v, Extended(h, v)
    PROVE  NoNewLinks(h, v) /\ NoNewLinks(v, h)
<1>1. Folder.kind = "dir"
  BY DEF Folder
<1> QED
  BY <1>1 DEF Extended, NoNewLinks

LEMMA StoreNoLink ==
    ASSUME NEW h, NEW p, NEW text, NEW torn \in BOOLEAN
    PROVE  NoNewLinks(h, StoreFile(h, p, text, torn).host)
<1>1. PICK r : r = Resolve(h, p)
  OBVIOUS
<1>2. StoreFile(h, p, text, torn) = StoreNode(h, r, text, torn)
  BY <1>1 DEF StoreFile
<1>3. CASE Kind(h, r) = "dir"
  BY <1>2, <1>3, NoNewSame DEF StoreNode, Refused
<1>4. CASE Kind(h, r) # "dir"
  <2>1. PICK t : StoreNode(h, r, text, torn).host = Put(h, r, File(t))
    BY <1>4 DEF StoreNode, Refused, Done
  <2>2. File(t).kind # "link"
    BY DEF File
  <2> QED
    BY <1>2, <2>1, <2>2, PutNoLink
<1> QED
  BY <1>3, <1>4

\* What is guarded makes no link when its result makes none.
LEMMA GuardedNoLink ==
    ASSUME NEW h, NEW g, NoNewLinks(h, g), NEW result, NoNewLinks(h, result.host), NEW err
    PROVE  NoNewLinks(h, Guarded(err, g, result).host)
  BY GuardedIs

LEMMA MadeNoLink ==
    ASSUME NEW h, NEW place, NEW op, NEW limit, NEW torn \in BOOLEAN,
           NEW result, Made(h, place, op, limit, torn, result)
    PROVE  NoNewLinks(h, result.host)
<1>0. NoNewLinks(h, h)
  BY NoNewSame
<1>1. PICK made : made = MkdirAll(h, Front(place))
  OBVIOUS
<1>2. NoNewLinks(h, made.host)
  BY <1>1, MkdirExtends, ExtendedNoLink DEF MkdirAll
<1>3. ASSUME NEW text, NEW cut \in BOOLEAN
      PROVE  NoNewLinks(h, StoreFile(made.host, place, text, cut).host)
  BY <1>2, StoreNoLink, NoNewTwice
<1>4. CASE result = WriteAt(h, place, op.content, limit, torn)
  <2>1. PICK below : below = StoreBelow(made, place, op.content, torn)
    OBVIOUS
  <2>2. NoNewLinks(h, below.host)
    <3>1. PICK stored : stored = StoreFile(made.host, place, op.content, torn)
      OBVIOUS
    <3>2. NoNewLinks(h, stored.host)
      BY <1>3, <3>1
    <3>3. below = Guarded(made.err, made.host, stored)
      BY <2>1, <3>1 DEF StoreBelow
    <3> QED
      BY <1>2, <3>2, <3>3, GuardedNoLink
  <2>3. result = Guarded(Ensure(~OverLimit(op.content, limit), "plain"), h, below)
    BY <1>1, <1>4, <2>1 DEF WriteAt
  <2> QED
    BY <1>0, <2>2, <2>3, GuardedNoLink
<1>5. CASE result = AppendAt(h, place, op.content, limit, torn)
  <2>1. PICK below : below = AppendBelow(made, place, op.content, torn)
    OBVIOUS
  <2>2. PICK to : to = AppendTo(made.host, place, ReadFile(made.host, place).text, op.content, torn)
    OBVIOUS
  <2>3. NoNewLinks(h, to.host)
    <3>1. PICK t : to.host = StoreFile(made.host, place, t, FALSE).host
      BY <2>2 DEF AppendTo, Refused
    <3>2. NoNewLinks(h, StoreFile(made.host, place, t, FALSE).host)
      BY <1>3
    <3> QED
      BY <3>1, <3>2
  <2>4. NoNewLinks(h, below.host)
    BY <1>2, <2>1, <2>2, <2>3, GuardedNoLink DEF AppendBelow
  <2>5. result = Guarded(Ensure(~OverLimit(op.content, limit), "plain"), h, below)
    BY <1>1, <1>5, <2>1 DEF AppendAt
  <2> QED
    BY <1>0, <2>4, <2>5, GuardedNoLink
<1>6. CASE result = EditAt(h, place, op.old, op.content, op.all, limit, torn)
  <2>1. PICK read, count, edited :
          result = EditRead(h, place, read, count, edited, op.all, limit, torn)
    BY <1>6 DEF EditAt
  <2>2. NoNewLinks(h, StoreFile(h, place, edited, torn).host)
    BY StoreNoLink
  <2> QED
    BY <1>0, <2>1, <2>2, GuardedNoLink DEF EditRead
<1>7. CASE result = MkdirAll(h, place)
  BY <1>7, MkdirExtends, ExtendedNoLink DEF MkdirAll
<1>8. CASE result = RemoveFileAt(h, place)
  <2>1. PICK dropped : dropped = Done(Drop(h, ResolveParent(h, place)))
    OBVIOUS
  <2>2. NoNewLinks(h, dropped.host)
    BY <2>1, DropNoLink DEF Done
  <2> QED
    BY <1>0, <1>8, <2>1, <2>2, GuardedNoLink DEF RemoveFileAt
<1> QED
  BY <1>4, <1>5, <1>6, <1>7, <1>8 DEF Made

\* So does the effect on a mount's tree, and its error is not one that permits
\* another call.
LEMMA MountEffectKeeps ==
    ASSUME NEW tree, NEW op, op.kind \in Kinds
    PROVE  NoNewLinks(tree, MountEffect(tree, op).host) /\ MountEffect(tree, op).err \in Undenied
<1>1. CASE op.kind = "rmdir"
  <2>1. PICK r : MountEffect(tree, op) = RmdirAt(tree, r)
    BY <1>1 DEF MountEffect, Rmdir
  <2>2. RmdirAt(tree, r).host \in {tree, Drop(tree, r)} /\ RmdirAt(tree, r).err \in {"ok", "plain"}
    BY DEF RmdirAt, Refused, Done
  <2> QED
    BY <2>1, <2>2, NoNewSame, DropNoLink DEF Undenied
<1>2. CASE op.kind # "rmdir"
  <2>1. PICK torn, limit : torn \in BOOLEAN /\ torn = FALSE /\ limit = 0
    OBVIOUS
  <2>2. PICK result : result = MountEffect(tree, op)
    OBVIOUS
  <2>3. Made(tree, op.path, op, limit, torn, result)
    BY <1>2, <2>1, <2>2 DEF MountEffect, Made, Kinds
  <2>4. NoNewLinks(tree, result.host)
    BY <2>1, <2>3, MadeNoLink
  <2>5. result.err \in Undenied
    BY <2>1, <2>3, MadeErr
  <2> QED
    BY <2>2, <2>4, <2>5
<1> QED
  BY <1>1, <1>2

\* And of any number of operations.
LEMMA AppliedKeeps ==
    ASSUME NEW tree, NEW ops, Len(ops) \in Nat, \A i \in 1 .. Len(ops) : ops[i].kind \in Kinds
    PROVE  NoNewLinks(tree, Applied(tree, ops).host) /\ Applied(tree, ops).err \in Undenied
<1>1. PICK f : Staged(tree, ops, f) /\ Applied(tree, ops) = f[Len(ops)]
  BY AppliedIs
<1> DEFINE Good(result) == NoNewLinks(tree, result.host) /\ result.err \in Undenied
           S == {n \in Nat : n <= Len(ops) => Good(f[n])}
<1>2. Good(Done(tree))
  BY NoNewSame DEF Done, Undenied
<1>3. ASSUME NEW before, Good(before), NEW op, op.kind \in Kinds
      PROVE  Good(Then(before, op))
  <2>1. PICK effect : effect = MountEffect(before.host, op)
    OBVIOUS
  <2>2. NoNewLinks(before.host, effect.host) /\ effect.err \in Undenied
    BY <1>3, <2>1, MountEffectKeeps
  <2>3. NoNewLinks(tree, effect.host)
    BY <1>3, <2>2, NoNewTwice
  <2>4. Then(before, op) = Guarded(before.err, before.host, effect)
    BY <2>1 DEF Then
  <2>5. NoNewLinks(tree, Then(before, op).host)
    BY <1>3, <2>3, <2>4, GuardedNoLink
  <2>6. Then(before, op).err \in {before.err, effect.err}
    BY <2>4, GuardedErr
  <2> QED
    BY <1>3, <2>2, <2>5, <2>6
<1>4. 0 \in S
  BY <1>1, <1>2 DEF Staged
<1>5. ASSUME NEW n \in Nat, n \in S
      PROVE  n + 1 \in S
  <2> SUFFICES ASSUME n + 1 <= Len(ops)
               PROVE  Good(f[n + 1])
    OBVIOUS
  <2>1. n + 1 \in 1 .. Len(ops) /\ (n + 1) - 1 = n /\ n <= Len(ops)
    OBVIOUS
  <2>2. Good(f[n])
    BY <1>5, <2>1
  <2>3. f[n + 1] = Then(f[n], ops[n + 1])
    BY <1>1, <2>1 DEF Staged
  <2>4. PICK before, op : before = f[n] /\ op = ops[n + 1]
    OBVIOUS
  <2>5. op.kind \in Kinds
    BY <2>1, <2>4
  <2> HIDE DEF Good
  <2>6. Good(Then(before, op))
    BY <1>3, <2>2, <2>4, <2>5
  <2> QED
    BY <2>3, <2>4, <2>6
<1> HIDE DEF Good, S
<1>6. Len(ops) \in S
  BY <1>4, <1>5, AllNumbers
<1>7. Good(f[Len(ops)])
  BY <1>6 DEF S
<1> QED
  BY <1>1, <1>7 DEF Good

\* No mount gets a link, by a batch
LEMMA MutationLinkless ==
    ASSUME NEW w, Shaped(w), MountsLinkless(w), NEW m \in Mounts, NEW ops,
           Len(ops) \in Nat, \A i \in 1 .. Len(ops) : ops[i].kind \in Kinds,
           NEW result \in ApplyMountMutations(w, m, ops)
    PROVE  MountsLinkless(result.world)
<1>1. PICK applied : applied = Applied(Tree(w, m), ops)
  OBVIOUS
<1>2. Linkless(applied.host)
  <2>1. Linkless(Tree(w, m)) /\ NoNewLinks(Tree(w, m), applied.host)
    BY <1>1, AppliedKeeps DEF MountsLinkless, Tree
  <2> QED
    BY <2>1, LinklessStays
<1>3. CASE ~Ok(MountMutationError(m, ops))
  BY <1>3 DEF ApplyMountMutations, UnlessRefused, Failed
<1>4. CASE Ok(MountMutationError(m, ops))
  <2>1. result \in MutatorResults(w, m, ops, applied)
    BY <1>1, <1>4 DEF ApplyMountMutations, UnlessRefused, MutatorApply
  <2>2. result.world = w \/ result.world = [w EXCEPT !.data[m.point] = applied.host]
    BY <2>1 DEF MutatorResults, Worded, Failed
  <2>3. ASSUME NEW v, v = [w EXCEPT !.data[m.point] = applied.host]
        PROVE  MountsLinkless(v)
    <3>1. v.data = [w.data EXCEPT ![m.point] = applied.host] /\ m.point \in DOMAIN w.data
      BY <2>3 DEF Shaped
    <3>2. ASSUME NEW n \in Mounts
          PROVE  Linkless(v.data[n.point])
      <4>1. v.data[n.point] = applied.host \/ v.data[n.point] = w.data[n.point]
        BY <3>1 DEF Shaped
      <4> QED
        BY <1>2, <4>1 DEF MountsLinkless
    <3> QED
      BY <3>2 DEF MountsLinkless
  <2> QED
    BY <2>2, <2>3
<1> QED
  BY <1>3, <1>4

LEMMA BatchLinkless ==
    ASSUME NEW w, Shaped(w), MountsLinkless(w), NEW ops,
           Len(ops) \in Nat, \A i \in 1 .. Len(ops) : ops[i].kind \in Kinds,
           ops[1].path \in Paths, Ok(BatchError(ops)) => IsMounted(ops[1].path),
           NEW result \in MountBatch(w, ops)
    PROVE  MountsLinkless(result.world)
<1>1. CASE ~Ok(BatchError(ops))
  BY <1>1 DEF MountBatch, UnlessRefused, Failed
<1>2. CASE Ok(BatchError(ops))
  <2>1. PICK m : m = MountOf(ops[1].path)
    OBVIOUS
  <2>2. m \in Mounts
    BY <1>2, <2>1, MountOfIs
  <2>3. PICK given \in ApplyMountMutations(w, m, ops) : result = ReorderMutationRecords(ops, given)
    BY <1>2, <2>1 DEF MountBatch, UnlessRefused
  <2>4. MountsLinkless(given.world) /\ Answered(given)
    BY <2>2, MutationLinkless, MutationKeeps
  <2>5. result.world = given.world
    BY <2>3, <2>4 DEF ReorderMutationRecords, Failed, Answered
  <2> QED
    BY <2>4, <2>5
<1> QED
  BY <1>1, <1>2

\* and by a single call.
LEMMA MutateLinkless ==
    ASSUME NEW w, Shaped(w), MountsLinkless(w), NEW op, op.kind \in Kinds, op.path \in Paths,
           NEW fault, NEW result \in Mutate(w, op, fault)
    PROVE  MountsLinkless(result.world)
<1>1. CASE IsSyntheticPrefix(op.path)
  BY <1>1 DEF Mutate, Failed
<1>2. CASE ~IsSyntheticPrefix(op.path) /\ IsMounted(op.path)
  <2>1. PICK ops : ops = <<op>>
    OBVIOUS
  <2>2. Len(ops) = 1 /\ ops[1] = op
    BY <2>1
  <2>3. Len(ops) \in Nat /\ \A i \in 1 .. Len(ops) : ops[i].kind \in Kinds
    BY <2>2
  <2>4. result \in MountBatch(w, ops)
    BY <1>2, <2>1 DEF Mutate
  <2>5. ops[1].path \in Paths /\ IsMounted(ops[1].path)
    BY <1>2, <2>2
  <2> QED
    BY <2>3, <2>4, <2>5, BatchLinkless
<1>3. CASE ~IsSyntheticPrefix(op.path) /\ ~IsMounted(op.path)
  <2>1. HostOnly(w, result.world)
    BY <1>3, FsResultIs, FsKeeps DEF Mutate, FsSame
  <2> QED
    BY <2>1 DEF HostOnly, MountsLinkless
<1> QED
  BY <1>1, <1>2, <1>3
-----------------------------------------------------------------------------
(***************************************************************************)
(* Trees in which a path is reached over one link at most.                 *)
(***************************************************************************)

\* Of two links none lies below the other, and where a link leads there is none.
Clean(h) ==
    /\ LinksGood(h)
    /\ \A p \in Paths : /\ \A i, j \in LinksOn(h, p) : i = j
                        /\ LinksOn(h, Resolve(h, p)) = {}

\* Where the links of a path are, are nodes.
LEMMA LinkThere ==
    ASSUME NEW h, NEW p \in Paths, NEW i \in LinksOn(h, p)
    PROVE  /\ i \in 0 .. Len(p) /\ SubSeq(p, 1, i) \in Paths /\ Len(SubSeq(p, 1, i)) = i
           /\ SubSeq(p, 1, i) \in DOMAIN h /\ h[SubSeq(p, 1, i)].kind = "link"
<1>1. i \in 0 .. Len(p) /\ SubSeq(p, 1, i) \in DOMAIN h /\ h[SubSeq(p, 1, i)].kind = "link"
  BY DEF LinksOn, Kind, Exists
<1> QED
  BY <1>1, StartIs

\* The whole of a path is its last start.
LEMMA WholeIs ==
    ASSUME NEW p \in Paths
    PROVE  Len(p) \in 0 .. Len(p) /\ SubSeq(p, 1, Len(p)) = p
<1>1. Len(p) \in 0 .. Len(p)
  BY DEF Paths
<1>2. /\ SubSeq(p, 1, Len(p)) \in Paths /\ Len(SubSeq(p, 1, Len(p))) = Len(p)
      /\ \A j \in 1 .. Len(p) : SubSeq(p, 1, Len(p))[j] = p[j]
  BY <1>1, StartIs
<1> QED
  BY <1>1, <1>2, SamePath

\* A start lies over its path.
LEMMA StartUnder ==
    ASSUME NEW p \in Paths, NEW i \in 0 .. Len(p), NEW a \in Paths, a = SubSeq(p, 1, i)
    PROVE  Under(a, p)
<1>1. Len(a) = i /\ \A j \in 1 .. i : a[j] = p[j]
  BY StartIs
<1>2. Len(a) <= Len(p)
  BY <1>1 DEF Paths
<1> QED
  BY <1>1, <1>2, UnderIs

\* A start of two paths in a row is one of the first, or lies below it.
LEMMA StartOfBoth ==
    ASSUME NEW a \in Paths, NEW b \in Paths, NEW q \in Paths, NEW j \in 0 .. Len(a \o b),
           q = SubSeq(a \o b, 1, j)
    PROVE  Under(q, a) \/ Under(a, q)
<1>1. PICK r \in Paths : r = a \o b /\ \A i \in 1 .. Len(a) : r[i] = a[i]
  BY AfterIs
<1>2. Len(q) = j /\ \A i \in 1 .. j : q[i] = r[i]
  BY <1>1, StartIs
<1>3. Len(a) \in Nat /\ Len(r) \in Nat /\ j \in 0 .. Len(r)
  BY <1>1 DEF Paths
<1>4. CASE j <= Len(a)
  <2>1. Len(q) <= Len(a) /\ \A i \in 1 .. Len(q) : a[i] = q[i]
    BY <1>1, <1>2, <1>3, <1>4
  <2> QED
    BY <2>1, UnderIs
<1>5. CASE ~(j <= Len(a))
  <2>1. Len(a) <= Len(q) /\ \A i \in 1 .. Len(a) : q[i] = a[i]
    BY <1>1, <1>2, <1>3, <1>5
  <2> QED
    BY <2>1, UnderIs
<1> QED
  BY <1>4, <1>5

\* A tree without links is clean, and its paths resolve to themselves.
LEMMA LinklessClean ==
    ASSUME NEW g, Linkless(g)
    PROVE  Clean(g) /\ \A p \in Paths : LinksOn(g, p) = {} /\ Resolve(g, p) = p
<1>1. \A p : LinksOn(g, p) = {}
  BY DEF Linkless, LinksOn, Kind, Exists
<1>2. \A p : Resolve(g, p) = p
  BY <1>1 DEF Resolve, ResolveLinks
<1> QED
  BY <1>1, <1>2 DEF Clean, LinksGood, Linkless

\* So is the host, whatever has been done to it.
LEMMA HostClean ==
    ASSUME LinksKept
    PROVE  Clean(world.host)
<1>1. PICK h : h = world.host
  OBVIOUS
<1>2. LinksGood(h)
  BY <1>1, KeptLinksGood
<1>3. ASSUME NEW q \in DOMAIN h, h[q].kind = "link"
      PROVE  q \in DOMAIN InitialHost /\ InitialHost[q] = h[q] /\ InitialHost[q].kind = "link"
  BY <1>1, <1>3 DEF LinksKept, Exists
<1>4. ASSUME NEW p \in Paths
      PROVE  /\ \A i, j \in LinksOn(h, p) : i = j
             /\ LinksOn(h, Resolve(h, p)) = {}
  <2>1. \A i, j \in LinksOn(h, p) : i = j
    BY <1>1, OneLink
  <2>2. CASE LinksOn(h, p) = {} /\ Resolve(h, p) = p
    BY <2>2
  <2>3. CASE \E i \in 1 .. Len(p), to \in Paths :
               /\ i \in LinksOn(h, p) /\ \A j \in LinksOn(h, p) : i <= j
               /\ Kind(h, SubSeq(p, 1, i)) = "link" /\ to = h[SubSeq(p, 1, i)].to
               /\ Resolve(h, p) = to \o SubSeq(p, i + 1, Len(p))
    <3>1. PICK i \in 1 .. Len(p), to \in Paths :
               /\ i \in LinksOn(h, p) /\ to = h[SubSeq(p, 1, i)].to
               /\ Resolve(h, p) = to \o SubSeq(p, i + 1, Len(p))
      BY <2>3
    <3>2. PICK q \in Paths : q = SubSeq(p, 1, i) /\ q \in DOMAIN h /\ h[q].kind = "link"
      BY <3>1, LinkThere
    <3>3. PICK rest \in Paths : rest = SubSeq(p, i + 1, Len(p))
      <4>1. i \in 0 .. Len(p)
        BY DEF Paths
      <4> QED
        BY <4>1, RestIs
    <3>4. PICK r \in Paths : r = to \o rest /\ r = Resolve(h, p)
      BY <3>1, <3>3, AfterIs
    <3>5. ASSUME NEW j \in LinksOn(h, r)
          PROVE  FALSE
      <4>1. PICK s \in Paths : j \in 0 .. Len(r) /\ s = SubSeq(r, 1, j) /\ s \in DOMAIN h /\ h[s].kind = "link"
        BY LinkThere
      <4>2. Under(s, to) \/ Under(to, s)
        BY <3>4, <4>1, StartOfBoth
      <4>3. q \in DOMAIN InitialHost /\ InitialHost[q].kind = "link" /\ InitialHost[q].to = to
        BY <1>3, <3>1, <3>2
      <4>4. s \in DOMAIN InitialHost /\ InitialHost[s].kind = "link"
        BY <1>3, <4>1
      <4>5. ~Under(InitialHost[q].to, s) /\ ~Under(s, InitialHost[q].to)
        BY <4>3, <4>4, LinksAssumption
      <4> QED
        BY <4>2, <4>3, <4>5
    <3> QED
      BY <2>1, <3>4, <3>5
  <2> QED
    BY <1>2, <2>1, <2>2, <2>3, ResolveIs
<1> QED
  BY <1>1, <1>2, <1>4 DEF Clean

\* Trees of the same links lead every path to the same place.
LEMMA LinksAlike ==
    ASSUME NEW h, NEW v, NoNewLinks(h, v), NoNewLinks(v, h), NEW p \in Paths
    PROVE  LinksOn(v, p) = LinksOn(h, p) /\ Resolve(v, p) = Resolve(h, p)
<1>1. \A q : Kind(v, q) = "link" <=> Kind(h, q) = "link"
  BY DEF NoNewLinks, Kind, Exists
<1>2. LinksOn(v, p) = LinksOn(h, p)
  BY <1>1 DEF LinksOn
<1>3. CASE LinksOn(h, p) = {}
  BY <1>2, <1>3 DEF Resolve, ResolveLinks
<1>4. CASE LinksOn(h, p) # {}
  <2>1. LinksOn(h, p) \subseteq Nat
    BY DEF LinksOn, Paths
  <2>2. PICK i \in LinksOn(h, p) : i = Min(LinksOn(h, p))
    BY <1>4, <2>1, MinIs
  <2>3. Resolve(h, p) = Followed(h, p, i) /\ Resolve(v, p) = Followed(v, p, i)
    BY <1>2, <1>4, <2>2 DEF Resolve, ResolveLinks
  <2>4. SubSeq(p, 1, i) \in DOMAIN v /\ v[SubSeq(p, 1, i)].kind = "link"
    BY <1>1, <2>2, LinkThere DEF Kind, Exists
  <2>5. v[SubSeq(p, 1, i)] = h[SubSeq(p, 1, i)]
    BY <2>4 DEF NoNewLinks
  <2> QED
    BY <1>2, <2>3, <2>5 DEF Followed
<1> QED
  BY <1>3, <1>4

\* A node that takes the place of one that is no link keeps the links,
LEMMA PutAlike ==
    ASSUME NEW h, NEW r, Kind(h, r) # "link", NEW node, node.kind # "link"
    PROVE  NoNewLinks(h, Put(h, r, node)) /\ NoNewLinks(Put(h, r, node), h)
<1>1. PICK v : v = Put(h, r, node)
  OBVIOUS
<1>2. DOMAIN v = DOMAIN h \cup {r} /\ \A q \in DOMAIN v : v[q] = IF q = r THEN node ELSE h[q]
  BY <1>1 DEF Put
<1> QED
  BY <1>1, <1>2 DEF NoNewLinks, Kind, Exists

\* as does the removal of one that is none.
LEMMA DropAlike ==
    ASSUME NEW h, NEW r, Kind(h, r) # "link"
    PROVE  NoNewLinks(h, Drop(h, r)) /\ NoNewLinks(Drop(h, r), h)
<1>1. PICK v : v = Drop(h, r)
  OBVIOUS
<1>2. DOMAIN v = DOMAIN h \ {r} /\ \A q \in DOMAIN v : v[q] = h[q]
  BY <1>1 DEF Drop, Restrict
<1> QED
  BY <1>1, <1>2 DEF NoNewLinks, Kind, Exists

\* What a path resolves to is no link.
LEMMA ResolvedNoLink ==
    ASSUME NEW h, Clean(h), NEW p \in Paths
    PROVE  Resolve(h, p) \in Paths /\ Kind(h, Resolve(h, p)) # "link"
<1>1. PICK r \in Paths : r = Resolve(h, p)
  BY ResolvesToPath DEF Clean
<1>2. LinksOn(h, r) = {}
  BY <1>1 DEF Clean
<1>3. Len(r) \in 0 .. Len(r) /\ SubSeq(r, 1, Len(r)) = r
  BY WholeIs
<1>4. Kind(h, r) # "link"
  BY <1>2, <1>3 DEF LinksOn
<1> QED
  BY <1>1, <1>4
\* The file that a path leads to.
LEMMA HoldsAt ==
    ASSUME NEW h, NEW p, NEW r, r = Resolve(h, p), NEW text
    PROVE  Holds(Node(h, p), text) <=> r \in DOMAIN h /\ h[r].kind = "file" /\ h[r].text = text
<1>1. CASE r \in DOMAIN h
  BY <1>1 DEF Holds, Node, Exists
<1>2. CASE r \notin DOMAIN h
  <2>1. Node(h, p) = None
    BY <1>2 DEF Node, Exists
  <2>2. None.kind = "none"
    BY DEF None
  <2> QED
    BY <1>2, <2>1, <2>2 DEF Holds
<1> QED
  BY <1>1, <1>2

\* What a write makes of a tree: directories, and a file where the path leads.
Written(h, r, content, result) ==
    \E g : /\ Extended(h, g)
           /\ \/ result.host \in {h, g} /\ ~Ok(result.err)
              \/ \E t : /\ result.host = Put(g, r, File(t)) /\ Kind(g, r) # "link"
                        /\ Ok(result.err) => t = content

LEMMA WriteIs ==
    ASSUME NEW h, Clean(h), NEW p \in Paths, NEW content, NEW limit, NEW torn \in BOOLEAN,
           NEW result, result = WriteAt(h, p, content, limit, torn), NEW r, r = Resolve(h, p)
    PROVE  Written(h, r, content, result)
<1>1. PICK made, g : made = MkdirAll(h, Front(p)) /\ g = made.host
  OBVIOUS
<1>2. Extended(h, g)
  BY <1>1, MkdirExtends DEF MkdirAll
<1>3. Resolve(g, p) = r /\ Kind(g, r) # "link"
  <2>1. NoNewLinks(h, g) /\ NoNewLinks(g, h)
    BY <1>2, ExtendedNoLink
  <2>2. Resolve(g, p) = r
    BY <2>1, LinksAlike
  <2>3. Kind(h, r) # "link"
    BY ResolvedNoLink
  <2> QED
    BY <2>1, <2>2, <2>3 DEF NoNewLinks, Kind, Exists
<1>4. PICK stored : stored = StoreNode(g, r, content, torn)
  OBVIOUS
<1>5. PICK below : below = Guarded(made.err, g, stored)
  OBVIOUS
<1>6. result = Guarded(Ensure(~OverLimit(content, limit), "plain"), h, below)
  BY <1>1, <1>3, <1>4, <1>5 DEF WriteAt, StoreBelow, StoreFile
<1>7. CASE ~Ok(Ensure(~OverLimit(content, limit), "plain"))
  <2>1. result.host = h /\ ~Ok(result.err)
    BY <1>6, <1>7 DEF Guarded, Refused
  <2> QED
    BY <1>2, <2>1 DEF Written
<1>8. CASE result = below /\ ~Ok(made.err)
  <2>1. result.host = g /\ ~Ok(result.err)
    BY <1>5, <1>8 DEF Guarded, Refused
  <2> QED
    BY <1>2, <2>1 DEF Written
<1>9. CASE result = below /\ Ok(made.err)
  <2>0. result = stored
    BY <1>5, <1>9 DEF Guarded
  <2>1. CASE Kind(g, r) = "dir"
    <3>1. result.host = g /\ ~Ok(result.err)
      BY <1>4, <2>0, <2>1 DEF StoreNode, Refused, Ok
    <3> QED
      BY <1>2, <3>1 DEF Written
  <2>2. CASE Kind(g, r) # "dir" /\ torn
    <3>1. result.host = Put(g, r, File(<<>>)) /\ ~Ok(result.err)
      BY <1>4, <2>0, <2>2 DEF StoreNode, Refused, Ok
    <3> QED
      BY <1>2, <1>3, <3>1 DEF Written
  <2>3. CASE Kind(g, r) # "dir" /\ ~torn
    <3>1. result.host = Put(g, r, File(content))
      BY <1>4, <2>0, <2>3 DEF StoreNode, Done
    <3> QED
      BY <1>2, <1>3, <3>1 DEF Written
  <2> QED
    BY <2>1, <2>2, <2>3
<1>10. Ok(Ensure(~OverLimit(content, limit), "plain")) => result = below
  BY <1>6 DEF Guarded
<1> QED
  BY <1>7, <1>8, <1>9, <1>10

\* So a write leads every path where it led, leaves every other file, and has
\* stored its text when it succeeds.
LEMMA WriteLeaves ==
    ASSUME NEW h, Clean(h), NEW dp \in Paths, NEW content, NEW result,
           NEW rd, rd = Resolve(h, dp), Written(h, rd, content, result)
    PROVE  /\ NoNewLinks(h, result.host) /\ NoNewLinks(result.host, h)
           /\ \A r \in DOMAIN h : (h[r].kind = "file" /\ r # rd)
                => r \in DOMAIN result.host /\ result.host[r] = h[r]
           /\ Ok(result.err) => Holds(Node(result.host, dp), content)
<1>1. PICK v : v = result.host
  OBVIOUS
<1>2. PICK g : /\ Extended(h, g)
               /\ \/ v \in {h, g} /\ ~Ok(result.err)
                  \/ \E t : /\ v = Put(g, rd, File(t)) /\ Kind(g, rd) # "link"
                            /\ Ok(result.err) => t = content
  BY <1>1 DEF Written
<1>3. NoNewLinks(h, g) /\ NoNewLinks(g, h)
  BY <1>2, ExtendedNoLink
<1>4. CASE v \in {h, g} /\ ~Ok(result.err)
  <2>1. NoNewLinks(h, v) /\ NoNewLinks(v, h)
    BY <1>3, <1>4, NoNewSame
  <2>2. \A r \in DOMAIN h : r \in DOMAIN v /\ v[r] = h[r]
    BY <1>2, <1>4 DEF Extended
  <2> QED
    BY <1>1, <1>4, <2>1, <2>2
<1>5. CASE \E t : v = Put(g, rd, File(t)) /\ Kind(g, rd) # "link" /\ (Ok(result.err) => t = content)
  <2>1. PICK t : v = Put(g, rd, File(t)) /\ Kind(g, rd) # "link" /\ (Ok(result.err) => t = content)
    BY <1>5
  <2>2. File(t).kind = "file" /\ File(t).text = t
    BY DEF File
  <2>3. NoNewLinks(g, v) /\ NoNewLinks(v, g)
    BY <2>1, <2>2, PutAlike
  <2>4. NoNewLinks(h, v) /\ NoNewLinks(v, h)
    BY <1>3, <2>3, NoNewTwice
  <2>5. DOMAIN v = DOMAIN g \cup {rd} /\ \A q \in DOMAIN v : v[q] = IF q = rd THEN File(t) ELSE g[q]
    BY <2>1 DEF Put
  <2>6. \A r \in DOMAIN h : r # rd => r \in DOMAIN v /\ v[r] = h[r]
    BY <1>2, <2>5 DEF Extended
  <2>7. Resolve(v, dp) = rd
    BY <2>4, LinksAlike
  <2>8. Ok(result.err) => Holds(Node(v, dp), content)
    BY <2>1, <2>2, <2>5, <2>7, HoldsAt
  <2> QED
    BY <1>1, <2>4, <2>6, <2>8
<1> QED
  BY <1>2, <1>4, <1>5

\* A path that is no file of the tree does not lie below one.
LEMMA NotThrough ==
    ASSUME NEW h, NEW r \in Paths, NEW q \in Paths, ~ThroughFile(h, r), q \in DOMAIN h, h[q].kind = "file"
    PROVE  ~Below(q, r)
<1> SUFFICES ASSUME Below(q, r)
             PROVE  FALSE
  OBVIOUS
<1>1. Len(q) < Len(r) /\ SubSeq(r, 1, Len(q)) = q /\ Len(q) \in Nat /\ Len(r) \in Nat
  BY DEF Below, Under, Paths
<1>2. Len(q) \in 0 .. (Len(r) - 1)
  BY <1>1
<1>3. Kind(h, q) = "file"
  BY DEF Kind, Exists
<1>4. Kind(h, SubSeq(r, 1, Len(q))) = "file"
  BY <1>1, <1>3
<1> QED
  BY <1>2, <1>4 DEF ThroughFile

\* A file that was somewhere else, or in the same place, still is.
LEMMA WriteKeeps ==
    ASSUME NEW h, Clean(h), NEW sp \in Paths, NEW dp \in Paths, NEW content, NEW text,
           Resolve(h, sp) = Resolve(h, dp) \/ Holds(Node(h, sp), text),
           ~ThroughFile(h, Resolve(h, dp)),
           NEW result, Written(h, Resolve(h, dp), content, result), NEW v, v = result.host
    PROVE  /\ Resolve(v, sp) = Resolve(v, dp) \/ Holds(Node(v, sp), text)
           /\ Ok(result.err) => /\ Holds(Node(v, dp), content)
                                /\ ~Below(Resolve(v, sp), Resolve(v, dp))
<1>1. PICK rs \in Paths, rd \in Paths : rs = Resolve(h, sp) /\ rd = Resolve(h, dp)
  BY ResolvedNoLink
<1>2. /\ NoNewLinks(h, v) /\ NoNewLinks(v, h)
      /\ \A r \in DOMAIN h : (h[r].kind = "file" /\ r # rd) => r \in DOMAIN v /\ v[r] = h[r]
      /\ Ok(result.err) => Holds(Node(v, dp), content)
  BY <1>1, WriteLeaves
<1>3. Resolve(v, sp) = rs /\ Resolve(v, dp) = rd
  BY <1>1, <1>2, LinksAlike
<1>4. CASE rs = rd
  <2>1. ~Below(rs, rd)
    BY <1>4 DEF Below, Paths
  <2> QED
    BY <1>2, <1>3, <1>4, <2>1
<1>5. CASE rs # rd
  <2>1. rs \in DOMAIN h /\ h[rs].kind = "file" /\ h[rs].text = text
    BY <1>1, <1>5, HoldsAt
  <2>2. rs \in DOMAIN v /\ v[rs] = h[rs]
    BY <1>2, <1>5, <2>1
  <2>3. Holds(Node(v, sp), text)
    BY <1>3, <2>1, <2>2, HoldsAt
  <2>4. ~Below(rs, rd)
    BY <1>1, <2>1, NotThrough
  <2> QED
    BY <1>2, <1>3, <2>3, <2>4
<1> QED
  BY <1>4, <1>5

\* A file stays when another is removed: a path whose target was removed is the
\* same as the other, and one that the removed link was on the way of would have
\* lain below it.
LEMMA RemoveKeeps ==
    ASSUME NEW h, Clean(h), NEW sp \in Paths, sp # <<>>, NEW dp \in Paths, NEW text,
           Holds(Node(h, dp), text), ~Below(Resolve(h, sp), Resolve(h, dp)),
           NEW result, result = RemoveFileAt(h, sp), NEW v, v = result.host
    PROVE  /\ ~Ok(result.err) => v = h
           /\ sp = dp \/ Resolve(v, sp) = Resolve(v, dp) \/ Holds(Node(v, dp), text)
<1>1. PICK rs \in Paths, rd \in Paths :
        rs = Resolve(h, sp) /\ rd = Resolve(h, dp) /\ Kind(h, rs) # "link" /\ Kind(h, rd) # "link"
  BY ResolvedNoLink
<1>2. rd \in DOMAIN h /\ h[rd].kind = "file" /\ h[rd].text = text
  BY <1>1, HoldsAt
<1>3. PICK q : q = ResolveParent(h, sp)
  OBVIOUS
<1>4. CASE ~Ok(IsKind(Stat(h, sp), "file"))
  <2>1. v = h /\ ~Ok(result.err)
    BY <1>4 DEF RemoveFileAt, Guarded, Refused
  <2> QED
    BY <2>1
<1>5. CASE Ok(IsKind(Stat(h, sp), "file"))
  <2>1. v = Drop(h, q) /\ Ok(result.err)
    BY <1>3, <1>5 DEF RemoveFileAt, Guarded, Done, Ok
  <2>2. DOMAIN v = DOMAIN h \ {q} /\ \A r \in DOMAIN v : v[r] = h[r]
    BY <2>1 DEF Drop, Restrict
  <2>3. ASSUME rd # q, Resolve(v, dp) = rd
        PROVE  Holds(Node(v, dp), text)
    BY <1>2, <2>2, <2>3, HoldsAt
  <2>4. CASE Kind(h, q) # "link" /\ q = rs
    <3>1. NoNewLinks(h, v) /\ NoNewLinks(v, h)
      BY <2>1, <2>4, DropAlike
    <3>2. Resolve(v, sp) = rs /\ Resolve(v, dp) = rd
      BY <1>1, <3>1, LinksAlike
    <3> QED
      BY <2>1, <2>3, <2>4, <3>2
  <2>5. CASE Kind(h, q) = "link" /\ q = sp
    <3>1. Len(sp) \in 0 .. Len(sp) /\ SubSeq(sp, 1, Len(sp)) = sp /\ Len(sp) \in LinksOn(h, sp)
      BY <2>5, WholeIs DEF LinksOn
    <3>2. rd # q
      BY <1>1, <2>5
    <3>3. CASE \A i \in LinksOn(h, dp) : SubSeq(dp, 1, i) # sp
      <4>1. LinksOn(v, dp) = LinksOn(h, dp)
        <5>1. ASSUME NEW i \in 0 .. Len(dp)
              PROVE  Kind(v, SubSeq(dp, 1, i)) = "link" <=> Kind(h, SubSeq(dp, 1, i)) = "link"
          BY <2>2, <2>5, <3>3 DEF LinksOn, Kind, Exists
        <5> QED
          BY <5>1 DEF LinksOn
      <4>2. Resolve(v, dp) = rd
        <5>1. CASE LinksOn(h, dp) = {}
          BY <1>1, <4>1, <5>1 DEF Resolve, ResolveLinks
        <5>2. CASE LinksOn(h, dp) # {}
          <6>1. LinksOn(h, dp) \subseteq Nat
            BY DEF LinksOn, Paths
          <6>2. PICK i \in LinksOn(h, dp) : i = Min(LinksOn(h, dp))
            BY <5>2, <6>1, MinIs
          <6>3. Resolve(h, dp) = Followed(h, dp, i) /\ Resolve(v, dp) = Followed(v, dp, i)
            BY <4>1, <5>2, <6>2 DEF Resolve, ResolveLinks
          <6>4. SubSeq(dp, 1, i) \in DOMAIN h /\ SubSeq(dp, 1, i) # q
            BY <2>5, <3>3, <6>2, LinkThere
          <6>5. v[SubSeq(dp, 1, i)] = h[SubSeq(dp, 1, i)]
            BY <2>2, <6>4
          <6> QED
            BY <1>1, <6>3, <6>5 DEF Followed
        <5> QED
          BY <5>1, <5>2
      <4> QED
        BY <2>1, <2>3, <3>2, <4>2
    <3>4. CASE \E i \in LinksOn(h, dp) : SubSeq(dp, 1, i) = sp
      <4>1. PICK i \in LinksOn(h, dp) : SubSeq(dp, 1, i) = sp
        BY <3>4
      <4>2. i \in 0 .. Len(dp) /\ Len(sp) = i /\ Len(dp) \in Nat
        BY <4>1, LinkThere DEF Paths
      <4>3. CASE i = Len(dp)
        <5>1. SubSeq(dp, 1, Len(dp)) = dp
          BY WholeIs
        <5> QED
          BY <2>1, <4>1, <4>3, <5>1
      <4>4. CASE i # Len(dp)
        <5>1. LinksGood(h) /\ h[sp].to \in Paths
          BY <2>5 DEF Clean, LinksGood, Kind, Exists
        <5>2. PICK to \in Paths : to = h[sp].to
          BY <5>1
        <5>3. PICK rest \in Paths : rest = SubSeq(dp, i + 1, Len(dp)) /\ Len(rest) = Len(dp) - i
          BY <4>2, RestIs
        <5>4. rd = to \o rest
          <6>1. LinksOn(h, dp) \subseteq Nat
            BY DEF LinksOn, Paths
          <6>2. PICK j \in LinksOn(h, dp) : j = Min(LinksOn(h, dp))
            BY <4>1, <6>1, MinIs
          <6>3. j = i
            BY <4>1, <6>2 DEF Clean
          <6> QED
            BY <1>1, <4>1, <5>2, <5>3, <6>2, <6>3 DEF Resolve, ResolveLinks, Followed
        <5>5. rs = to
          <6>1. LinksOn(h, sp) \subseteq Nat
            BY DEF LinksOn, Paths
          <6>2. PICK j \in LinksOn(h, sp) : j = Min(LinksOn(h, sp))
            BY <3>1, <6>1, MinIs
          <6>3. j = Len(sp)
            BY <3>1, <6>2 DEF Clean
          <6>4. rs = to \o SubSeq(sp, Len(sp) + 1, Len(sp))
            BY <1>1, <3>1, <5>2, <6>2, <6>3 DEF Resolve, ResolveLinks, Followed
          <6>5. PICK end \in Paths : end = SubSeq(sp, Len(sp) + 1, Len(sp)) /\ Len(end) = Len(sp) - Len(sp)
            BY <3>1, RestIs
          <6>6. Len(end) = 0 /\ Len(to) \in Nat
            BY <4>2, <6>5 DEF Paths
          <6>b. /\ to \o end \in Paths /\ Len(to \o end) = Len(to) + Len(end)
                /\ \A k \in 1 .. Len(to) : (to \o end)[k] = to[k]
            BY AfterIs
          <6>7. PICK joined \in Paths : /\ joined = to \o end /\ Len(joined) = Len(to) + Len(end)
                                       /\ \A k \in 1 .. Len(to) : joined[k] = to[k]
            BY <6>b
          <6>a. Len(joined) = Len(to)
            BY <6>6, <6>7
          <6>8. joined = to
            BY <6>7, <6>a, SamePath
          <6> QED
            BY <6>4, <6>5, <6>7, <6>8
        <5>6. Len(to) < Len(rd) /\ Under(to, rd)
          <6>1. Len(rd) = Len(to) + Len(rest) /\ \A j \in 1 .. Len(to) : rd[j] = to[j]
            BY <5>4, AfterIs
          <6>2. Len(to) \in Nat /\ Len(rd) \in Nat /\ Len(rest) \in Nat /\ Len(rest) > 0
            BY <4>2, <4>4, <5>3 DEF Paths
          <6>3. Len(to) < Len(rd) /\ Len(to) <= Len(rd)
            BY <6>1, <6>2
          <6>4. Under(to, rd)
            BY <6>1, <6>3, UnderIs
          <6> QED
            BY <6>3, <6>4
        <5>7. Below(rs, rd)
          BY <5>5, <5>6 DEF Below
        <5> QED
          BY <1>1, <5>7
      <4> QED
        BY <4>3, <4>4
    <3> QED
      BY <3>3, <3>4
  <2>6. \/ Kind(h, q) # "link" /\ q = rs
        \/ Kind(h, q) = "link" /\ q = sp
    <3>1. LinksGood(h)
      BY DEF Clean
    <3>2. CASE LinksOn(h, Front(sp)) # {} /\ ResolveParent(h, sp) = Resolve(h, sp)
      BY <1>1, <1>3, <3>2
    <3>3. CASE LinksOn(h, Front(sp)) = {} /\ ResolveParent(h, sp) = sp
      <4>1. CASE Kind(h, sp) = "link"
        BY <1>3, <3>3, <4>1
      <4>2. CASE Kind(h, sp) # "link"
        <5>1. LinksOn(h, sp) = {}
          <6>1. ASSUME NEW i \in LinksOn(h, sp)
                PROVE  FALSE
            <7>1. Len(sp) \in Nat \ {0} /\ Front(sp) = SubSeq(sp, 1, Len(sp) - 1) /\ Len(sp) - 1 \in 0 .. Len(sp)
                  /\ Len(Front(sp)) = Len(sp) - 1
              BY FrontIs
            <7>2. i \in 0 .. Len(sp) /\ Kind(h, SubSeq(sp, 1, i)) = "link"
              BY DEF LinksOn
            <7>3. i # Len(sp)
              BY <4>2, <7>2, WholeIs
            <7>4. PICK n : n = Len(sp) - 1 /\ n \in 0 .. Len(sp) /\ i \in 0 .. n
              BY <7>1, <7>2, <7>3
            <7>5. SubSeq(SubSeq(sp, 1, n), 1, i) = SubSeq(sp, 1, i)
              BY <7>4, StartOfStart
            <7>6. i \in LinksOn(h, Front(sp))
              BY <7>1, <7>2, <7>4, <7>5 DEF LinksOn
            <7> QED
              BY <3>3, <7>6
          <6> QED
            BY <6>1
        <5>2. rs = sp
          BY <1>1, <5>1 DEF Resolve, ResolveLinks
        <5> QED
          BY <1>3, <3>3, <4>2, <5>2
      <4> QED
        BY <4>1, <4>2
    <3> QED
      BY <3>1, <3>2, <3>3, ParentIs
  <2> QED
    BY <2>4, <2>5, <2>6
<1> QED
  BY <1>4, <1>5
-----------------------------------------------------------------------------
(***************************************************************************)
(* The write and the removal of a move, made by the file system.           *)
(***************************************************************************)

\* Every path has a place on the host.
LEMMA HostPlaceIs ==
    ASSUME NEW w, NEW p \in Paths
    PROVE  HostPlace(w, p) \in Paths
<1>1. <<>> \in Paths
  BY DEF Paths
<1> QED
  BY <1>1, HostOfIs DEF HostPlace

\* A path that passes its check leads through no file.
LEMMA CheckedNotThrough ==
    ASSUME NEW h, NEW base, NEW p, Ok(Check(h, base, p))
    PROVE  ~ThroughFile(h, Resolve(h, p))
<1> DEFINE r == Resolve(h, p)
           checks == <<Ensure(WithinRoot(base, p), "denied"), Ensure(~Dangling(h, p), "missing"),
                       Ensure(~ThroughFile(h, r), "plain"), Ensure(WithinRoot(base, r), "denied")>>
<1>1. PICK n \in Nat : n = 4 /\ DOMAIN checks = 1 .. n
  OBVIOUS
<1>2. Ok(FirstError(checks))
  BY DEF Check, CheckResolved
<1>3. checks[3] = Ensure(~ThroughFile(h, r), "plain")
  OBVIOUS
<1> HIDE DEF checks
<1>4. \A i \in 1 .. n : Ok(checks[i])
  BY <1>1, <1>2, AllChecksGood
<1>5. 3 \in 1 .. n
  BY <1>1
<1>6. Ok(Ensure(~ThroughFile(h, r), "plain"))
  BY <1>3, <1>4, <1>5
<1> QED
  BY <1>6 DEF Ensure, Ok

\* What one call of the file system makes of the host.
LEMMA FsApplied ==
    ASSUME NEW w, Shaped(w), NEW op, NEW fault \in Faults, NEW result, result = FsApply(w, op, fault),
           NEW h, h = w.host
    PROVE  \/ result.world = w /\ ~Ok(result.err)
           \/ \E torn, applied :
                /\ torn \in BOOLEAN
                /\ applied = IF OnAgent(w) THEN AgentApply(h, op, torn) ELSE LocalApply(h, op, w.allowWrite, torn)
                /\ result.world.host = applied.host /\ result.err = applied.err
<1>1. CASE fault = "fails"
  BY <1>1 DEF FsApply, Failed, Ok
<1>2. CASE fault # "fails"
  <2>1. PICK torn : torn \in BOOLEAN /\ torn = (fault = "torn")
    OBVIOUS
  <2>2. PICK applied : applied = IF OnAgent(w) THEN AgentApply(h, op, torn) ELSE LocalApply(h, op, w.allowWrite, torn)
    OBVIOUS
  <2>3. result = WithHost(w, applied)
    BY <1>2, <2>1, <2>2 DEF FsApply
  <2>4. result.world = [w EXCEPT !.host = applied.host] /\ result.err = applied.err
    BY <2>3 DEF WithHost
  <2>5. result.world.host = applied.host
    BY <2>4 DEF Shaped
  <2>6. /\ torn \in BOOLEAN
        /\ applied = IF OnAgent(w) THEN AgentApply(h, op, torn) ELSE LocalApply(h, op, w.allowWrite, torn)
        /\ result.world.host = applied.host /\ result.err = applied.err
    BY <2>1, <2>2, <2>4, <2>5
  <2> QED
    BY <2>6
<1> QED
  BY <1>1, <1>2

\* A write is refused, or passes its checks and is made at the place of its path.
LEMMA FsWriteIs ==
    ASSUME Shaped(world), NEW op, op.kind = "write", NEW fault \in Faults,
           NEW result, result = FsApply(world, op, fault),
           NEW h, h = world.host, NEW place, place = HostPlace(world, op.path)
    PROVE  \/ result.world.host = h /\ ~Ok(result.err)
           \/ /\ ~ThroughFile(h, Resolve(h, place))
              /\ \E torn, stored :
                   /\ torn \in BOOLEAN /\ stored = WriteAt(h, place, op.content, WriteLimit, torn)
                   /\ result.world.host = stored.host /\ result.err = stored.err
<1>1. CASE result.world = world /\ ~Ok(result.err)
  BY <1>1
<1>2. ASSUME NEW torn, NEW applied, torn \in BOOLEAN,
             applied = IF OnAgent(world) THEN AgentApply(h, op, torn)
                       ELSE LocalApply(h, op, world.allowWrite, torn),
             result.world.host = applied.host, result.err = applied.err
      PROVE  \/ result.world.host = h /\ ~Ok(result.err)
             \/ /\ ~ThroughFile(h, Resolve(h, place))
                /\ \E stored : /\ stored = WriteAt(h, place, op.content, WriteLimit, torn)
                               /\ result.world.host = stored.host /\ result.err = stored.err
  <2>1. PICK stored : stored = WriteAt(h, place, op.content, WriteLimit, torn)
    OBVIOUS
  <2>2. CASE OnAgent(world)
    <3>1. PICK err : err = ZoneMayWrite(h, op.path)
      OBVIOUS
    <3>2. CASE ~Ok(err)
      <4>1. applied = Refused(h, err)
        BY <1>2, <2>2, <3>1, <3>2 DEF AgentApply, ZoneWrite, Guarded
      <4> QED
        BY <1>2, <3>2, <4>1 DEF Refused
    <3>3. CASE Ok(err)
      <4>1. Ok(ZoneResolve(h, op.path))
        BY <3>1, <3>3 DEF ZoneMayWrite, ZoneCheckPathOp, ZoneAllows
      <4>2. MatchZone(op.path) # {} /\ Ok(ResolveIn(h, ZoneOf(op.path), op.path))
        BY <4>1 DEF ZoneResolve, Ok
      <4>3. place = HostOf(op.path)
        BY <2>2, <4>2 DEF HostPlace
      <4>4. Ok(Check(h, ZoneOf(op.path).base, place))
        BY <4>2, <4>3 DEF ResolveIn, HostOf
      <4>5. ~ThroughFile(h, Resolve(h, place))
        BY <4>4, CheckedNotThrough
      <4>6. applied = stored
        BY <1>2, <2>1, <2>2, <3>1, <3>3, <4>3 DEF AgentApply, ZoneWrite, Guarded
      <4> QED
        BY <1>2, <2>1, <4>5, <4>6
    <3> QED
      BY <3>2, <3>3
  <2>3. CASE ~OnAgent(world)
    <3>0. place = op.path
      BY <2>3 DEF HostPlace
    <3>1. PICK may, err : may = world.allowWrite /\ err = LocalMayStore(h, op.path, op.content, may)
      OBVIOUS
    <3>2. CASE ~Ok(err)
      <4>1. applied = Refused(h, err)
        BY <1>2, <2>3, <3>1, <3>2 DEF LocalApply, LocalWrite, Guarded
      <4> QED
        BY <1>2, <3>2, <4>1 DEF Refused
    <3>3. CASE Ok(err)
      <4>1. Ok(LocalMayWrite(h, op.path, may))
        BY <3>1, <3>3 DEF LocalMayStore, Ok
      <4>2. Ok(Check(h, LocalRoot, place))
        BY <3>0, <4>1 DEF LocalMayWrite, LocalCheckPathOp, LocalResolve, Ok
      <4>3. ~ThroughFile(h, Resolve(h, place))
        BY <4>2, CheckedNotThrough
      <4>4. applied = stored
        BY <1>2, <2>1, <2>3, <3>0, <3>1, <3>3 DEF LocalApply, LocalWrite, Guarded
      <4> QED
        BY <1>2, <2>1, <4>3, <4>4
    <3> QED
      BY <3>2, <3>3
  <2> QED
    BY <2>2, <2>3
<1> QED
  BY <1>1, <1>2, FsApplied

\* A removal is refused, or made at the place of its path, which is not the root.
LEMMA FsRemoveIs ==
    ASSUME FilesInv, NEW op, op.kind = "rm", op.path \in Paths, NEW fault \in Faults,
           NEW result, result = FsApply(world, op, fault),
           NEW h, h = world.host, NEW place, place = HostPlace(world, op.path)
    PROVE  \/ result.world.host = h /\ ~Ok(result.err)
           \/ /\ place # <<>>
              /\ \E removed : /\ removed = RemoveFileAt(h, place)
                              /\ result.world.host = removed.host /\ result.err = removed.err
<1>0. Shaped(world) /\ LinksGood(h)
  BY KeptLinksGood DEF FilesInv
<1>a. PICK removed : removed = RemoveFileAt(h, place)
  OBVIOUS
<1>b. ASSUME ~Ok(IsKind(Stat(h, place), "file"))
      PROVE  removed.host = h /\ ~Ok(removed.err)
  BY <1>a, <1>b DEF RemoveFileAt, Guarded, Refused
<1>c. ASSUME Ok(IsKind(Stat(h, place), "file"))
      PROVE  Stat(h, place) = "file"
  BY <1>c DEF IsKind, Ok
<1>d. ASSUME NEW base, Passes(h, base, place)
      PROVE  \/ removed.host = h /\ ~Ok(removed.err)
             \/ place # <<>>
  BY <1>b, <1>c, <1>d, FileAtParent
<1>1. CASE result.world = world /\ ~Ok(result.err)
  BY <1>1
<1>2. ASSUME NEW torn, NEW applied, torn \in BOOLEAN,
             applied = IF OnAgent(world) THEN AgentApply(h, op, torn)
                       ELSE LocalApply(h, op, world.allowWrite, torn),
             result.world.host = applied.host, result.err = applied.err
      PROVE  \/ result.world.host = h /\ ~Ok(result.err)
             \/ /\ place # <<>> /\ result.world.host = removed.host /\ result.err = removed.err
  <2>2. CASE OnAgent(world)
    <3>1. PICK err : err = ZoneMayWrite(h, op.path)
      OBVIOUS
    <3>2. CASE ~Ok(err)
      <4>1. applied = Refused(h, err)
        BY <1>2, <2>2, <3>1, <3>2 DEF AgentApply, ZoneRemoveFile, Guarded
      <4> QED
        BY <1>2, <3>2, <4>1 DEF Refused
    <3>3. CASE Ok(err)
      <4>1. Ok(ZoneResolve(h, op.path))
        BY <3>1, <3>3 DEF ZoneMayWrite, ZoneCheckPathOp, ZoneAllows
      <4>2. MatchZone(op.path) # {}
        BY <4>1 DEF ZoneResolve, Ok
      <4>3. place = HostOf(op.path)
        BY <2>2, <4>2 DEF HostPlace
      <4>4. \A z \in Zones : z.writable => RootGood(h, z.base)
        BY <2>2 DEF FilesInv, RootsKept, ActiveRoots
      <4>5. Passes(h, ZoneOf(op.path).base, place)
        BY <1>0, <3>1, <3>3, <4>3, <4>4, ZonePasses
      <4>6. applied = removed
        BY <1>2, <1>a, <2>2, <3>1, <3>3, <4>3 DEF AgentApply, ZoneRemoveFile, Guarded
      <4> QED
        BY <1>2, <1>d, <4>5, <4>6
    <3> QED
      BY <3>2, <3>3
  <2>3. CASE ~OnAgent(world)
    <3>0. place = op.path
      BY <2>3 DEF HostPlace
    <3>1. PICK may, err : may = world.allowWrite /\ err = LocalMayWrite(h, op.path, may)
      OBVIOUS
    <3>2. CASE ~Ok(err)
      <4>1. applied = Refused(h, err)
        BY <1>2, <2>3, <3>1, <3>2 DEF LocalApply, LocalRemoveFile, Guarded
      <4> QED
        BY <1>2, <3>2, <4>1 DEF Refused
    <3>3. CASE Ok(err)
      <4>1. RootGood(h, LocalRoot)
        BY <2>3 DEF FilesInv, RootsKept, ActiveRoots
      <4>2. Passes(h, LocalRoot, place)
        BY <1>0, <3>0, <3>1, <3>3, <4>1, LocalPasses
      <4>4. applied = removed
        BY <1>2, <1>a, <2>3, <3>0, <3>1, <3>3 DEF LocalApply, LocalRemoveFile, Guarded
      <4> QED
        BY <1>2, <1>d, <4>2, <4>4
    <3> QED
      BY <3>2, <3>3
  <2> QED
    BY <2>2, <2>3
<1> QED
  BY <1>0, <1>1, <1>2, <1>a, FsApplied

\* What is seen of a world is in its trees and its adapter.
LEMMA SeenAlike ==
    ASSUME NEW w, NEW v, v.host = w.host, v.data = w.data, v.adapter = w.adapter
    PROVE  /\ \A p : /\ View(v, p) = View(w, p) /\ HostNode(v, p) = HostNode(w, p)
                     /\ HostSpot(v, p) = HostSpot(w, p)
           /\ \A p, q : OnePlace(v, p, q) <=> OnePlace(w, p, q)
           /\ \A p, text : AtSource(v, p, text) <=> AtSource(w, p, text)
<1>1. \A p : HostPlace(v, p) = HostPlace(w, p)
  BY DEF HostPlace, OnAgent
<1>2. \A p : HostNode(v, p) = HostNode(w, p) /\ HostSpot(v, p) = HostSpot(w, p)
  BY <1>1 DEF HostNode, HostSpot
<1>3. \A p : View(v, p) = View(w, p)
  BY <1>2 DEF View, Tree
<1> QED
  BY <1>2, <1>3 DEF OnePlace, AtSource

\* A path that belongs to no mount is seen at its place.
LEMMA SeenOnHost ==
    ASSUME NEW w, NEW p, ~IsMounted(p)
    PROVE  View(w, p) = Node(w.host, HostPlace(w, p)) /\ HostNode(w, p) = Node(w.host, HostPlace(w, p))
  BY DEF View, HostNode

\* The write of a move keeps what is to be moved, wherever it is.
LEMMA FsWriteKeeps ==
    ASSUME FilesInv, NEW src \in Paths, NEW dest \in Paths, ~IsMounted(src), ~IsMounted(dest), NEW text,
           OnePlace(world, src, dest) \/ AtSource(world, src, text),
           NEW op, op.kind = "write", op.path = dest, op.content = text, NEW fault \in Faults,
           NEW result, result = FsApply(world, op, fault), NEW v, v = result.world
    PROVE  /\ OnePlace(v, src, dest) \/ AtSource(v, src, text)
           /\ Ok(result.err) => /\ Holds(View(v, dest), text)
                                /\ ~Below(HostSpot(v, src), HostSpot(v, dest))
<1>1. Shaped(world) /\ Clean(world.host)
  BY HostClean DEF FilesInv
<1>2. v.data = world.data /\ v.adapter = world.adapter
  BY <1>1, FsKeeps DEF HostOnly
<1>3. PICK sp \in Paths, dp \in Paths : sp = HostPlace(world, src) /\ dp = HostPlace(world, dest)
  BY HostPlaceIs
<1>4. HostPlace(v, src) = sp /\ HostPlace(v, dest) = dp
  BY <1>2, <1>3 DEF HostPlace, OnAgent
<1>5. CASE v.host = world.host /\ ~Ok(result.err)
  BY <1>2, <1>5, SeenAlike
<1>6. ASSUME NEW torn, NEW stored, torn \in BOOLEAN, ~ThroughFile(world.host, Resolve(world.host, dp)),
             stored = WriteAt(world.host, dp, text, WriteLimit, torn),
             v.host = stored.host, result.err = stored.err
      PROVE  /\ OnePlace(v, src, dest) \/ AtSource(v, src, text)
             /\ Ok(result.err) => /\ Holds(View(v, dest), text)
                                  /\ ~Below(HostSpot(v, src), HostSpot(v, dest))
  <2>1. Written(world.host, Resolve(world.host, dp), text, stored)
    BY <1>1, <1>6, WriteIs
  <2>2. Resolve(world.host, sp) = Resolve(world.host, dp) \/ Holds(Node(world.host, sp), text)
    BY <1>3, SeenOnHost DEF OnePlace, HostSpot, AtSource
  <2>3. /\ Resolve(v.host, sp) = Resolve(v.host, dp) \/ Holds(Node(v.host, sp), text)
        /\ Ok(stored.err) => /\ Holds(Node(v.host, dp), text)
                             /\ ~Below(Resolve(v.host, sp), Resolve(v.host, dp))
    BY <1>1, <1>6, <2>1, <2>2, WriteKeeps
  <2>4. OnePlace(v, src, dest) \/ AtSource(v, src, text)
    BY <1>4, <2>3, SeenOnHost DEF OnePlace, HostSpot, AtSource
  <2>5. Ok(result.err) => /\ Holds(View(v, dest), text)
                          /\ ~Below(HostSpot(v, src), HostSpot(v, dest))
    BY <1>4, <1>6, <2>3, SeenOnHost DEF HostSpot
  <2> QED
    BY <2>4, <2>5
<1>7. \/ v.host = world.host /\ ~Ok(result.err)
      \/ /\ ~ThroughFile(world.host, Resolve(world.host, dp))
         /\ \E torn, stored : /\ torn \in BOOLEAN /\ stored = WriteAt(world.host, dp, text, WriteLimit, torn)
                              /\ v.host = stored.host /\ result.err = stored.err
  BY <1>1, <1>3, FsWriteIs
<1> QED
  BY <1>5, <1>6, <1>7

\* The removal of a move keeps what has been moved.
LEMMA FsRemoveKeeps ==
    ASSUME FilesInv, NEW src \in Paths, NEW dest \in Paths, ~IsMounted(src), ~IsMounted(dest), NEW text,
           Holds(View(world, dest), text), ~Below(HostSpot(world, src), HostSpot(world, dest)),
           NEW op, op.kind = "rm", op.path = src, NEW fault \in Faults,
           NEW result, result = FsApply(world, op, fault), NEW v, v = result.world
    PROVE  /\ v.data = world.data /\ v.adapter = world.adapter
           /\ ~Ok(result.err) => v.host = world.host
           /\ OnePlace(v, src, dest) \/ Holds(View(v, dest), text)
<1>1. Shaped(world) /\ Clean(world.host)
  BY HostClean DEF FilesInv
<1>2. v.data = world.data /\ v.adapter = world.adapter
  BY <1>1, FsKeeps DEF HostOnly
<1>3. PICK sp \in Paths, dp \in Paths : sp = HostPlace(world, src) /\ dp = HostPlace(world, dest)
  BY HostPlaceIs
<1>4. HostPlace(v, src) = sp /\ HostPlace(v, dest) = dp
  BY <1>2, <1>3 DEF HostPlace, OnAgent
<1>5. CASE v.host = world.host /\ ~Ok(result.err)
  <2>1. View(v, dest) = View(world, dest)
    BY <1>2, <1>5, SeenAlike
  <2> QED
    BY <1>2, <1>5, <2>1
<1>6. ASSUME NEW removed, sp # <<>>, removed = RemoveFileAt(world.host, sp),
             v.host = removed.host, result.err = removed.err
      PROVE  /\ ~Ok(result.err) => v.host = world.host
             /\ OnePlace(v, src, dest) \/ Holds(View(v, dest), text)
  <2>1. Holds(Node(world.host, dp), text) /\ ~Below(Resolve(world.host, sp), Resolve(world.host, dp))
    BY <1>3, SeenOnHost DEF HostSpot
  <2>2. /\ ~Ok(removed.err) => v.host = world.host
        /\ sp = dp \/ Resolve(v.host, sp) = Resolve(v.host, dp) \/ Holds(Node(v.host, dp), text)
    BY <1>1, <1>6, <2>1, RemoveKeeps
  <2> QED
    BY <1>4, <1>6, <2>2, SeenOnHost DEF OnePlace, HostSpot
<1>7. \/ v.host = world.host /\ ~Ok(result.err)
      \/ /\ sp # <<>>
         /\ \E removed : /\ removed = RemoveFileAt(world.host, sp)
                         /\ v.host = removed.host /\ result.err = removed.err
  BY <1>3, FsRemoveIs
<1> QED
  BY <1>2, <1>5, <1>6, <1>7
-----------------------------------------------------------------------------
(***************************************************************************)
(* The batch of a move, taken by a mount.                                  *)
(***************************************************************************)

\* A batch of one mount is checked by it.
LEMMA BatchChecked ==
    ASSUME NEW ops, NEW n \in Nat \ {0}, DOMAIN ops = 1 .. n, NEW m,
           \A i \in 1 .. n : ~IsSyntheticPrefix(ops[i].path) /\ IsMounted(ops[i].path) /\ MountOf(ops[i].path) = m
    PROVE  BatchError(ops) = ValidateMountedMutationBatch(m, ops)
<1>1. PICK sorting : sorting = [i \in 1 .. n |-> SortingError(ops, i)]
  OBVIOUS
<1>2. DOMAIN sorting = 1 .. n /\ \A i \in 1 .. n : Ok(sorting[i])
  BY <1>1 DEF SortingError, Ensure, Ok
<1>3. Ok(FirstError(sorting))
  BY <1>2, NoFirstError
<1>4. {i \in DOMAIN ops : IsMounted(ops[i].path)} = 1 .. n /\ MountOf(ops[1].path) = m
  OBVIOUS
<1>5. BatchError(ops) = FirstError(<<FirstError(sorting), ValidateMountedMutationBatch(m, ops)>>)
  BY <1>1, <1>4 DEF BatchError
<1> QED
  BY <1>3, <1>5, FirstOfTwo

\* A mount that checks a write for good checks a move for good.
LEMMA MoveChecked ==
    ASSUME NEW m, NEW a, a.kind = "write", NEW b, b.kind = "rm",
           Ok(ValidateMountedMutationBatch(m, <<a>>))
    PROVE  Ok(ValidateMountedMutationBatch(m, <<a, b>>))
<1>1. PICK may : may = CheckMountPathOp(m, "write")
  OBVIOUS
<1>2. CheckMountPathOp(m, "remove") = may
  BY <1>1 DEF CheckMountPathOp
<1>3. MutationSpecPathOp("write") = "write" /\ MutationSpecPathOp("rm") = "remove"
  BY DEF MutationSpecPathOp
<1>4. PICK one : one = [i \in DOMAIN <<a>> |-> CheckMountPathOp(m, MutationSpecPathOp(<<a>>[i].kind))]
  OBVIOUS
<1>5. PICK both : both = [i \in DOMAIN <<a, b>> |-> CheckMountPathOp(m, MutationSpecPathOp(<<a, b>>[i].kind))]
  OBVIOUS
<1>6. PICK empty : empty = MountMutationError(m, <<>>)
  OBVIOUS
<1>7. Ok(FirstError(one)) /\ Ok(empty)
  <2>1. Ok(FirstError(<<FirstError(one), empty>>))
    BY <1>4, <1>6 DEF ValidateMountedMutationBatch
  <2> QED
    BY <2>1, TwoGood
<1>8. Ok(may)
  <2>1. PICK n \in Nat : n = 1 /\ DOMAIN one = 1 .. n
    BY <1>4
  <2>2. \A i \in 1 .. n : Ok(one[i])
    BY <1>7, <2>1, AllChecksGood
  <2>3. one[1] = may
    BY <1>1, <1>3, <1>4
  <2> QED
    BY <2>1, <2>2, <2>3
<1>9. Ok(FirstError(both))
  <2>1. PICK n \in Nat : n = 2 /\ DOMAIN both = 1 .. n
    BY <1>5
  <2>2. both[1] = may /\ both[2] = may
    BY <1>1, <1>2, <1>3, <1>5
  <2>3. \A i \in 1 .. n : Ok(both[i])
    BY <1>8, <2>1, <2>2
  <2> QED
    BY <2>1, <2>3, NoFirstError
<1>10. Ok(FirstError(<<FirstError(both), empty>>))
  BY <1>7, <1>9, TwoGood
<1> QED
  BY <1>5, <1>6, <1>10 DEF ValidateMountedMutationBatch

\* One whose budget takes the write takes the move, unless it takes no two operations.
LEMMA MoveAfforded ==
    ASSUME NEW m, NEW a, a.kind = "write", NEW b, b.kind = "rm", ~Exceeds(2, m.maxCount),
           Ok(MountMutationError(m, <<a>>))
    PROVE  Ok(MountMutationError(m, <<a, b>>))
<1>1. PICK class, writable, mutator :
        /\ class = RequireMountCLIClass(m, "mutate") /\ writable = WritableError(m)
        /\ mutator = IF Implements(m, "Mutator") THEN "ok" ELSE MountUnsupported(m)
  OBVIOUS
<1>2. PICK one, both : one = CheckMountMutationBudget(m, <<a>>) /\ both = CheckMountMutationBudget(m, <<a, b>>)
  OBVIOUS
<1>3. PICK checks : checks = <<one, class, writable, mutator>>
  OBVIOUS
<1>4. PICK more : more = <<both, class, writable, mutator>>
  OBVIOUS
<1>5. PICK n \in Nat : n = 4 /\ DOMAIN checks = 1 .. n /\ DOMAIN more = 1 .. n
  BY <1>3, <1>4
<1>6. MountMutationError(m, <<a>>) = FirstError(checks) /\ MountMutationError(m, <<a, b>>) = FirstError(more)
  BY <1>1, <1>2, <1>3, <1>4 DEF MountMutationError
<1>7. \A i \in 1 .. n : Ok(checks[i])
  BY <1>5, <1>6, AllChecksGood
<1>8. Ok(one) /\ Ok(class) /\ Ok(writable) /\ Ok(mutator)
  <2>1. checks[1] = one /\ checks[2] = class /\ checks[3] = writable /\ checks[4] = mutator
    BY <1>3
  <2>2. 1 \in 1 .. n /\ 2 \in 1 .. n /\ 3 \in 1 .. n /\ 4 \in 1 .. n
    BY <1>5
  <2> QED
    BY <1>7, <2>1, <2>2
<1>9. Ok(both)
  <2>1. PICK count, size : /\ count = WithinBudget(m, Len(<<a, b>>), m.maxCount)
                           /\ size = WithinBudget(m, BatchSize(<<a, b>>), m.maxBytes)
    OBVIOUS
  <2>2. Ok(count)
    <3>1. Len(<<a, b>>) = 2
      OBVIOUS
    <3> QED
      BY <2>1, <3>1 DEF WithinBudget, Ok
  <2>3. size = WithinBudget(m, BatchSize(<<a>>), m.maxBytes)
    BY <2>1, SizeOfMove
  <2>4. Ok(size)
    BY <1>2, <1>8, <2>3, TwoGood DEF CheckMountMutationBudget
  <2> QED
    BY <1>2, <2>1, <2>2, <2>4, TwoGood DEF CheckMountMutationBudget
<1>10. \A i \in 1 .. n : Ok(more[i])
  <2>1. more[1] = both /\ more[2] = class /\ more[3] = writable /\ more[4] = mutator
    BY <1>4
  <2>2. \A i \in 1 .. n : i = 1 \/ i = 2 \/ i = 3 \/ i = 4
    BY <1>5
  <2> QED
    BY <1>8, <1>9, <2>1, <2>2
<1> QED
  BY <1>5, <1>6, <1>10, NoFirstError

\* A move that a mount has made has its text where it goes.
LEMMA MoveApplied ==
    ASSUME NEW tree, Linkless(tree), NEW src \in Paths, src # <<>>, NEW dest \in Paths, src # dest, NEW text,
           NEW a, a.kind = "write", a.path = dest, a.content = text, NEW b, b.kind = "rm", b.path = src,
           NEW applied, applied = Applied(tree, <<a, b>>), Ok(applied.err)
    PROVE  Holds(Node(applied.host, dest), text)
<1>1. PICK torn, limit : torn \in BOOLEAN /\ torn = FALSE /\ limit = 0
  OBVIOUS
<1>2. PICK stored, g : stored = WriteAt(tree, dest, text, limit, torn) /\ g = stored.host
  OBVIOUS
<1>3. PICK removed : removed = RemoveFileAt(g, src)
  OBVIOUS
<1>4. applied = Guarded(stored.err, g, removed)
  <2>1. PICK ops : ops = <<a, b>>
    OBVIOUS
  <2>2. Len(ops) = 2 /\ ops[1] = a /\ ops[2] = b
    BY <2>1
  <2>3. applied = Then(Then(Done(tree), a), b)
    BY <2>1, <2>2, AppliedTwo
  <2>4. Then(Done(tree), a) = stored
    <3>1. MountEffect(tree, a) = stored
      BY <1>1, <1>2 DEF MountEffect
    <3> QED
      BY <3>1 DEF Then, Done, Guarded, Ok
  <2>5. MountEffect(g, b) = removed
    BY <1>3 DEF MountEffect
  <2> QED
    BY <1>2, <2>3, <2>4, <2>5 DEF Then
<1>5. Ok(stored.err) /\ applied = removed
  BY <1>4 DEF Guarded, Refused
<1>6. Clean(tree) /\ Resolve(tree, dest) = dest
  BY LinklessClean
<1>7. Written(tree, dest, text, stored)
  BY <1>1, <1>2, <1>6, WriteIs
<1>8. NoNewLinks(tree, g) /\ Holds(Node(g, dest), text)
  BY <1>2, <1>5, <1>6, <1>7, WriteLeaves
<1>9. Linkless(g) /\ Clean(g) /\ LinksGood(g)
  BY <1>8, LinklessStays, LinklessClean DEF Clean
<1>10. Resolve(g, dest) = dest /\ Resolve(g, src) = src
  BY <1>9, LinklessClean
<1>11. ResolveParent(g, src) = src
  BY <1>9, <1>10, ParentIs
<1>12. removed.host = Drop(g, src)
  BY <1>3, <1>5, <1>11 DEF RemoveFileAt, Guarded, Refused, Done
<1>13. PICK v : v = Drop(g, src)
  OBVIOUS
<1>14. DOMAIN v = DOMAIN g \ {src} /\ \A q \in DOMAIN v : v[q] = g[q]
  BY <1>13 DEF Drop, Restrict
<1>15. Linkless(v)
  BY <1>9, <1>13, DropNoLink, LinklessStays
<1>16. Resolve(v, dest) = dest
  BY <1>15, LinklessClean
<1>17. dest \in DOMAIN g /\ g[dest].kind = "file" /\ g[dest].text = text
  BY <1>8, <1>10, HoldsAt
<1>18. Holds(Node(v, dest), text)
  BY <1>14, <1>16, <1>17, HoldsAt
<1> QED
  BY <1>5, <1>12, <1>13, <1>18

\* Where the mount of a path refuses to write it, alone or in a batch.
Unwritable(op) ==
    ~Ok(BatchError(<<op>>)) \/ ~Ok(MountMutationError(MountOf(op.path), <<op>>))

\* The order of the records decides nothing but whether the batch is answered.
LEMMA ReorderedIs ==
    ASSUME NEW ops, NEW given, Answered(given), NEW result, result = ReorderMutationRecords(ops, given)
    PROVE  result.world = given.world /\ result.err \in {given.err, "plain"}
  BY DEF ReorderMutationRecords, Failed, Answered

\* A move that a mount is asked to make changes nothing, and then gives way to its
\* single calls only where the write alone would be refused, or is made.
LEMMA MoveBatch ==
    ASSUME NEW w, Shaped(w), MountsLinkless(w), NEW c, WellFormed(c), c.name = "mv", ~MovesInHalves(c),
           \A p \in Range(c.paths) : ~IsSyntheticPrefix(p),
           NEW src, src = c.paths[1], NEW dest, dest = c.paths[2], NEW text,
           NEW a, a.kind = "write", a.path = dest, a.content = text, NEW b, b.kind = "rm", b.path = src,
           NEW ops, ops = <<a, b>>, OpsOf(c, ops), Ok(BatchError(ops)) => IsMounted(dest),
           NEW result \in MountBatch(w, ops)
    PROVE  \/ /\ result.world = w
              /\ AllowsUnsupportedFallback(result.err) => IsMounted(dest) /\ Unwritable(a)
           \/ /\ ~AllowsUnsupportedFallback(result.err)
              /\ src = dest \/ Holds(View(result.world, dest), text)
<1>1. DOMAIN ops = 1 .. 2 /\ Len(ops) = 2 /\ ops[1] = a /\ ops[2] = b /\ \A i \in 1 .. 2 : i = 1 \/ i = 2
  OBVIOUS
<1>2. /\ src \in Paths /\ dest \in Paths /\ src \in Range(c.paths) /\ dest \in Range(c.paths)
      /\ ~IsSyntheticPrefix(src) /\ ~IsSyntheticPrefix(dest)
  <2>1. Len(c.paths) = 2
    BY DEF WellFormed
  <2>2. 1 \in 1 .. Len(c.paths) /\ 2 \in 1 .. Len(c.paths)
    BY <2>1
  <2>3. src \in Range(c.paths) /\ dest \in Range(c.paths) /\ Range(c.paths) \subseteq Paths
    BY <2>2, PathsOf
  <2> QED
    BY <2>3
<1>3. PICK m : m = MountOf(dest)
  OBVIOUS
<1>4. ASSUME BatchError(ops) # "denied", IsMounted(dest)
      PROVE  /\ m \in Mounts /\ IsMounted(src) /\ MountOf(src) = m
             /\ ~Exceeds(2, m.maxCount) /\ src # <<>>
             /\ BatchError(ops) = ValidateMountedMutationBatch(m, ops)
             /\ BatchError(<<a>>) = ValidateMountedMutationBatch(m, <<a>>)
  <2>1. m \in Mounts
    BY <1>2, <1>3, <1>4, MountOfIs
  <2>2. Match(src) = Match(dest)
    <3>1. OneMount(c)
      BY <1>4, BatchOneMount
    <3> QED
      BY <1>2, <3>1 DEF OneMount
  <2>3. MountOf(src) = m
    BY <1>3, <2>2 DEF MountOf
  <2>4. IsMounted(src)
    <3>1. Match(dest) = {m}
      BY <1>2, <1>3, <1>4, MountOfIs
    <3> QED
      BY <2>2, <3>1, NoMountOf
  <2>5. ~Exceeds(2, m.maxCount)
    BY <1>2, <1>3, <1>4 DEF MovesInHalves
  <2>6. src # <<>>
    BY <2>4, RootUnmounted
  <2>7. BatchError(ops) = ValidateMountedMutationBatch(m, ops)
    <3>1. PICK n \in Nat \ {0} : n = 2 /\ DOMAIN ops = 1 .. n
      BY <1>1
    <3>2. \A i \in 1 .. n : ~IsSyntheticPrefix(ops[i].path) /\ IsMounted(ops[i].path) /\ MountOf(ops[i].path) = m
      BY <1>1, <1>2, <1>3, <1>4, <2>3, <2>4, <3>1
    <3> QED
      BY <3>1, <3>2, BatchChecked
  <2>8. BatchError(<<a>>) = ValidateMountedMutationBatch(m, <<a>>)
    <3>1. PICK one : one = <<a>>
      OBVIOUS
    <3>2. PICK n \in Nat \ {0} : n = 1 /\ DOMAIN one = 1 .. n
      BY <3>1
    <3>3. \A i \in 1 .. n : one[i] = a
      BY <3>1, <3>2
    <3>4. \A i \in 1 .. n : ~IsSyntheticPrefix(one[i].path) /\ IsMounted(one[i].path) /\ MountOf(one[i].path) = m
      BY <1>2, <1>3, <1>4, <3>3
    <3>5. BatchError(one) = ValidateMountedMutationBatch(m, one)
      BY <3>2, <3>4, BatchChecked
    <3> QED
      BY <3>1, <3>5
  <2> QED
    BY <2>1, <2>3, <2>4, <2>5, <2>6, <2>7, <2>8
<1>5. CASE ~Ok(BatchError(ops))
  <2>1. result = Failed(w, BatchError(ops))
    BY <1>5 DEF MountBatch, UnlessRefused
  <2>2. result.world = w /\ result.err = BatchError(ops)
    BY <2>1 DEF Failed
  <2>3. ASSUME AllowsUnsupportedFallback(BatchError(ops))
        PROVE  IsMounted(dest) /\ Unwritable(a)
    <3>1. BatchError(ops) # "denied"
      BY <2>3 DEF AllowsUnsupportedFallback
    <3>2. IsMounted(dest)
      <4>1. \A i \in DOMAIN ops : ~IsSyntheticPrefix(ops[i].path)
        BY <1>1, <1>2
      <4>2. \A i \in DOMAIN ops : IsMounted(ops[i].path)
        BY <1>5, <3>1, <4>1, BatchSides
      <4> QED
        BY <1>1, <4>2
    <3>3. ~Ok(BatchError(<<a>>))
      BY <1>4, <1>5, <3>1, <3>2, MoveChecked
    <3> QED
      BY <3>2, <3>3 DEF Unwritable
  <2> QED
    BY <2>2, <2>3
<1>6. CASE Ok(BatchError(ops))
  <2>0. BatchError(ops) # "denied"
    BY <1>6 DEF Ok
  <2>1. IsMounted(dest) /\ m \in Mounts /\ ~Exceeds(2, m.maxCount) /\ src # <<>>
    BY <1>4, <1>6, <2>0
  <2>2. PICK given \in ApplyMountMutations(w, m, ops) : result = ReorderMutationRecords(ops, given)
    BY <1>1, <1>3, <1>6 DEF MountBatch, UnlessRefused
  <2>3. Answered(given)
    BY <2>1, MutationKeeps
  <2>4. result.world = given.world /\ result.err \in {given.err, "plain"}
    BY <2>2, <2>3, ReorderedIs
  <2>5. CASE ~Ok(MountMutationError(m, ops))
    <3>1. given.world = w
      BY <2>2, <2>5 DEF ApplyMountMutations, UnlessRefused, Failed
    <3>2. ~Ok(MountMutationError(m, <<a>>))
      BY <2>1, <2>5, MoveAfforded
    <3> QED
      BY <1>3, <2>1, <2>4, <3>1, <3>2 DEF Unwritable
  <2>6. CASE Ok(MountMutationError(m, ops))
    <3>1. PICK applied : applied = Applied(Tree(w, m), ops)
      OBVIOUS
    <3>2. given \in MutatorResults(w, m, ops, applied)
      BY <2>2, <2>6, <3>1 DEF ApplyMountMutations, UnlessRefused, MutatorApply
    <3>3. applied.err \in Undenied
      <4>1. Len(ops) \in Nat /\ \A i \in 1 .. Len(ops) : ops[i].kind \in Kinds
        BY <1>1 DEF OpsOf, OpOf
      <4> QED
        BY <3>1, <4>1, AppliedKeeps
    <3>4. \/ given.world = w /\ given.err \in Undenied \cup {"worded"}
          \/ Ok(applied.err) /\ given.err = "ok" /\ given.world = [w EXCEPT !.data[m.point] = applied.host]
      BY <3>2, <3>3 DEF MutatorResults, Worded, Failed, Undenied
    <3>5. given.err \in Undenied \cup {"worded"}
      BY <3>4 DEF Undenied
    <3>6. ~AllowsUnsupportedFallback(result.err)
      BY <2>4, <3>5 DEF Undenied, AllowsUnsupportedFallback
    <3>7. CASE given.world = w
      BY <2>4, <3>6, <3>7
    <3>8. CASE Ok(applied.err) /\ given.world = [w EXCEPT !.data[m.point] = applied.host] /\ src # dest
      <4>1. Linkless(Tree(w, m))
        BY <2>1 DEF MountsLinkless, Tree
      <4>2. Holds(Node(applied.host, dest), text)
        BY <1>2, <2>1, <3>1, <3>8, <4>1, MoveApplied
      <4>3. given.world.data[m.point] = applied.host
        BY <2>1, <3>8 DEF Shaped
      <4>4. View(given.world, dest) = Node(applied.host, dest)
        BY <1>3, <2>1, <4>3 DEF View, Tree
      <4> QED
        BY <2>4, <3>6, <4>2, <4>4
    <3> QED
      BY <3>4, <3>6, <3>7, <3>8
  <2> QED
    BY <2>5, <2>6
<1> QED
  BY <1>5, <1>6

\* A write that the mount of its path refuses changes nothing and fails.
LEMMA UnwritableFails ==
    ASSUME NEW w, NEW op, op.path \in Paths, IsMounted(op.path), ~IsSyntheticPrefix(op.path),
           Unwritable(op), NEW fault, NEW result \in Mutate(w, op, fault)
    PROVE  result.world = w /\ ~Ok(result.err)
<1>0. PICK one : one = <<op>>
  OBVIOUS
<1>1. one = <<op>> /\ one[1] = op
  BY <1>0
<1>2. result \in MountBatch(w, one)
  BY <1>1 DEF Mutate
<1>3. CASE ~Ok(BatchError(one))
  <2>1. result = Failed(w, BatchError(one))
    BY <1>2, <1>3 DEF MountBatch, UnlessRefused
  <2> QED
    BY <1>3, <2>1 DEF Failed
<1>4. CASE Ok(BatchError(one))
  <2>1. PICK m : m = MountOf(op.path)
    OBVIOUS
  <2>2. ~Ok(MountMutationError(m, one))
    BY <1>1, <1>4, <2>1 DEF Unwritable
  <2>3. PICK given \in ApplyMountMutations(w, m, one) : result = ReorderMutationRecords(one, given)
    BY <1>1, <1>2, <1>4, <2>1 DEF MountBatch, UnlessRefused
  <2>4. given = Failed(w, MountMutationError(m, one))
    BY <2>2, <2>3 DEF ApplyMountMutations, UnlessRefused
  <2>5. result = given
    BY <2>2, <2>3, <2>4 DEF ReorderMutationRecords, Failed
  <2> QED
    BY <2>2, <2>4, <2>5 DEF Failed
<1> QED
  BY <1>3, <1>4

-----------------------------------------------------------------------------
(***************************************************************************)
(* The inductive invariant of a move.                                      *)
(***************************************************************************)

\* An execution that has been alone is so still.
Alone == \A d, e \in Execs : (d # e /\ execs[e].code # "idle" /\ execs[e].alone) => ~Running(d)

Src(x) == x.cmd.paths[1]
Dest(x) == x.cmd.paths[2]

\* A move that has read its source, undisturbed and not split by its mount.
Moving(x) == x.code # "idle" /\ x.alone /\ x.cmd.name = "mv" /\ x.at > 4 /\ ~MovesInHalves(x.cmd)

AtDest(w, x) == Holds(View(w, Dest(x)), x.text)
StillThere(w, x) == OnePlace(w, Src(x), Dest(x)) \/ AtSource(w, Src(x), x.text)

\* The file system has written the target, and the source is not above it.
Copied(w, x) ==
    /\ ~IsMounted(Src(x)) /\ ~IsMounted(Dest(x)) /\ AtDest(w, x)
    /\ ~Below(HostSpot(w, Src(x)), HostSpot(w, Dest(x)))

\* Before the write the text is at the source.  The calls that a refused batch gives
\* way to are those of the file system, or the first of them will be refused too.
\* Before the removal it is at the target as well.
MoveKept(w, x) ==
    Moving(x) =>
      /\ x.code = "run" =>
           /\ x.at = 5 => StillThere(w, x) /\ (x.sub = 2 => Copied(w, x))
           /\ x.at = 6 => /\ StillThere(w, x)
                          /\ \/ IsMounted(Dest(x)) /\ Unwritable(Op("write", Dest(x), x.text))
                             \/ ~IsMounted(Dest(x)) /\ ~IsMounted(Src(x))
           /\ x.at = 7 => Copied(w, x)
      /\ x.code # "run" => StillThere(w, x) \/ AtDest(w, x)

MoveInv ==
    FilesInv /\ Alone /\ MountsLinkless(world) /\ \A e \in Execs : MoveKept(world, execs[e])

\* What it says of an execution is said of these fields of its record.
Twins(x, y) ==
    /\ y.cmd = x.cmd /\ y.at = x.at /\ y.sub = x.sub /\ y.text = x.text /\ y.code = x.code
    /\ y.alone = x.alone

LEMMA TwinsKept ==
    ASSUME NEW w, NEW x, NEW y, Twins(x, y), MoveKept(w, x)
    PROVE  MoveKept(w, y)
<1>1. Src(y) = Src(x) /\ Dest(y) = Dest(x) /\ y.text = x.text
  BY DEF Twins, Src, Dest
<1>2. /\ AtDest(w, y) <=> AtDest(w, x)
      /\ StillThere(w, y) <=> StillThere(w, x)
      /\ Copied(w, y) <=> Copied(w, x)
  BY <1>1 DEF AtDest, StillThere, Copied
<1>3. Moving(y) <=> Moving(x)
  BY DEF Twins, Moving
<1> QED
  BY <1>1, <1>2, <1>3 DEF MoveKept, Twins

\* Nor does it tell worlds apart in which the same is seen.
LEMMA SeenKept ==
    ASSUME NEW w, NEW v, v.host = w.host, v.data = w.data, v.adapter = w.adapter, NEW x
    PROVE  /\ MoveKept(w, x) => MoveKept(v, x)
           /\ StillThere(w, x) => StillThere(v, x)
           /\ AtDest(w, x) => AtDest(v, x)
           /\ Copied(w, x) => Copied(v, x)
<1>1. /\ AtDest(v, x) <=> AtDest(w, x)
      /\ StillThere(v, x) <=> StillThere(w, x)
      /\ Copied(v, x) <=> Copied(w, x)
  BY SeenAlike DEF AtDest, StillThere, Copied
<1> QED
  BY <1>1 DEF MoveKept

\* The seven calls of a move.
LEMMA MoveCalls ==
    ASSUME NEW x, x.cmd.name = "mv", x.at \in DOMAIN ProgramOf(x),
           NEW call, call = CallAt(x), NEW a, a = Op("write", Dest(x), x.text), NEW b, b = Op("rm", Src(x), <<>>)
    PROVE  /\ x.at \in 1 .. 7
           /\ x.at = 1 => call.call = "require"
           /\ x.at = 2 => call.call = "allowed"
           /\ x.at = 3 => call.call = "preflight"
           /\ x.at = 4 => call.call = "read" /\ call.path = Src(x)
           /\ x.at = 5 => call.call = "batch" /\ call.ops = <<a, b>>
           /\ x.at = 6 => call.call = "call" /\ call.op = a
           /\ x.at = 7 => call.call = "call" /\ call.op = b
<1> DEFINE c == x.cmd
           checks == <<<<"transfer_source", Src(x)>>, <<"remove", Src(x)>>, <<"write", Dest(x)>>>>
           P == <<Require(c.paths), Allowed(c.paths), Preflight(checks), Read(Src(x)),
                  Batch(<<a, b>>, TRUE), Call(a), Call(b)>>
<1>1. ProgramOf(x) = RunMv(c, x.text)
  BY DEF ProgramOf, Program
<1>2. PICK ops : ops = <<a, b>>
  OBVIOUS
<1>3. ops[1] = a /\ ops[2] = b
  BY <1>2
<1>4. RunMv(c, x.text) = P
  BY DEF RunMv, Src, Dest
<1>5. ProgramOf(x) = P
  BY <1>1, <1>4
<1>6. DOMAIN P = 1 .. 7
  OBVIOUS
<1>7. x.at \in 1 .. 7 /\ call = P[x.at]
  BY <1>5, <1>6 DEF CallAt
<1> HIDE DEF P
<1>8. /\ P[1] = Require(c.paths) /\ P[2] = Allowed(c.paths) /\ P[3] = Preflight(checks)
      /\ P[4] = Read(Src(x)) /\ P[5] = Batch(<<a, b>>, TRUE) /\ P[6] = Call(a) /\ P[7] = Call(b)
  BY DEF P
<1> QED
  BY <1>7, <1>8 DEF Require, Allowed, Preflight, Read, Batch, Call

\* Where going on leads, and an exit.
LEMMA SkipLeaves ==
    ASSUME NEW z, DOMAIN z = Fields, z.code = "run", NEW n, NEW y, y = Skip(z, n)
    PROVE  /\ DOMAIN y = Fields /\ y.cmd = z.cmd /\ y.text = z.text /\ y.alone = z.alone
           /\ \/ y.at = z.at /\ y.code = "ok"
              \/ y.at = z.at + n /\ y.sub = 1 /\ y.code = "run"
<1>1. y = [z EXCEPT !.code = "ok"] \/ y = [z EXCEPT !.at = z.at + n, !.sub = 1]
  BY DEF Skip
<1>2. CASE y = [z EXCEPT !.code = "ok"]
  BY <1>2 DEF Fields
<1>3. CASE y = [z EXCEPT !.at = z.at + n, !.sub = 1]
  BY <1>3 DEF Fields
<1> QED
  BY <1>1, <1>2, <1>3

LEMMA ExitLeaves ==
    ASSUME NEW z, DOMAIN z = Fields, NEW code, NEW y, y = Exit(z, code)
    PROVE  /\ DOMAIN y = Fields /\ y.cmd = z.cmd /\ y.text = z.text /\ y.alone = z.alone
           /\ y.at = z.at /\ y.code = code
<1>1. y = [z EXCEPT !.code = code]
  BY DEF Exit
<1> QED
  BY <1>1 DEF Fields

\* An effect changes nothing of a record that a move looks at.
LEMMA EffectTwins ==
    ASSUME NEW e \in Execs, DOMAIN execs = Execs, NEW z, DOMAIN z = Fields, NEW ops, NEW made,
           NEW result, Effect(e, z, ops, made, result), NEW y, y = execs'[e]
    PROVE  Twins(z, y) /\ world' = result.world
<1>1. PICK S, H : /\ S = z.changed \cup ChangedBy(result.world, ops)
                  /\ H = z.hidden \cup HiddenBy(made, result.err)
  OBVIOUS
<1>2. y = [z EXCEPT !.changed = S, !.hidden = H]
  BY <1>1 DEF Effect, Step
<1> QED
  BY <1>2 DEF Fields, Twins, Effect

\* The calls that only read leave a move undisturbed, and where it ends, where it was.
LEMMA ReadsLeave ==
    ASSUME NEW e \in Execs, DOMAIN execs = Execs, Placed(execs[e], Commands[e]), Running(e),
           NEW x, x = execs[e], NEW y, y = execs'[e],
           \/ DoRequire(e) \/ DoAllowed(e) \/ DoPreflight(e) \/ DoRead(e) \/ DoProbe(e) \/ DoLook(e)
           \/ DoUnique(e) \/ DoFits(e) \/ DoGroup(e) \/ DoRefresh(e)
    PROVE  y.alone = x.alone /\ (y.code # "run" => y.at = x.at)
<1> DEFINE Near(z) == DOMAIN z = Fields /\ z.code = "run" /\ z.alone = x.alone /\ z.at = x.at
           Goal == y.alone = x.alone /\ (y.code # "run" => y.at = x.at)
<1>1. DOMAIN x = Fields /\ x.code = "run"
  BY DEF Placed, Running
<1>2. Near(x)
  BY <1>1
<1>3. ASSUME NEW z, Near(z), NEW r, Reads(e, r), (\E n : r = Skip(z, n)) \/ \E code : r = Exit(z, code)
      PROVE  Goal
  <2>1. y = r
    BY <1>3 DEF Reads, Step
  <2>2. CASE \E n : r = Skip(z, n)
    BY <1>3, <2>1, <2>2, SkipLeaves
  <2>3. CASE \E code : r = Exit(z, code)
    BY <1>3, <2>1, <2>3, ExitLeaves
  <2> QED
    BY <1>3, <2>2, <2>3
<1>4. ASSUME NEW u, NEW z, z = [x EXCEPT !.trace = u]
      PROVE  Near(z)
  BY <1>1, <1>4 DEF Fields
<1>g. SUFFICES Goal
  OBVIOUS
<1> HIDE DEF Goal, Near
<1>5. ASSUME NEW z, Near(z), NEW r, Reads(e, r),
             \/ r = Advance(z) \/ r = Skip(z, 2) \/ \E code : r = Exit(z, code)
      PROVE  Goal
  <2>1. r = Advance(z) => \E n : r = Skip(z, n)
    BY DEF Advance
  <2>2. (\E n : r = Skip(z, n)) \/ \E code : r = Exit(z, code)
    BY <1>5, <2>1
  <2> QED
    BY <1>3, <1>5, <2>2
<1>10. CASE DoRequire(e)
  <2>1. PICK r : Reads(e, r) /\ (r = Exit(x, "usage") \/ r = Advance(x))
    BY <1>10 DEF DoRequire
  <2> QED
    BY <1>2, <1>5, <2>1
<1>11. CASE DoAllowed(e)
  <2>1. PICK u, r : Reads(e, r) /\ (r = Exit([x EXCEPT !.trace = u], "unsupported") \/ r = Advance(x))
    BY <1>11 DEF DoAllowed
  <2>2. PICK z : z = [x EXCEPT !.trace = u]
    OBVIOUS
  <2> QED
    BY <1>2, <1>4, <1>5, <2>1, <2>2
<1>12. CASE DoPreflight(e)
  <2>1. PICK checks : checks = CallOf(e).checks
    OBVIOUS
  <2>2. PICK errors : errors = Map(checks, LAMBDA check : CheckPathOp(world, check[1], check[2]))
    OBVIOUS
  <2>3. PICK u : u = TraceChecks(x.trace, Map(checks, LAMBDA check : check[2]), errors)
    OBVIOUS
  <2>4. PICK z : z = [x EXCEPT !.trace = u]
    OBVIOUS
  <2>5. PICK r : Reads(e, r) /\ r = AfterError(z, FirstError(errors))
    BY <1>12, <2>1, <2>2, <2>3, <2>4, Zenon DEF DoPreflight
  <2>6. r = Advance(z) \/ \E code : r = Exit(z, code)
    BY <2>5 DEF AfterError
  <2> QED
    BY <1>4, <1>5, <2>4, <2>5, <2>6
<1>13. CASE DoRead(e)
  <2>1. PICK err, text, u : Reads(e, IF Ok(err) THEN Advance([x EXCEPT !.text = text, !.trace = u])
                                     ELSE Exit([x EXCEPT !.text = text, !.trace = u],
                                               IF x.cmd.name \in {"edit", "count"} THEN Code(err)
                                               ELSE "general"))
    BY <1>13 DEF DoRead
  <2>2. PICK z : z = [x EXCEPT !.text = text, !.trace = u]
    OBVIOUS
  <2>3. Near(z)
    BY <1>1, <2>2 DEF Near, Fields
  <2>4. PICK code : code = IF x.cmd.name \in {"edit", "count"} THEN Code(err) ELSE "general"
    OBVIOUS
  <2>5. PICK r : Reads(e, r) /\ (r = Advance(z) \/ r = Exit(z, code))
    BY <2>1, <2>2, <2>4
  <2> QED
    BY <1>5, <2>3, <2>5
<1>14. CASE DoProbe(e)
  <2>1. PICK err, u : Reads(e, CASE Ok(err) -> Skip([x EXCEPT !.trace = u], 2)
                                 [] IsPathMissing(err) -> Advance([x EXCEPT !.trace = u])
                                 [] OTHER -> Exit([x EXCEPT !.trace = u], "general"))
    BY <1>14 DEF DoProbe
  <2>2. PICK z : z = [x EXCEPT !.trace = u]
    OBVIOUS
  <2>3. PICK r : /\ Reads(e, r)
                 /\ r = CASE Ok(err) -> Skip(z, 2)
                          [] IsPathMissing(err) -> Advance(z)
                          [] OTHER -> Exit(z, "general")
    BY <2>1, <2>2
  <2>4. r = Skip(z, 2) \/ r = Advance(z) \/ r = Exit(z, "general")
    BY <2>3
  <2> QED
    BY <1>4, <1>5, <2>2, <2>3, <2>4
<1>15. CASE DoLook(e)
  <2>1. PICK u : Reads(e, Advance([x EXCEPT !.trace = u]))
    BY <1>15, Zenon DEF DoLook
  <2>2. PICK z : z = [x EXCEPT !.trace = u]
    OBVIOUS
  <2> QED
    BY <1>4, <1>5, <2>1, <2>2
<1>16. CASE DoUnique(e) \/ DoFits(e) \/ DoGroup(e)
  <2>1. PICK r : Reads(e, r) /\ (r = Exit(x, "general") \/ r = Advance(x))
    BY <1>16 DEF DoUnique, DoFits, DoGroup
  <2> QED
    BY <1>2, <1>5, <2>1
<1>17. CASE DoRefresh(e)
  <2>1. PICK targets, narrow, m : /\ targets = CallOf(e).targets /\ narrow = CallOf(e).narrow
                                  /\ m = MountOf(CHOOSE p \in targets : TRUE)
    OBVIOUS
  <2>2. CASE ~Ok(RefreshMountRefused(m, targets, narrow))
    <3>1. Reads(e, Exit(x, Code(RefreshMountRefused(m, targets, narrow))))
      BY <1>17, <2>1, <2>2 DEF DoRefresh
    <3> QED
      BY <1>2, <1>5, <3>1
  <2>3. CASE /\ Ok(RefreshMountRefused(m, targets, narrow))
             /\ \E err : Reads(e, Exit(x, Code(err)))
    BY <1>2, <1>5, <2>3
  <2>4. CASE /\ Ok(RefreshMountRefused(m, targets, narrow))
             /\ ~\E err : Reads(e, Exit(x, Code(err)))
    <3>1. PICK took, err : Reads(e, AfterError([x EXCEPT !.refreshed = x.refreshed \cup took], err))
      BY <1>17, <2>1, <2>4 DEF DoRefresh
    <3>2. PICK z : z = [x EXCEPT !.refreshed = x.refreshed \cup took]
      OBVIOUS
    <3>3. Near(z)
      BY <1>1, <3>2 DEF Near, Fields
    <3>4. PICK r : Reads(e, r) /\ (r = Advance(z) \/ r = Exit(z, Code(err)))
      BY <3>1, <3>2 DEF AfterError
    <3> QED
      BY <1>5, <3>3, <3>4
  <2> QED
    BY <2>2, <2>3, <2>4
<1> QED
  BY <1>10, <1>11, <1>12, <1>13, <1>14, <1>15, <1>16, <1>17

\* What a read answers is at its path.
LEMMA ReadGives ==
    ASSUME NEW w, MountsLinkless(w), NEW p \in Paths, NEW read, read = ReadRawContent(w, p), Ok(read.err)
    PROVE  AtSource(w, p, read.text)
<1>1. CASE ~IsActive(w, p)
  <2>1. PICK h, place, err : /\ h = w.host /\ place = HostPlace(w, p)
                             /\ err = IF OnAgent(w) THEN ZoneResolve(h, p) ELSE LocalResolve(h, p)
    OBVIOUS
  <2>2. read = FsRead(w, p)
    BY <1>1 DEF ReadRawContent
  <2>3. read = ReadIf(err, h, place)
    <3>1. CASE OnAgent(w)
      <4>1. read = ReadIf(err, h, HostOf(p))
        BY <2>1, <2>2, <3>1 DEF FsRead, ZoneRead
      <4>2. Ok(err)
        BY <4>1 DEF ReadIf
      <4>3. MatchZone(p) # {}
        BY <2>1, <3>1, <4>2 DEF ZoneResolve, Ok
      <4>4. place = HostOf(p)
        BY <2>1, <3>1, <4>3 DEF HostPlace
      <4> QED
        BY <4>1, <4>4
    <3>2. CASE ~OnAgent(w)
      BY <2>1, <2>2, <3>2 DEF FsRead, LocalRead, HostPlace
    <3> QED
      BY <3>1, <3>2
  <2>4. Ok(err)
    BY <2>3 DEF ReadIf
  <2>5. PICK r : r = Resolve(h, place)
    OBVIOUS
  <2>6. read = ReadNode(h, r)
    BY <2>3, <2>4, <2>5 DEF ReadIf, ReadFile
  <2>7. Kind(h, r) = "file"
    BY <2>6 DEF ReadNode, IsKind, Ok
  <2>8. read.text = h[r].text
    BY <2>6, <2>7 DEF ReadNode
  <2>9. r \in DOMAIN h /\ h[r].kind = "file"
    BY <2>7 DEF Kind, Exists
  <2>10. Holds(Node(h, place), read.text)
    BY <2>5, <2>8, <2>9, HoldsAt
  <2> QED
    BY <2>1, <2>10 DEF AtSource, HostNode
<1>2. CASE IsActive(w, p)
  <2>1. PICK m, tree : m = MountOf(p) /\ tree = Tree(w, m)
    OBVIOUS
  <2>2. IsMounted(p)
    BY <1>2, NoMountOf DEF IsActive
  <2>3. m \in Mounts
    BY <2>1, <2>2, MountOfIs
  <2>4. MountKind(w, p) = "file" /\ read.text = tree[p].text
    BY <1>2, <2>1 DEF ReadRawContent, Ok
  <2>5. p \in DOMAIN tree /\ tree[p].kind = "file"
    BY <2>1, <2>4 DEF MountKind, Kind, Exists
  <2>6. Resolve(tree, p) = p
    <3>1. Linkless(tree)
      BY <2>1, <2>3 DEF MountsLinkless, Tree
    <3> QED
      BY <3>1, LinklessClean
  <2>7. Holds(Node(tree, p), read.text)
    BY <2>4, <2>5, <2>6, HoldsAt
  <2> QED
    BY <2>1, <2>2, <2>7 DEF AtSource, View
<1> QED
  BY <1>1, <1>2

\* The paths of a move.
LEMMA MovePaths ==
    ASSUME NEW c, WellFormed(c), c.name = "mv", NEW src, src = c.paths[1], NEW dest, dest = c.paths[2]
    PROVE  src \in Paths /\ dest \in Paths /\ src \in Range(c.paths) /\ dest \in Range(c.paths)
<1>1. Len(c.paths) = 2
  BY DEF WellFormed
<1>2. 1 \in 1 .. Len(c.paths) /\ 2 \in 1 .. Len(c.paths)
  BY <1>1
<1> QED
  BY <1>2, PathsOf

\* A read leaves the text it has read where it is.
LEMMA ReadsKept ==
    ASSUME FilesInv, MountsLinkless(world), NEW e \in Execs, OnlyMoves(e),
           \/ DoRequire(e) \/ DoAllowed(e) \/ DoPreflight(e) \/ DoRead(e) \/ DoProbe(e) \/ DoLook(e)
           \/ DoUnique(e) \/ DoFits(e) \/ DoGroup(e) \/ DoRefresh(e)
    PROVE  execs'[e].alone = execs[e].alone /\ MoveKept(world, execs'[e])
<1>1. PICK x, y : x = execs[e] /\ y = execs'[e]
  OBVIOUS
<1>2. /\ Placed(x, Commands[e]) /\ DOMAIN execs = Execs /\ Running(e) /\ x.code = "run"
      /\ x.at \in DOMAIN ProgramOf(x)
  BY <1>1 DEF FilesInv, ExecInv, OnlyMoves, Running, Placed
<1>3. WellFormed(x.cmd) /\ DOMAIN x = Fields
  BY <1>2, AtCall, CommandsAssumption
<1>4. y.alone = x.alone /\ (y.code # "run" => y.at = x.at)
  BY <1>1, <1>2, ReadsLeave
<1>5. Moves(x, y)
  BY <1>1 DEF OnlyMoves
<1>6. PICK call : call = CallAt(x) /\ call = CallOf(e)
  BY <1>1 DEF CallAt, CallOf
<1>7. ASSUME Moving(y)
      PROVE  MoveKept(world, y)
  <2>1. y.cmd = x.cmd /\ x.cmd.name = "mv" /\ y.at > 4
    BY <1>5, <1>7 DEF Moves, Moving
  <2>2. /\ x.at \in 1 .. 7
        /\ x.at = 4 => call.path = Src(x)
        /\ x.at = 4 <=> call.call = "read"
        /\ x.at < 4 <=> call.call \in {"require", "allowed", "preflight"}
        /\ call.call \in {"require", "allowed", "preflight", "read", "batch", "call"}
    <3>1. PICK a, b : a = Op("write", Dest(x), x.text) /\ b = Op("rm", Src(x), <<>>)
      OBVIOUS
    <3>2. /\ x.at \in 1 .. 7
          /\ x.at = 1 => call.call = "require"
          /\ x.at = 2 => call.call = "allowed"
          /\ x.at = 3 => call.call = "preflight"
          /\ x.at = 4 => call.call = "read" /\ call.path = Src(x)
          /\ x.at = 5 => call.call = "batch"
          /\ x.at = 6 => call.call = "call"
          /\ x.at = 7 => call.call = "call"
      BY <1>2, <1>6, <2>1, <3>1, MoveCalls
    <3> QED
      BY <3>2
  <2>3. CASE ~DoRead(e)
    <3>1. call.call \in {"require", "allowed", "preflight", "probe", "look", "unique", "fits", "group", "refresh"}
      BY <1>6, <2>3 DEF DoRequire, DoAllowed, DoPreflight, DoProbe, DoLook, DoUnique, DoFits, DoGroup, DoRefresh, IsCall
    <3>2. x.at < 4
      BY <2>2, <3>1
    <3>3. y.code = "run" => y.at = x.at + 1
      BY <1>5, <1>6, <2>2, <3>1 DEF Moves
    <3> QED
      BY <1>4, <2>1, <2>2, <3>2, <3>3
  <2>4. CASE DoRead(e)
    <3>1. x.at = 4 /\ call.path = Src(x)
      BY <1>6, <2>2, <2>4 DEF DoRead, IsCall
    <3>2. y.code = "run"
      BY <1>4, <2>1, <3>1
    <3>3. PICK p, read : p = call.path /\ read = ReadRawContent(world, p)
      OBVIOUS
    <3>4. PICK u, code : /\ u = TraceRead(x.trace, p, read.err)
                         /\ code = IF x.cmd.name \in {"edit", "count"} THEN Code(read.err) ELSE "general"
      OBVIOUS
    <3>5. PICK z : z = [x EXCEPT !.text = read.text, !.trace = u]
      OBVIOUS
    <3>6. y = IF Ok(read.err) THEN Advance(z) ELSE Exit(z, code)
      <4>1. Reads(e, IF Ok(read.err) THEN Advance(z) ELSE Exit(z, code))
        BY <1>1, <1>6, <2>4, <3>3, <3>4, <3>5 DEF DoRead
      <4> QED
        BY <1>1, <1>2, <4>1 DEF Reads, Step
    <3>7. DOMAIN z = Fields /\ z.code = "run" /\ z.cmd = x.cmd /\ z.text = read.text /\ z.at = 4
      BY <1>2, <1>3, <3>1, <3>5 DEF Fields
    <3>8. Ok(read.err) /\ y = Advance(z)
      <4>1. code \in {"unsupported", "general"}
        BY <3>4 DEF Code
      <4>2. y = Exit(z, code) => y.code = code
        BY <3>7, ExitLeaves
      <4> QED
        BY <3>2, <3>6, <4>1, <4>2
    <3>9. y.at = 5 /\ y.sub = 1 /\ y.text = read.text
      <4>1. PICK n : n = 1 /\ y = Skip(z, n)
        BY <3>8 DEF Advance
      <4>2. /\ y.text = z.text
            /\ \/ y.at = z.at /\ y.code = "ok"
               \/ y.at = z.at + n /\ y.sub = 1 /\ y.code = "run"
        BY <3>7, <4>1, SkipLeaves
      <4> QED
        BY <3>2, <3>7, <4>1, <4>2
    <3>10. AtSource(world, Src(y), y.text)
      <4>1. Src(x) \in Paths /\ Src(y) = Src(x)
        BY <1>3, <2>1, MovePaths DEF Src
      <4> QED
        BY <3>1, <3>3, <3>8, <3>9, <4>1, ReadGives
    <3> QED
      BY <3>2, <3>9, <3>10 DEF MoveKept, StillThere
  <2> QED
    BY <2>3, <2>4
<1> QED
  BY <1>1, <1>4, <1>7 DEF MoveKept

\* A batch ends the move where it is, or gives way to the calls that follow it.
LEMMA BatchEnds ==
    ASSUME NEW x, DOMAIN x = Fields, x.code = "run", NEW batch, NEW result, NEW y, y = AfterBatch(x, batch, result)
    PROVE  /\ DOMAIN y = Fields /\ y.cmd = x.cmd /\ y.text = x.text /\ y.alone = x.alone
           /\ \/ y.at = x.at /\ y.code # "run" /\ y.code # "idle"
              \/ y.at = x.at + 1 /\ y.code = "run" /\ AllowsUnsupportedFallback(result.err)
<1>1. PICK u : u = TraceBatch(x.trace, batch.ops, result)
  OBVIOUS
<1>2. PICK z : z = [x EXCEPT !.trace = u]
  OBVIOUS
<1>3. /\ DOMAIN z = Fields /\ z.code = "run" /\ z.cmd = x.cmd /\ z.text = x.text /\ z.alone = x.alone
      /\ z.at = x.at
  BY <1>2 DEF Fields
<1>4. \/ y = Exit(z, "ok") \/ y = Exit(z, "general")
      \/ y = Advance(z) /\ AllowsUnsupportedFallback(result.err)
  <2>1. PICK good \in BOOLEAN :
          good = (~batch.strict \/ EnsureSuccessfulTransferRecords(result.records))
    OBVIOUS
  <2>2. y = CASE Ok(result.err) -> Exit(z, IF good THEN "ok" ELSE "general")
              [] AllowsUnsupportedFallback(result.err) -> Advance(z)
              [] OTHER -> Exit(z, "general")
    BY <1>1, <1>2, <2>1 DEF AfterBatch
  <2> QED
    BY <2>1, <2>2 DEF Ok, AllowsUnsupportedFallback
<1>5. CASE y = Exit(z, "ok") \/ y = Exit(z, "general")
  BY <1>3, <1>5, ExitLeaves
<1>6. CASE y = Advance(z) /\ AllowsUnsupportedFallback(result.err)
  <2>1. PICK n : n = 1 /\ y = Skip(z, n)
    BY <1>6 DEF Advance
  <2>2. /\ DOMAIN y = Fields /\ y.cmd = z.cmd /\ y.text = z.text /\ y.alone = z.alone
        /\ \/ y.at = z.at /\ y.code = "ok"
           \/ y.at = z.at + n /\ y.sub = 1 /\ y.code = "run"
    BY <1>3, <2>1, SkipLeaves
  <2> QED
    BY <1>3, <1>6, <2>1, <2>2
<1> QED
  BY <1>4, <1>5, <1>6

\* What a step that changes something knows of a move.
LEMMA MoveAt ==
    ASSUME FilesInv, NEW e \in Execs, Running(e), NEW x, x = execs[e]
    PROVE  /\ DOMAIN execs = Execs /\ Shaped(world) /\ DOMAIN x = Fields /\ x.code = "run"
           /\ Placed(x, Commands[e]) /\ WellFormed(x.cmd)
           /\ CallOf(e) = CallAt(x) /\ Fitting(x.cmd, CallAt(x), x.at) /\ x.at \in Nat \ {0}
           /\ x.at \in DOMAIN ProgramOf(x)
           /\ CallAt(x).call = "batch" => x.sub \in DOMAIN CallAt(x).ops
           /\ x.cmd.name \in Batched /\ x.at > 3 => \A p \in Range(x.cmd.paths) : ~IsSyntheticPrefix(p)
<1>1. ExecInv(x, Commands[e], world.allowWrite) /\ x.code = "run" /\ DOMAIN execs = Execs /\ Shaped(world)
  BY DEF FilesInv, Running
<1>2. Placed(x, Commands[e])
  BY <1>1 DEF ExecInv
<1>3. /\ WellFormed(x.cmd) /\ x.at \in Nat \ {0} /\ Fitting(x.cmd, CallAt(x), x.at)
      /\ DOMAIN x = Fields
  BY <1>1, <1>2, AtCall, CommandsAssumption
<1>4. CallOf(e) = CallAt(x)
  BY DEF CallOf, CallAt
<1> QED
  BY <1>1, <1>2, <1>3, <1>4 DEF ExecInv, Placed, Cleared

\* The batch of a move that a mount is asked to make.
LEMMA MountBatchKept ==
    ASSUME FilesInv, MountsLinkless(world), NEW e \in Execs, MoveKept(world, execs[e]), DoMountBatch(e)
    PROVE  /\ execs'[e].alone = execs[e].alone /\ MoveKept(world', execs'[e])
           /\ MountsLinkless(world')
<1>0. PICK x, y : x = execs[e] /\ y = execs'[e]
  OBVIOUS
<1>1. Running(e) /\ CallOf(e).call = "batch"
  BY DEF DoMountBatch, IsCall
<1>2. /\ DOMAIN execs = Execs /\ Shaped(world) /\ DOMAIN x = Fields /\ x.code = "run" /\ WellFormed(x.cmd)
      /\ CallOf(e) = CallAt(x) /\ Fitting(x.cmd, CallAt(x), x.at) /\ x.at \in DOMAIN ProgramOf(x)
      /\ x.cmd.name \in Batched /\ x.at > 3 => \A p \in Range(x.cmd.paths) : ~IsSyntheticPrefix(p)
  BY <1>0, <1>1, MoveAt
<1>3. PICK batch, ops : batch = CallOf(e) /\ ops = batch.ops
  OBVIOUS
<1>4. OpsOf(x.cmd, ops) /\ x.cmd.name \in Batched /\ x.at = BatchAt(x.cmd)
  BY <1>1, <1>2, <1>3 DEF Fitting
<1>5. ops[1].path \in Paths /\ Len(ops) \in Nat /\ \A i \in 1 .. Len(ops) : ops[i].kind \in Kinds
  <2>1. 1 \in DOMAIN ops
    BY <1>4 DEF OpsOf
  <2> QED
    BY <1>2, <1>4, <2>1, PathsOf DEF OpsOf, OpOf
<1>6. /\ Ok(BatchError(ops)) => IsMounted(ops[1].path)
      /\ \E result \in MountBatch(world, ops) : Effect(e, AfterBatch(x, batch, result), ops, ops, result)
  BY <1>0, <1>3 DEF DoMountBatch
<1>7. PICK result \in MountBatch(world, ops) : Effect(e, AfterBatch(x, batch, result), ops, ops, result)
  BY <1>6
<1>8. PICK z : z = AfterBatch(x, batch, result)
  OBVIOUS
<1>9. /\ DOMAIN z = Fields /\ z.cmd = x.cmd /\ z.text = x.text /\ z.alone = x.alone
      /\ \/ z.at = x.at /\ z.code # "run" /\ z.code # "idle"
         \/ z.at = x.at + 1 /\ z.code = "run" /\ AllowsUnsupportedFallback(result.err)
  BY <1>2, <1>8, BatchEnds
<1>10. Twins(z, y) /\ world' = result.world
  BY <1>0, <1>2, <1>7, <1>8, <1>9, EffectTwins
<1>11. MountsLinkless(result.world)
  BY <1>2, <1>5, <1>6, BatchLinkless
<1>12. MoveKept(result.world, z)
  <2>1. SUFFICES ASSUME Moving(z)
                 PROVE  MoveKept(result.world, z)
    BY DEF MoveKept
  <2>2. x.cmd.name = "mv" /\ x.at = 5 /\ ~MovesInHalves(x.cmd)
    BY <1>4, <1>9, <2>1 DEF Moving, BatchAt
  <2>3. Moving(x)
    BY <1>2, <1>9, <2>1, <2>2 DEF Moving
  <2>4. StillThere(world, x)
    BY <1>0, <1>2, <2>2, <2>3 DEF MoveKept
  <2>5. PICK a, b, src, dest : /\ a = Op("write", Dest(x), x.text) /\ b = Op("rm", Src(x), <<>>)
                               /\ src = Src(x) /\ dest = Dest(x)
    OBVIOUS
  <2>6. ops = <<a, b>>
    BY <1>2, <1>3, <2>2, <2>5, MoveCalls
  <2>7. a.kind = "write" /\ a.path = dest /\ a.content = x.text /\ b.kind = "rm" /\ b.path = src
    BY <2>5 DEF Op
  <2>8. src = x.cmd.paths[1] /\ dest = x.cmd.paths[2]
    BY <2>5 DEF Src, Dest
  <2>9. ops[1] = a
    BY <2>6
  <2>10. Ok(BatchError(ops)) => IsMounted(dest)
    BY <1>6, <2>7, <2>9
  <2>11. \A p \in Range(x.cmd.paths) : ~IsSyntheticPrefix(p)
    BY <1>2, <1>4, <2>2
  <2>12. \/ /\ result.world = world
            /\ AllowsUnsupportedFallback(result.err) => IsMounted(dest) /\ Unwritable(a)
         \/ /\ ~AllowsUnsupportedFallback(result.err)
            /\ src = dest \/ Holds(View(result.world, dest), x.text)
    BY <1>2, <1>4, <1>7, <2>2, <2>6, <2>7, <2>8, <2>10, <2>11, MoveBatch
  <2>13. Src(z) = src /\ Dest(z) = dest /\ z.text = x.text
    BY <1>9, <2>5 DEF Src, Dest
  <2>14. CASE result.world = world
    <3>1. StillThere(world, z)
      BY <2>4, <2>5, <2>13 DEF StillThere
    <3>2. z.code = "run" => z.at = 6 /\ IsMounted(Dest(z)) /\ Unwritable(Op("write", Dest(z), z.text))
      <4>1. ASSUME z.code = "run"
            PROVE  z.at = 6 /\ AllowsUnsupportedFallback(result.err)
        BY <1>9, <2>2, <4>1
      <4>2. AllowsUnsupportedFallback(result.err) => IsMounted(dest) /\ Unwritable(a)
        BY <2>12
      <4> QED
        BY <2>5, <2>13, <4>1, <4>2
    <3> QED
      BY <2>14, <3>1, <3>2 DEF MoveKept
  <2>15. CASE ~AllowsUnsupportedFallback(result.err) /\ (src = dest \/ Holds(View(result.world, dest), x.text))
    <3>1. z.code # "run"
      BY <1>9, <2>15
    <3>2. StillThere(result.world, z) \/ AtDest(result.world, z)
      BY <2>13, <2>15 DEF StillThere, OnePlace, AtDest
    <3> QED
      BY <3>1, <3>2 DEF MoveKept
  <2> QED
    BY <2>12, <2>14, <2>15
<1>13. MoveKept(result.world, y)
  BY <1>10, <1>12, TwinsKept
<1>14. y.alone = x.alone
  BY <1>9, <1>10 DEF Twins
<1> QED
  BY <1>0, <1>10, <1>11, <1>13, <1>14

\* The write of a move, where the file system makes it.
LEMMA MoveWritten ==
    ASSUME FilesInv, NEW x, WellFormed(x.cmd), x.cmd.name = "mv", ~IsMounted(Src(x)), ~IsMounted(Dest(x)),
           StillThere(world, x), NEW op, op = Op("write", Dest(x), x.text), NEW fault \in Faults,
           NEW result, result = FsApply(world, op, fault), NEW v, v = result.world
    PROVE  StillThere(v, x) /\ (Ok(result.err) => Copied(v, x))
<1>1. PICK src, dest, text : src = Src(x) /\ dest = Dest(x) /\ text = x.text
  OBVIOUS
<1>2. src \in Paths /\ dest \in Paths
  BY <1>1, MovePaths DEF Src, Dest
<1>3. op.kind = "write" /\ op.path = dest /\ op.content = text
  BY <1>1 DEF Op
<1>4. OnePlace(world, src, dest) \/ AtSource(world, src, text)
  BY <1>1 DEF StillThere
<1>5. ~IsMounted(src) /\ ~IsMounted(dest)
  BY <1>1
<1>6. /\ OnePlace(v, src, dest) \/ AtSource(v, src, text)
      /\ Ok(result.err) => Holds(View(v, dest), text) /\ ~Below(HostSpot(v, src), HostSpot(v, dest))
  BY <1>2, <1>3, <1>4, <1>5, FsWriteKeeps
<1> QED
  BY <1>1, <1>5, <1>6 DEF StillThere, Copied, AtDest

\* Its removal.
LEMMA MoveRemoved ==
    ASSUME FilesInv, NEW x, WellFormed(x.cmd), x.cmd.name = "mv", Copied(world, x),
           NEW op, op = Op("rm", Src(x), <<>>), NEW fault \in Faults,
           NEW result, result = FsApply(world, op, fault), NEW v, v = result.world
    PROVE  /\ StillThere(v, x) \/ AtDest(v, x)
           /\ ~Ok(result.err) => v.host = world.host /\ v.data = world.data /\ v.adapter = world.adapter
<1>1. PICK src, dest, text : src = Src(x) /\ dest = Dest(x) /\ text = x.text
  OBVIOUS
<1>2. src \in Paths /\ dest \in Paths
  BY <1>1, MovePaths DEF Src, Dest
<1>3. op.kind = "rm" /\ op.path = src
  BY <1>1 DEF Op
<1>4. /\ ~IsMounted(src) /\ ~IsMounted(dest) /\ Holds(View(world, dest), text)
      /\ ~Below(HostSpot(world, src), HostSpot(world, dest))
  BY <1>1 DEF Copied, AtDest
<1>5. /\ v.data = world.data /\ v.adapter = world.adapter
      /\ ~Ok(result.err) => v.host = world.host
      /\ OnePlace(v, src, dest) \/ Holds(View(v, dest), text)
  BY <1>2, <1>3, <1>4, FsRemoveKeeps
<1> QED
  BY <1>1, <1>5 DEF StillThere, AtDest

\* The batch of a move that the file system makes one by one.
LEMMA FsBatchKept ==
    ASSUME FilesInv, MountsLinkless(world), NEW e \in Execs, MoveKept(world, execs[e]), DoFsBatch(e)
    PROVE  /\ execs'[e].alone = execs[e].alone /\ MoveKept(world', execs'[e])
           /\ MountsLinkless(world')
<1>0. PICK x, y : x = execs[e] /\ y = execs'[e]
  OBVIOUS
<1>1. Running(e) /\ CallOf(e).call = "batch"
  <2>1. IsCall(e, "batch")
    BY Zenon DEF DoFsBatch
  <2> QED
    BY <2>1 DEF IsCall
<1>2. /\ DOMAIN execs = Execs /\ Shaped(world) /\ DOMAIN x = Fields /\ x.code = "run" /\ WellFormed(x.cmd)
      /\ CallOf(e) = CallAt(x) /\ Fitting(x.cmd, CallAt(x), x.at) /\ x.at \in DOMAIN ProgramOf(x)
      /\ CallAt(x).call = "batch" => x.sub \in DOMAIN CallAt(x).ops
      /\ x.cmd.name \in Batched /\ x.at > 3 => \A p \in Range(x.cmd.paths) : ~IsSyntheticPrefix(p)
  BY <1>0, <1>1, MoveAt
<1>3. PICK batch, ops, i, op : batch = CallOf(e) /\ ops = batch.ops /\ i = x.sub /\ op = ops[i]
  OBVIOUS
<1>4. OpsOf(x.cmd, ops) /\ x.cmd.name \in Batched /\ x.at = BatchAt(x.cmd) /\ i \in DOMAIN ops
  BY <1>1, <1>2, <1>3 DEF Fitting
<1>5. Ok(BatchError(ops)) /\ ~IsMounted(ops[1].path)
  BY <1>3 DEF DoFsBatch
<1>6. \A k \in DOMAIN ops : ~IsMounted(ops[k].path)
  <2>1. \A k \in DOMAIN ops : ~IsSyntheticPrefix(ops[k].path)
    BY <1>2, <1>4 DEF OpsOf, OpOf, BatchAt
  <2>2. BatchError(ops) # "denied" /\ 1 \in DOMAIN ops
    BY <1>4, <1>5 DEF Ok, OpsOf
  <2> QED
    BY <1>4, <1>5, <2>1, <2>2, BatchSides
<1>7. PICK fault \in Faults : \E result \in FsResults(world, op, fault) :
         LET whole == [result EXCEPT !.records = Records(ops)]
         IN Effect(e, CASE ~Ok(result.err) -> AfterBatch(x, batch, result)
                        [] Ok(result.err) /\ i < Len(ops) -> [x EXCEPT !.sub = i + 1]
                        [] OTHER -> AfterBatch(x, batch, whole),
                   <<op>>, SubSeq(ops, 1, i), result)
  BY <1>0, <1>3 DEF DoFsBatch
<1>8. PICK result \in FsResults(world, op, fault) :
         LET whole == [result EXCEPT !.records = Records(ops)]
         IN Effect(e, CASE ~Ok(result.err) -> AfterBatch(x, batch, result)
                        [] Ok(result.err) /\ i < Len(ops) -> [x EXCEPT !.sub = i + 1]
                        [] OTHER -> AfterBatch(x, batch, whole),
                   <<op>>, SubSeq(ops, 1, i), result)
  BY <1>7
<1>r. PICK r : r = FsApply(world, op, fault)
  OBVIOUS
<1>s. FsSame(result, r) /\ result.world = r.world /\ (Ok(result.err) <=> Ok(r.err))
  BY <1>2, <1>8, <1>r, FsResultIs DEF FsSame
<1>9. PICK whole : whole = [result EXCEPT !.records = Records(ops)]
  OBVIOUS
<1>10. PICK z : z = CASE ~Ok(result.err) -> AfterBatch(x, batch, result)
                      [] Ok(result.err) /\ i < Len(ops) -> [x EXCEPT !.sub = i + 1]
                      [] OTHER -> AfterBatch(x, batch, whole)
  OBVIOUS
<1>11. Effect(e, z, <<op>>, SubSeq(ops, 1, i), result)
  BY <1>8, <1>9, <1>10
<1>12. whole.err = result.err /\ HostOnly(world, result.world)
  BY <1>2, <1>9, <1>r, <1>s, FsKeeps DEF Answered, FsSame
<1>13. /\ DOMAIN z = Fields /\ z.cmd = x.cmd /\ z.text = x.text /\ z.alone = x.alone
       /\ \/ z.at = x.at /\ z.code # "run" /\ z.code # "idle"
          \/ z.at = x.at + 1 /\ z.code = "run" /\ ~Ok(result.err)
          \/ z.at = x.at /\ z.code = "run" /\ z.sub = i + 1 /\ Ok(result.err) /\ i < Len(ops)
       /\ Ok(result.err) /\ i < Len(ops) => z.code = "run"
  <2>1. CASE ~Ok(result.err)
    <3>1. z = AfterBatch(x, batch, result)
      BY <1>10, <2>1
    <3> QED
      BY <1>2, <2>1, <3>1, BatchEnds
  <2>2. CASE Ok(result.err) /\ i < Len(ops)
    <3>1. z = [x EXCEPT !.sub = i + 1]
      BY <1>10, <2>2
    <3> QED
      BY <1>2, <2>2, <3>1 DEF Fields
  <2>3. CASE Ok(result.err) /\ ~(i < Len(ops))
    <3>1. z = AfterBatch(x, batch, whole)
      BY <1>10, <2>3
    <3>2. ~AllowsUnsupportedFallback(whole.err)
      BY <1>12, <2>3 DEF Ok, AllowsUnsupportedFallback
    <3> QED
      BY <1>2, <2>3, <3>1, <3>2, BatchEnds
  <2> QED
    BY <2>1, <2>2, <2>3
<1>14. Twins(z, y) /\ world' = result.world
  BY <1>0, <1>2, <1>11, <1>13, EffectTwins
<1>15. MountsLinkless(result.world)
  BY <1>12 DEF HostOnly, MountsLinkless
<1>16. MoveKept(result.world, z)
  <2>1. SUFFICES ASSUME Moving(z)
                 PROVE  MoveKept(result.world, z)
    BY DEF MoveKept
  <2>2. x.cmd.name = "mv" /\ x.at = 5 /\ ~MovesInHalves(x.cmd)
    BY <1>4, <1>13, <2>1 DEF Moving, BatchAt
  <2>3. Moving(x)
    BY <1>2, <1>13, <2>1, <2>2 DEF Moving
  <2>4. StillThere(world, x) /\ (i = 2 => Copied(world, x))
    BY <1>0, <1>2, <1>3, <2>2, <2>3 DEF MoveKept
  <2>5. PICK a, b : a = Op("write", Dest(x), x.text) /\ b = Op("rm", Src(x), <<>>)
    OBVIOUS
  <2>6. ops = <<a, b>>
    BY <1>2, <1>3, <2>2, <2>5, MoveCalls
  <2>7. DOMAIN ops = 1 .. 2 /\ Len(ops) = 2 /\ ops[1] = a /\ ops[2] = b
    BY <2>6
  <2>8. a.path = Dest(x) /\ b.path = Src(x)
    BY <2>5 DEF Op
  <2>9. ~IsMounted(Src(x)) /\ ~IsMounted(Dest(x))
    <3>1. 1 \in DOMAIN ops /\ 2 \in DOMAIN ops
      BY <2>7
    <3> QED
      BY <1>6, <2>7, <2>8, <3>1
  <2>10. PICK v : v = result.world
    OBVIOUS
  <2>11. Src(z) = Src(x) /\ Dest(z) = Dest(x) /\ z.text = x.text
    BY <1>13 DEF Src, Dest
  <2>12. /\ StillThere(v, x) => StillThere(v, z)
         /\ AtDest(v, x) => AtDest(v, z)
         /\ Copied(v, x) => Copied(v, z)
    BY <2>11 DEF StillThere, AtDest, Copied
  <2>13. CASE i = 1
    <3>1. StillThere(v, x) /\ (Ok(result.err) => Copied(v, x))
      BY <1>2, <1>3, <1>r, <1>s, <2>2, <2>4, <2>5, <2>7, <2>9, <2>10, <2>13, MoveWritten
    <3>2. /\ z.code # "run" \/ z.at = 6 \/ (z.at = 5 /\ Ok(result.err))
      BY <1>13, <2>2
    <3>3. z.code = "run" /\ z.at = 5 => Ok(result.err)
      BY <3>2
    <3>4. z.code = "run" => z.at \in {5, 6}
      BY <3>2
    <3> QED
      BY <2>9, <2>10, <2>11, <2>12, <3>1, <3>3, <3>4 DEF MoveKept
  <2>14. CASE i = 2
    <3>1. /\ StillThere(v, x) \/ AtDest(v, x)
          /\ ~Ok(result.err) => v.host = world.host /\ v.data = world.data /\ v.adapter = world.adapter
      BY <1>2, <1>3, <1>r, <1>s, <2>2, <2>4, <2>5, <2>7, <2>10, <2>14, MoveRemoved
    <3>2. ~Ok(result.err) => StillThere(v, x)
      BY <2>4, <3>1, SeenKept
    <3>3. z.code = "run" => z.at = 6 /\ ~Ok(result.err)
      BY <1>13, <2>2, <2>7, <2>14
    <3> QED
      BY <2>9, <2>10, <2>11, <2>12, <3>1, <3>2, <3>3 DEF MoveKept
  <2> QED
    BY <1>4, <2>7, <2>13, <2>14
<1>17. MoveKept(result.world, y)
  BY <1>14, <1>16, TwinsKept
<1>18. y.alone = x.alone
  BY <1>13, <1>14 DEF Twins
<1> QED
  BY <1>0, <1>14, <1>15, <1>17, <1>18

\* A single call of a move.
LEMMA CallKept ==
    ASSUME FilesInv, MountsLinkless(world), NEW e \in Execs, MoveKept(world, execs[e]), DoCall(e)
    PROVE  /\ execs'[e].alone = execs[e].alone /\ MoveKept(world', execs'[e])
           /\ MountsLinkless(world')
<1>0. PICK x, y : x = execs[e] /\ y = execs'[e]
  OBVIOUS
<1>1. Running(e) /\ CallOf(e).call = "call"
  BY DEF DoCall, IsCall
<1>2. /\ DOMAIN execs = Execs /\ Shaped(world) /\ DOMAIN x = Fields /\ x.code = "run" /\ WellFormed(x.cmd)
      /\ CallOf(e) = CallAt(x) /\ Fitting(x.cmd, CallAt(x), x.at) /\ x.at \in DOMAIN ProgramOf(x)
      /\ x.cmd.name \in Batched /\ x.at > 3 => \A p \in Range(x.cmd.paths) : ~IsSyntheticPrefix(p)
  BY <1>0, <1>1, MoveAt
<1>3. PICK op : op = CallOf(e).op
  OBVIOUS
<1>4. op.kind \in Kinds /\ op.path \in Paths
  <2>1. OpOf(x.cmd, op)
    BY <1>1, <1>2, <1>3 DEF Fitting
  <2> QED
    BY <1>2, <2>1, PathsOf DEF OpOf
<1>5. PICK fault \in Faults :
        \E result \in Mutate(world, op, fault) :
          Effect(e, AfterError([x EXCEPT !.trace = TraceMutate(x.trace, op, result.err)], result.err),
                 <<op>>, <<op>>, result)
  BY <1>0, <1>3 DEF DoCall
<1>6. PICK result \in Mutate(world, op, fault) :
        Effect(e, AfterError([x EXCEPT !.trace = TraceMutate(x.trace, op, result.err)], result.err),
               <<op>>, <<op>>, result)
  BY <1>5
<1>7. PICK u, err : u = TraceMutate(x.trace, op, err) /\ err = result.err
  OBVIOUS
<1>8. PICK t : t = [x EXCEPT !.trace = u]
  OBVIOUS
<1>9. PICK z : z = AfterError(t, err)
  OBVIOUS
<1>10. Effect(e, z, <<op>>, <<op>>, result)
  BY <1>6, <1>7, <1>8, <1>9
<1>11. /\ DOMAIN t = Fields /\ t.code = "run" /\ t.cmd = x.cmd /\ t.text = x.text /\ t.alone = x.alone
       /\ t.at = x.at
  BY <1>2, <1>8 DEF Fields
<1>12. /\ DOMAIN z = Fields /\ z.cmd = x.cmd /\ z.text = x.text /\ z.alone = x.alone
       /\ \/ z.at = x.at /\ z.code # "run"
          \/ z.at = x.at + 1 /\ z.code = "run" /\ Ok(err)
  <2>1. CASE Ok(err)
    <3>1. PICK n : n = 1 /\ z = Skip(t, n)
      BY <1>9, <2>1 DEF AfterError, Advance
    <3>2. /\ DOMAIN z = Fields /\ z.cmd = t.cmd /\ z.text = t.text /\ z.alone = t.alone
          /\ \/ z.at = t.at /\ z.code = "ok"
             \/ z.at = t.at + n /\ z.sub = 1 /\ z.code = "run"
      BY <1>11, <3>1, SkipLeaves
    <3> QED
      BY <1>11, <2>1, <3>1, <3>2
  <2>2. CASE ~Ok(err)
    <3>1. PICK code : code = Code(err) /\ z = Exit(t, code)
      BY <1>9, <2>2 DEF AfterError
    <3>2. code # "run"
      BY <3>1 DEF Code
    <3> QED
      BY <1>11, <3>1, <3>2, ExitLeaves
  <2> QED
    BY <2>1, <2>2
<1>13. Twins(z, y) /\ world' = result.world
  BY <1>0, <1>2, <1>10, <1>12, EffectTwins
<1>14. MountsLinkless(result.world)
  BY <1>2, <1>4, MutateLinkless
<1>15. MoveKept(result.world, z)
  <2>1. SUFFICES ASSUME Moving(z)
                 PROVE  MoveKept(result.world, z)
    BY DEF MoveKept
  <2>2. PICK a, b : a = Op("write", Dest(x), x.text) /\ b = Op("rm", Src(x), <<>>)
    OBVIOUS
  <2>3. x.cmd.name = "mv" /\ ~MovesInHalves(x.cmd) /\ x.alone
    BY <1>12, <2>1 DEF Moving
  <2>4. PICK call : call = CallAt(x) /\ call.call = "call" /\ op = call.op
    BY <1>1, <1>2, <1>3
  <2>5. /\ x.at \in 1 .. 7
        /\ x.at = 1 => call.call = "require"
        /\ x.at = 2 => call.call = "allowed"
        /\ x.at = 3 => call.call = "preflight"
        /\ x.at = 4 => call.call = "read"
        /\ x.at = 5 => call.call = "batch"
        /\ x.at = 6 => call.op = a
        /\ x.at = 7 => call.op = b
    BY <1>2, <2>2, <2>3, <2>4, MoveCalls
  <2>6. \/ x.at = 6 /\ op = a
        \/ x.at = 7 /\ op = b
    BY <2>4, <2>5
  <2>7. Moving(x)
    BY <1>2, <2>3, <2>6 DEF Moving
  <2>8. a.path = Dest(x) /\ b.path = Src(x) /\ Src(x) \in Range(x.cmd.paths) /\ Dest(x) \in Range(x.cmd.paths)
    BY <1>2, <2>2, <2>3, MovePaths DEF Op, Src, Dest
  <2>9. ~IsSyntheticPrefix(op.path)
    BY <1>2, <2>3, <2>6, <2>8 DEF Batched
  <2>10. PICK v : v = result.world
    OBVIOUS
  <2>11. Src(z) = Src(x) /\ Dest(z) = Dest(x) /\ z.text = x.text
    BY <1>12 DEF Src, Dest
  <2>12. /\ StillThere(v, x) => StillThere(v, z)
         /\ AtDest(v, x) => AtDest(v, z)
         /\ Copied(v, x) => Copied(v, z)
    BY <2>11 DEF StillThere, AtDest, Copied
  <2>r. PICK r : r = FsApply(world, op, fault)
    OBVIOUS
  <2>13. ~IsMounted(op.path) => result.world = r.world /\ (Ok(result.err) <=> Ok(r.err))
    <3>1. ASSUME ~IsMounted(op.path)
          PROVE  FsSame(result, r)
      BY <1>2, <2>9, <2>r, <3>1, FsResultIs DEF Mutate
    <3> QED
      BY <3>1 DEF FsSame
  <2>14. CASE x.at = 6 /\ IsMounted(Dest(x))
    <3>1. StillThere(world, x) /\ Unwritable(op)
      BY <1>0, <1>2, <2>2, <2>6, <2>7, <2>14 DEF MoveKept
    <3>2. result.world = world /\ ~Ok(result.err)
      BY <1>4, <2>6, <2>8, <2>9, <2>14, <3>1, UnwritableFails
    <3>3. z.code # "run"
      BY <1>7, <1>12, <3>2
    <3> QED
      BY <2>10, <2>12, <3>1, <3>2, <3>3 DEF MoveKept
  <2>15. CASE x.at = 6 /\ ~IsMounted(Dest(x))
    <3>1. StillThere(world, x) /\ ~IsMounted(Src(x))
      BY <1>0, <1>2, <2>7, <2>15 DEF MoveKept
    <3>2. result.world = r.world /\ (Ok(result.err) <=> Ok(r.err))
      BY <2>6, <2>8, <2>13, <2>15
    <3>3. StillThere(v, x) /\ (Ok(result.err) => Copied(v, x))
      BY <1>2, <2>2, <2>3, <2>6, <2>10, <2>r, <2>15, <3>1, <3>2, MoveWritten
    <3>4. z.code = "run" => z.at = 7 /\ Ok(result.err)
      BY <1>7, <1>12, <2>15
    <3> QED
      BY <2>10, <2>12, <3>3, <3>4 DEF MoveKept
  <2>16. CASE x.at = 7
    <3>1. Copied(world, x)
      BY <1>0, <1>2, <2>7, <2>16 DEF MoveKept
    <3>2. result.world = r.world /\ (Ok(result.err) <=> Ok(r.err))
      BY <2>6, <2>8, <2>13, <2>16, <3>1 DEF Copied
    <3>3. StillThere(v, x) \/ AtDest(v, x)
      BY <1>2, <2>2, <2>3, <2>6, <2>10, <2>r, <2>16, <3>1, <3>2, MoveRemoved
    <3>4. z.code = "run" => z.at = 8
      BY <1>12, <2>16
    <3> QED
      BY <2>10, <2>12, <3>3, <3>4 DEF MoveKept
  <2> QED
    BY <2>6, <2>14, <2>15, <2>16
<1>16. MoveKept(result.world, y)
  BY <1>13, <1>15, TwinsKept
<1>17. y.alone = x.alone
  BY <1>12, <1>13 DEF Twins
<1> QED
  BY <1>0, <1>13, <1>14, <1>16, <1>17

\* While one execution moves, no other is alone.
LEMMA OthersKept ==
    ASSUME Alone, NEW e \in Execs, OnlyMoves(e), execs'[e].alone = execs[e].alone, MoveKept(world', execs'[e])
    PROVE  Alone' /\ \A d \in Execs : MoveKept(world', execs'[d])
<1>1. Running(e) /\ \A d \in Execs : d # e => execs'[d] = execs[d]
  BY DEF OnlyMoves
<1>2. execs[e].code # "idle"
  BY <1>1 DEF Running
<1>3. ASSUME NEW d \in Execs, d # e
      PROVE  ~(execs[d].code # "idle" /\ execs[d].alone)
  BY <1>1, <1>3 DEF Alone
<1>4. ASSUME NEW d \in Execs
      PROVE  MoveKept(world', execs'[d])
  <2>1. CASE d # e
    <3>1. PICK x : x = execs'[d]
      OBVIOUS
    <3>2. ~(x.code # "idle" /\ x.alone)
      BY <1>1, <1>3, <2>1, <3>1
    <3>3. ~Moving(x)
      BY <3>2 DEF Moving
    <3> QED
      BY <3>1, <3>3 DEF MoveKept
  <2> QED
    BY <2>1
<1>5. ASSUME NEW d \in Execs, NEW k \in Execs, d # k, execs'[k].code # "idle", execs'[k].alone
      PROVE  execs'[d].code # "run"
  <2>1. k = e
    BY <1>1, <1>3, <1>5
  <2>2. execs[e].alone /\ execs'[d] = execs[d]
    BY <1>1, <1>5, <2>1
  <2>3. ~Running(d)
    BY <1>2, <1>5, <2>1, <2>2 DEF Alone
  <2> QED
    BY <2>2, <2>3 DEF Running
<1>6. Alone'
  BY <1>5 DEF Alone, Running
<1> QED
  BY <1>4, <1>6

\* Nothing moves in the beginning, and no mount has a link.
LEMMA MoveInit ==
    ASSUME Init
    PROVE  MoveInv
<1>1. FilesInv
  BY InvInit
<1>2. \A e \in Execs : execs[e] = Idle
  BY DEF Init
<1>3. Idle.code = "idle"
  BY DEF Idle
<1>4. Alone
  BY <1>2, <1>3 DEF Alone
<1>5. MountsLinkless(world)
  <2>1. world.data = InitialData
    <3>1. world \in [host : {InitialHost}, data : {InitialData}, adapter : Adapters,
                     allowWrite : BOOLEAN, active : {{m.point : m \in Mounts}}]
      BY DEF Init
    <3> QED
      BY <3>1
  <2> QED
    BY <2>1, LinksAssumption DEF MountsLinkless, Linkless
<1>6. MoveKept(world, Idle)
  BY <1>3 DEF MoveKept, Moving
<1> QED
  BY <1>1, <1>2, <1>4, <1>5, <1>6 DEF MoveInv

\* An execution that starts is alone when no other runs, and ends that of the others.
LEMMA StartAlone ==
    ASSUME FilesInv, NEW e \in Execs, Start(e)
    PROVE  Alone' /\ \A d \in Execs : MoveKept(world', execs'[d])
<1>1. PICK c \in Commands[e], alone \in BOOLEAN :
        /\ alone = (\A d \in Execs : ~Running(d))
        /\ execs' = [d \in Execs |->
                       IF d = e THEN [Idle EXCEPT !.cmd = c, !.at = 1, !.sub = 1, !.code = "run", !.alone = alone]
                       ELSE [execs[d] EXCEPT !.alone = FALSE]]
  BY DEF Start
<1>2. execs'[e].at = 1 /\ execs'[e].alone = alone
  <2>1. execs'[e] = [Idle EXCEPT !.cmd = c, !.at = 1, !.sub = 1, !.code = "run", !.alone = alone]
    BY <1>1
  <2> QED
    BY <2>1 DEF Idle
<1>3. ASSUME NEW d \in Execs, d # e
      PROVE  execs'[d].alone = FALSE /\ execs'[d].code = execs[d].code
  <2>1. execs'[d] = [execs[d] EXCEPT !.alone = FALSE]
    BY <1>1, <1>3
  <2>2. DOMAIN execs[d] = Fields
    BY DEF FilesInv, ExecInv, Placed
  <2> QED
    BY <2>1, <2>2 DEF Fields
<1>4. ASSUME NEW d \in Execs
      PROVE  MoveKept(world', execs'[d])
  <2>1. PICK x : x = execs'[d]
    OBVIOUS
  <2>2. CASE d = e
    <3>1. x.at = 1
      BY <1>2, <2>1, <2>2
    <3>2. ~Moving(x)
      BY <3>1 DEF Moving
    <3> QED
      BY <2>1, <3>2 DEF MoveKept
  <2>3. CASE d # e
    <3>1. ~x.alone
      BY <1>3, <2>1, <2>3
    <3>2. ~Moving(x)
      BY <3>1 DEF Moving
    <3> QED
      BY <2>1, <3>2 DEF MoveKept
  <2> QED
    BY <2>2, <2>3
<1>5. ASSUME NEW d \in Execs, NEW k \in Execs, d # k, execs'[k].alone
      PROVE  execs'[d].code # "run"
  <2>1. k = e
    BY <1>3, <1>5
  <2>2. \A n \in Execs : ~Running(n)
    BY <1>1, <1>2, <1>5, <2>1
  <2>3. execs[d].code # "run"
    BY <2>2 DEF Running
  <2> QED
    BY <1>3, <1>5, <2>1, <2>3
<1>6. Alone'
  BY <1>5 DEF Alone, Running
<1> QED
  BY <1>4, <1>6

\* Every step keeps what is moved.
LEMMA MoveStep ==
    ASSUME MoveInv, [Next]_vars
    PROVE  MoveInv'
<1>1. FilesInv /\ Alone /\ MountsLinkless(world)
  BY DEF MoveInv
<1>2. FilesInv'
  BY <1>1, InvStep
<1>3. Shaped(world) /\ DOMAIN execs = Execs
  BY <1>1 DEF FilesInv
<1>4. ASSUME NEW e \in Execs
      PROVE  Placed(execs[e], Commands[e]) /\ MoveKept(world, execs[e])
  BY DEF MoveInv, FilesInv, ExecInv
<1>5. ASSUME Alone' /\ (\A d \in Execs : MoveKept(world', execs'[d])), MountsLinkless(world')
      PROVE  MoveInv'
  BY <1>2, <1>5 DEF MoveInv
<1>6. ASSUME NEW e \in Execs, OnlyMoves(e), world' = world,
             execs'[e].alone = execs[e].alone /\ MoveKept(world, execs'[e])
      PROVE  MoveInv'
  <2>1. MoveKept(world', execs'[e])
    BY <1>6
  <2>2. Alone' /\ \A d \in Execs : MoveKept(world', execs'[d])
    BY <1>1, <1>6, <2>1, OthersKept
  <2>3. MountsLinkless(world')
    BY <1>1, <1>6
  <2> QED
    BY <1>5, <2>2, <2>3
<1>7. ASSUME NEW e \in Execs, StepOf(e),
             /\ execs'[e].alone = execs[e].alone /\ MoveKept(world', execs'[e])
             /\ MountsLinkless(world')
      PROVE  MoveInv'
  <2>1. OnlyMoves(e)
    BY <1>7 DEF StepOf
  <2>2. Alone' /\ \A d \in Execs : MoveKept(world', execs'[d])
    BY <1>1, <1>7, <2>1, OthersKept
  <2> QED
    BY <1>5, <1>7, <2>2
<1>8. ASSUME NEW e \in Execs, Start(e)
      PROVE  MoveInv'
  <2>1. Alone' /\ \A d \in Execs : MoveKept(world', execs'[d])
    BY <1>1, <1>8, StartAlone
  <2>2. MountsLinkless(world')
    BY <1>1, <1>8 DEF Start
  <2> QED
    BY <1>5, <2>1, <2>2
<1>9. ASSUME NEW e \in Execs,
             \/ DoRequire(e) \/ DoAllowed(e) \/ DoPreflight(e) \/ DoRead(e) \/ DoLook(e)
             \/ DoUnique(e) \/ DoFits(e) \/ DoGroup(e)
      PROVE  MoveInv'
  <2>1. OnlyMoves(e) /\ world' = world
    BY <1>3, <1>4, <1>9, ReadsMove
  <2>2. execs'[e].alone = execs[e].alone /\ MoveKept(world, execs'[e])
    BY <1>1, <1>9, <2>1, ReadsKept
  <2> QED
    BY <1>6, <2>1, <2>2
<1>10. ASSUME NEW e \in Execs, DoProbe(e)
       PROVE  MoveInv'
  <2>1. OnlyMoves(e) /\ world' = world
    BY <1>3, <1>4, <1>10, ProbeMoves
  <2>2. execs'[e].alone = execs[e].alone /\ MoveKept(world, execs'[e])
    BY <1>1, <1>10, <2>1, ReadsKept
  <2> QED
    BY <1>6, <2>1, <2>2
<1>11. ASSUME NEW e \in Execs, DoRefresh(e)
       PROVE  MoveInv'
  <2>1. OnlyMoves(e) /\ world' = world
    BY <1>3, <1>4, <1>11, RefreshMoves
  <2>2. execs'[e].alone = execs[e].alone /\ MoveKept(world, execs'[e])
    BY <1>1, <1>11, <2>1, ReadsKept
  <2> QED
    BY <1>6, <2>1, <2>2
<1>12. ASSUME NEW e \in Execs, DoCall(e)
       PROVE  MoveInv'
  BY <1>1, <1>3, <1>4, <1>7, <1>12, CallMoves, CallKept
<1>13. ASSUME NEW e \in Execs, DoMountBatch(e)
       PROVE  MoveInv'
  BY <1>1, <1>3, <1>4, <1>7, <1>13, MountBatchMoves, MountBatchKept
<1>14. ASSUME NEW e \in Execs, DoFsBatch(e)
       PROVE  MoveInv'
  BY <1>1, <1>3, <1>4, <1>7, <1>14, FsBatchMoves, FsBatchKept
<1>15. ASSUME execs' = execs, world'.host = world.host, world'.data = world.data, world'.adapter = world.adapter
       PROVE  MoveInv'
  <2>1. PICK v : v = world'
    OBVIOUS
  <2>2. ASSUME NEW d \in Execs
        PROVE  MoveKept(world', execs'[d])
    BY <1>4, <1>15, <2>1, SeenKept
  <2>3. Alone'
    BY <1>1, <1>15 DEF Alone, Running
  <2>4. MountsLinkless(world')
    BY <1>1, <1>15 DEF MountsLinkless
  <2> QED
    BY <1>5, <2>2, <2>3, <2>4
<1>16. ASSUME NEW m \in Mounts, Flip(m)
       PROVE  MoveInv'
  <2>1. PICK active : world' = [world EXCEPT !.active = active]
    BY <1>16 DEF Flip
  <2>2. execs' = execs
    BY <1>16 DEF Flip
  <2>3. world'.host = world.host /\ world'.data = world.data /\ world'.adapter = world.adapter
    BY <1>3, <2>1 DEF Shaped
  <2> QED
    BY <1>15, <2>2, <2>3
<1>17. CASE UNCHANGED vars
  BY <1>15, <1>17 DEF vars
<1> QED
  BY <1>8, <1>9, <1>10, <1>11, <1>12, <1>13, <1>14, <1>16, <1>17 DEF Next

\* For any trees, zones, mounts, commands and executions, a move that is alone has its
\* text at the source until the target is written whole, and removes nothing before,
\* whichever call fails, is torn or is refused, and whatever mount comes and goes.
THEOREM MoveInvHolds == Spec => []MoveInv
<1>1. Init => MoveInv
  BY MoveInit
<1>2. MoveInv /\ [Next]_vars => MoveInv'
  BY MoveStep
<1> QED
  BY <1>1, <1>2, PTL DEF Spec

\* So mv never loses its file: from the moment it has read its source, what it read is
\* at the source or at the target, unless both are one place, another execution has run
\* or a mount refuses a batch of two.  RunMv writes before it removes, the calls that
\* take the place of a refused batch are refused at the write (MutateMount,
\* checkMountMutationBudget) or are the file system's own, and no removal of one path
\* reaches the other.
THEOREM MovesKeepContent == Spec => []MoveKeepsContent
<1>1. MoveInv => MoveKeepsContent
  <2>1. SUFFICES ASSUME MoveInv, NEW e \in Execs,
                        ~(execs[e].cmd # None /\ MovesInHalves(execs[e].cmd))
                 PROVE  MoveLosesNothing(e)
    BY DEF MoveKeepsContent
  <2>2. PICK x : x = execs[e]
    OBVIOUS
  <2>3. Placed(x, Commands[e]) /\ MoveKept(world, x)
    BY <2>1, <2>2 DEF MoveInv, FilesInv, ExecInv
  <2>4. ASSUME x.cmd # None, x.alone, x.at > 4, x.cmd.name = "mv", ~OnePlace(world, Src(x), Dest(x))
        PROVE  AtSource(world, Src(x), x.text) \/ AtDest(world, x)
    <3>1. x.code # "idle"
      BY <2>3, <2>4 DEF Placed
    <3>2. Moving(x)
      BY <2>1, <2>2, <2>4, <3>1 DEF Moving
    <3>3. CASE x.code # "run"
      BY <2>3, <2>4, <3>2, <3>3 DEF MoveKept, StillThere
    <3>4. CASE x.code = "run"
      <4>1. x.at \in DOMAIN ProgramOf(x)
        BY <2>3, <3>4 DEF Placed
      <4>2. x.at \in 1 .. 7
        <5>1. PICK a, b, call : /\ a = Op("write", Dest(x), x.text) /\ b = Op("rm", Src(x), <<>>)
                                /\ call = CallAt(x)
          OBVIOUS
        <5> QED
          BY <2>4, <4>1, <5>1, MoveCalls
      <4>3. x.at = 5 \/ x.at = 6 \/ x.at = 7
        BY <2>4, <4>2
      <4> QED
        BY <2>3, <2>4, <3>2, <3>4, <4>3 DEF MoveKept, StillThere, Copied
    <3> QED
      BY <3>3, <3>4
  <2> QED
    BY <2>2, <2>4 DEF MoveLosesNothing, Src, Dest, AtDest
<1> QED
  BY <1>1, MoveInvHolds, PTL

-----------------------------------------------------------------------------
(***************************************************************************)
(* What is described as read only.                                         *)
(***************************************************************************)

\* Of the starts of a path one lies below the other.
LEMMA StartsNest ==
    ASSUME NEW p \in Paths, NEW a \in Paths, NEW b \in Paths, Under(a, p), Under(b, p)
    PROVE  Under(a, b) \/ Under(b, a)
<1>1. /\ Len(a) \in Nat /\ Len(b) \in Nat
      /\ \A i \in 1 .. Len(a) : p[i] = a[i]
      /\ \A i \in 1 .. Len(b) : p[i] = b[i]
  BY UnderIs DEF Paths
<1>2. CASE Len(a) <= Len(b)
  BY <1>1, <1>2, UnderIs
<1>3. CASE ~(Len(a) <= Len(b))
  BY <1>1, <1>3, UnderIs
<1> QED
  BY <1>2, <1>3

\* Under is transitive.
LEMMA UnderTwice ==
    ASSUME NEW a \in Paths, NEW b \in Paths, NEW p \in Paths, Under(a, b), Under(b, p)
    PROVE  Under(a, p)
<1>1. /\ Len(a) \in Nat /\ Len(b) \in Nat /\ Len(p) \in Nat /\ Len(a) <= Len(b) /\ Len(b) <= Len(p)
      /\ \A i \in 1 .. Len(a) : b[i] = a[i]
      /\ \A i \in 1 .. Len(b) : p[i] = b[i]
  BY UnderIs DEF Paths
<1> QED
  BY <1>1, UnderIs

\* A path over which there is no writable zone.
Untouchable(q) == q \in Paths /\ \A z \in Zones : z.writable => ~Under(z.base, q)

\* What is there has always been there.
LEMMA UntouchableKept ==
    ASSUME FilesInv, OnAgent(world), NEW q, Untouchable(q)
    PROVE  /\ Exists(world.host, q) <=> Exists(InitialHost, q)
           /\ Exists(world.host, q) => world.host[q] = InitialHost[q]
  BY DEF FilesInv, Confined, MayChange, Untouchable, Exists

\* Two trees that are alike where nothing may be written.
SameUntouched(h, v) ==
    \A q : Untouchable(q) => /\ Exists(v, q) <=> Exists(h, q)
                             /\ Exists(h, q) => v[q] = h[q]

\* The way to what lies below a path and leads there again is seen alike.
LEMMA SeenUntouched ==
    ASSUME NEW h, NEW v, LinksGood(h), LinksGood(v), SameUntouched(h, v), NEW p \in Paths,
           \A i \in 1 .. Len(p) : Untouchable(SubSeq(p, 1, i)), Untouchable(Resolve(h, p))
    PROVE  Node(v, p) = Node(h, p)
<1>1. ASSUME NEW i \in 0 .. Len(p)
      PROVE  Kind(v, SubSeq(p, 1, i)) = "link" <=> Kind(h, SubSeq(p, 1, i)) = "link"
  <2>1. CASE i = 0
    <3>1. SubSeq(p, 1, i) = <<>>
      <4>1. SubSeq(p, 1, i) \in Paths /\ Len(SubSeq(p, 1, i)) = i
        BY StartIs
      <4> QED
        BY <2>1, <4>1 DEF Paths
    <3> QED
      BY <3>1 DEF LinksGood, Kind, Exists
  <2>2. CASE i # 0
    <3>1. i \in 1 .. Len(p)
      BY <2>2 DEF Paths
    <3> QED
      BY <3>1 DEF SameUntouched, Kind
  <2> QED
    BY <2>1, <2>2
<1>2. LinksOn(v, p) = LinksOn(h, p)
  BY <1>1 DEF LinksOn
<1>3. Resolve(v, p) = Resolve(h, p)
  <2>1. CASE LinksOn(h, p) = {}
    BY <1>2, <2>1 DEF Resolve, ResolveLinks
  <2>2. CASE LinksOn(h, p) # {}
    <3>1. LinksOn(h, p) \subseteq Nat
      BY DEF LinksOn, Paths
    <3>2. PICK i \in LinksOn(h, p) : i = Min(LinksOn(h, p))
      BY <2>2, <3>1, MinIs
    <3>3. i \in 0 .. Len(p) /\ Kind(h, SubSeq(p, 1, i)) = "link"
      BY <3>2 DEF LinksOn
    <3>4. SubSeq(p, 1, i) # <<>>
      BY <3>3 DEF LinksGood, Kind, Exists
    <3>5. i \in 1 .. Len(p)
      <4>1. SubSeq(p, 1, i) \in Paths /\ Len(SubSeq(p, 1, i)) = i
        BY <3>3, StartIs
      <4>2. i # 0
        BY <3>4, <4>1 DEF Paths
      <4> QED
        BY <3>3, <4>2 DEF Paths
    <3>6. v[SubSeq(p, 1, i)] = h[SubSeq(p, 1, i)]
      BY <3>3, <3>5 DEF SameUntouched, Kind
    <3> QED
      BY <1>2, <2>2, <3>2, <3>6 DEF Resolve, ResolveLinks, Followed
  <2> QED
    BY <2>1, <2>2
<1> QED
  BY <1>3 DEF Node, SameUntouched

\* Neither below nor above a base that is read only lies one that may be written.
LEMMA ReadOnlyBase ==
    ASSUME ZonesApart, NEW z \in Zones, ~z.writable, NEW q \in Paths,
           Under(z.base, q) \/ Under(q, z.base)
    PROVE  Untouchable(q)
<1>1. ASSUME NEW y \in Zones, y.writable, Under(y.base, q)
      PROVE  FALSE
  <2>1. y.base \in Paths /\ z.base \in Paths
    BY TreesAssumption DEF Paths
  <2>2. ~Under(y.base, z.base) /\ ~Under(z.base, y.base)
    BY <1>1 DEF ZonesApart
  <2>3. CASE Under(z.base, q)
    BY <1>1, <2>1, <2>2, <2>3, StartsNest
  <2>4. CASE Under(q, z.base)
    BY <1>1, <2>1, <2>2, <2>4, UnderTwice
  <2> QED
    BY <2>3, <2>4
<1> QED
  BY <1>1 DEF Untouchable

\* Nor on the way to a path below it.
LEMMA ReadOnlyWay ==
    ASSUME ZonesApart, NEW z \in Zones, ~z.writable, NEW q \in Paths, Under(z.base, q),
           NEW i \in 1 .. Len(q)
    PROVE  Untouchable(SubSeq(q, 1, i))
<1>1. z.base \in Paths /\ i \in 0 .. Len(q)
  BY TreesAssumption DEF Paths
<1>2. PICK s \in Paths : s = SubSeq(q, 1, i)
  BY <1>1, StartIs
<1>3. Under(z.base, s) \/ Under(s, z.base)
  <2>1. CASE Under(z.base, SubSeq(q, 1, i))
    BY <1>2, <2>1
  <2>2. CASE i \in 1 .. Len(z.base) /\ SubSeq(q, 1, i) = SubSeq(z.base, 1, i)
    <3>1. i \in 0 .. Len(z.base)
      BY <2>2
    <3> QED
      BY <1>1, <1>2, <2>2, <3>1, StartUnder
  <2> QED
    BY <1>1, <2>1, <2>2, StartOrUnder
<1> QED
  BY <1>2, <1>3, ReadOnlyBase

\* The zone of a root has its base for it.
LEMMA ZoneRootIs ==
    ASSUME NEW p \in Paths, NEW y \in MatchZone(p), y.root = p
    PROVE  ZoneOf(p) \in Zones /\ HostOf(p) = ZoneOf(p).base
<1>1. PICK z : z = ZoneOf(p) /\ z \in MatchZone(p)
  BY DEF ZoneOf
<1>2. z \in Zones /\ Under(z.root, p) /\ y \in Zones /\ Under(p, p) /\ Len(p) <= Len(z.root)
  BY <1>1 DEF MatchZone
<1>3. z.root \in Paths /\ z.base \in Paths
  BY <1>2, TreesAssumption DEF Paths
<1>4. Len(z.root) = Len(p) /\ Len(p) \in Nat
  BY <1>2, <1>3 DEF Under, Paths
<1>5. z.root = p
  BY <1>2, <1>3, <1>4, SameLength
<1>6. PICK rest \in Paths : rest = Rest(p, p) /\ Len(rest) = 0
  <2>1. Len(p) \in 0 .. Len(p) /\ Len(p) - Len(p) = 0
    BY <1>4
  <2> QED
    BY <2>1, RestIs DEF Rest
<1>7. z.base \o rest = z.base
  <2>1. /\ z.base \o rest \in Paths /\ Len(z.base \o rest) = Len(z.base) + Len(rest)
        /\ \A j \in 1 .. Len(z.base) : (z.base \o rest)[j] = z.base[j]
    BY <1>3, <1>6, AfterIs
  <2>2. Len(z.base \o rest) = Len(z.base)
    BY <1>3, <1>6, <2>1 DEF Paths
  <2> QED
    BY <1>3, <2>1, <2>2, SamePath
<1>8. HostOf(p) = z.base \o rest
  BY <1>1, <1>5, <1>6 DEF HostOf, ToHostPath
<1> QED
  BY <1>1, <1>2, <1>7, <1>8

\* What the file system answers for, it describes itself.
LEMMA HostDescribes ==
    ASSUME NEW w, NEW p, ~IsMounted(p), ~IsSyntheticPrefix(p)
    PROVE  EntryMeta(w, p) = IF OnAgent(w) THEN ZoneDescribe(w.host, p) ELSE LocalDescribe(w.host, p)
<1>1. ~IsActive(w, p)
  BY DEF IsActive, Match, Deepest, IsMounted
<1>2. ~IsSyntheticDir(w, p)
  BY DEF IsSyntheticDir, IsSyntheticPrefix, ActiveMounts
<1> QED
  BY <1>1, <1>2 DEF EntryMeta

\* When writing is allowed the local file system describes nothing as read only.
LEMMA LocalNotReadOnly ==
    ASSUME NEW w, w.allowWrite, ~OnAgent(w), NEW p
    PROVE  ~SaysReadOnly(w, p)
<1>1. SUFFICES ASSUME SaysReadOnly(w, p)
               PROVE  FALSE
  OBVIOUS
<1>2. PICK meta : meta = EntryMeta(w, p) /\ meta = LocalDescribe(w.host, p)
  BY <1>1, HostDescribes DEF SaysReadOnly
<1>3. DOMAIN meta = {"err", "dir", "access", "caps"} /\ meta.access = "rw"
  BY <1>2 DEF LocalDescribe, LocalDescription, Description
<1>4. DefaultAccess(meta.access, w.allowWrite) = "rw"
  BY <1>3 DEF DefaultAccess, NormalizePathAccess
<1>5. DescribePath(w, p).access = "rw"
  BY <1>2, <1>3, <1>4 DEF DescribePath, WithPathAccessPolicy
<1> QED
  BY <1>1, <1>5 DEF SaysReadOnly

\* A path that passes the check lies under the base, also resolved.
LEMMA CheckedUnder ==
    ASSUME NEW h, NEW base, NEW p, Ok(Check(h, base, p))
    PROVE  Under(base, p) /\ Under(base, Resolve(h, p))
<1> DEFINE r == Resolve(h, p)
           checks == <<Ensure(WithinRoot(base, p), "denied"), Ensure(~Dangling(h, p), "missing"),
                       Ensure(~ThroughFile(h, r), "plain"), Ensure(WithinRoot(base, r), "denied")>>
<1>1. PICK n \in Nat : n = 4 /\ DOMAIN checks = 1 .. n
  OBVIOUS
<1>2. Ok(FirstError(checks))
  BY DEF Check, CheckResolved
<1>3. checks[1] = Ensure(WithinRoot(base, p), "denied") /\ checks[4] = Ensure(WithinRoot(base, r), "denied")
  OBVIOUS
<1> HIDE DEF checks
<1>4. \A i \in 1 .. n : Ok(checks[i])
  <2>1. DOMAIN checks = 1 .. n
    BY <1>1
  <2> QED
    BY <1>2, <2>1, AllChecksGood
<1>5. Ok(checks[1]) /\ Ok(checks[4])
  BY <1>1, <1>4
<1> QED
  BY <1>3, <1>5 DEF Ok, Ensure, WithinRoot

\* What the agent file system then describes as read only: the root, the root of a
\* zone, or a path of a zone that is read only and lets it pass.
ReadOnlyIn(h, p) ==
    \/ p = <<>>
    \/ MatchZone(p) # {} /\ HostOf(p) = ZoneOf(p).base
    \/ /\ MatchZone(p) # {} /\ ~ZoneOf(p).writable
       /\ Under(ZoneOf(p).base, HostOf(p)) /\ Under(ZoneOf(p).base, Resolve(h, HostOf(p)))

LEMMA AgentReadOnly ==
    ASSUME NEW w, w.allowWrite, OnAgent(w), NEW p \in Paths, SaysReadOnly(w, p)
    PROVE  ReadOnlyIn(w.host, p)
<1> DEFINE h == w.host
<1>1. PICK meta : meta = EntryMeta(w, p) /\ meta = ZoneDescribe(h, p)
  BY HostDescribes DEF SaysReadOnly
<1>2. /\ DOMAIN meta = {"err", "dir", "access", "caps"}
      /\ meta.access = IF ZoneWritable(h, p) THEN "rw" ELSE "ro"
      /\ meta.err = IF Ok(ZoneIsDir(h, p).err) /\ ~ZoneIsDir(h, p).dir THEN ZoneRead(h, p).err
                    ELSE ZoneIsDir(h, p).err
  BY <1>1 DEF ZoneDescribe, ZoneDescription, Description
<1>3. DescribePath(w, p).err = meta.err
  BY <1>1, <1>2 DEF DescribePath, WithPathAccessPolicy
<1>4. Ok(meta.err)
  BY <1>3 DEF SaysReadOnly
<1>5. ~ZoneWritable(h, p)
  <2>1. SUFFICES ASSUME ZoneWritable(h, p)
                 PROVE  FALSE
    OBVIOUS
  <2>2. DefaultAccess(meta.access, w.allowWrite) = "rw"
    BY <1>2, <2>1 DEF DefaultAccess, NormalizePathAccess
  <2>3. DescribePath(w, p).access = "rw"
    BY <1>1, <1>2, <2>2 DEF DescribePath, WithPathAccessPolicy
  <2> QED
    BY <2>3 DEF SaysReadOnly
<1>6. CASE p = <<>>
  BY <1>6 DEF ReadOnlyIn
<1>7. CASE p # <<>> /\ MatchZone(p) = {}
  <2>1. ZoneResolve(h, p) = "plain"
    BY <1>7 DEF ZoneResolve
  <2>2. ZoneRead(h, p).err = "plain"
    BY <2>1 DEF ZoneRead, ReadIf, Ok
  <2>3. ZoneIsDir(h, p) = [err |-> "ok", dir |-> FALSE]
    BY <1>7 DEF ZoneIsDir
  <2> QED
    BY <1>2, <1>4, <2>2, <2>3 DEF Ok
<1>8. CASE \E y \in MatchZone(p) : y.root = p
  BY <1>8, ZoneRootIs DEF ReadOnlyIn
<1>9. CASE p # <<>> /\ MatchZone(p) # {} /\ ~(\E y \in MatchZone(p) : y.root = p)
  <2>1. ZoneIsDir(h, p) = IsDirIf(ZoneResolve(h, p), h, HostOf(p))
    BY <1>9 DEF ZoneIsDir
  <2>2. ZoneIsDir(h, p).err = ZoneResolve(h, p)
    BY <2>1 DEF IsDirIf
  <2>3. Ok(ZoneResolve(h, p))
    BY <1>2, <1>4, <2>2
  <2>4. ~ZoneOf(p).writable
    BY <1>5, <1>9, <2>3 DEF ZoneWritable
  <2>5. Ok(Check(h, ZoneOf(p).base, HostOf(p)))
    BY <1>9, <2>3 DEF ZoneResolve, ResolveIn, HostOf
  <2> QED
    BY <1>9, <2>4, <2>5, CheckedUnder DEF ReadOnlyIn
<1> QED
  BY <1>6, <1>7, <1>8, <1>9

\* The bases of zones that are read only are reached through no link.
LEMMA BasesReal ==
    ASSUME ZonesApart, NEW z \in Zones, ~z.writable, NEW h, LinksGood(h),
           SameUntouched(InitialHost, h)
    PROVE  Resolve(h, z.base) = z.base
<1>1. z.base \in Paths /\ Under(z.base, z.base)
  BY TreesAssumption DEF Paths, Under
<1>2. ASSUME NEW i \in 1 .. Len(z.base)
      PROVE  Kind(h, SubSeq(z.base, 1, i)) # "link"
  <2>1. Untouchable(SubSeq(z.base, 1, i))
    BY <1>1, ReadOnlyWay
  <2>2. Kind(InitialHost, SubSeq(z.base, 1, i)) # "link"
    BY DEF ZonesApart
  <2> QED
    BY <2>1, <2>2 DEF SameUntouched, Kind
<1> QED
  BY <1>1, <1>2, ResolveIs

\* What is described as read only is seen alike before and after a step.
LEMMA SeenReadOnly ==
    ASSUME FilesInv, FilesInv', world'.adapter = world.adapter, OnAgent(world), ZonesApart,
           DirsStay(world.host, world'.host), NEW p \in Paths, ReadOnlyIn(world.host, p)
    PROVE  HostNode(world', p) = HostNode(world, p)
<1> DEFINE h == world.host
           v == world'.host
<1>1. OnAgent(world') /\ HostPlace(world', p) = HostPlace(world, p)
  BY DEF OnAgent, HostPlace
<1>2. LinksGood(h) /\ LinksGood(v)
  <2>1. LinksKept /\ LinksKept'
    BY DEF FilesInv
  <2>2. LinksGood(h)
    BY <2>1, KeptLinksGood
  <2>3. LinksGood(v)
    BY <2>1, TreesAssumption DEF LinksKept, LinksGood, Exists, Paths
  <2> QED
    BY <2>2, <2>3
<1>3. SameUntouched(InitialHost, h) /\ SameUntouched(InitialHost, v) /\ SameUntouched(h, v)
  <2>1. SameUntouched(InitialHost, h)
    BY UntouchableKept DEF SameUntouched
  <2>2. SameUntouched(InitialHost, v)
    BY <1>1 DEF FilesInv, Confined, MayChange, SameUntouched, Untouchable, Exists
  <2> QED
    BY <2>1, <2>2 DEF SameUntouched
<1>4. \A z \in Zones : z.writable => RootGood(h, z.base)
  BY DEF FilesInv, RootsKept, ActiveRoots
<1>5. ASSUME NEW q \in Paths, Resolve(h, q) = q, Resolve(v, q) = q, Kind(h, q) = "dir"
      PROVE  Node(v, q) = Node(h, q)
  BY <1>5 DEF Node, DirsStay, Kind, Exists
<1>6. ASSUME NEW q, RootGood(h, q)
      PROVE  Node(v, q) = Node(h, q)
  <2>1. RootGood(v, q) /\ q \in Paths
    BY <1>6, RootStays DEF RootGood
  <2>2. Kind(h, q) = "dir"
    <3>1. Kind(h, SubSeq(q, 1, Len(q))) = "dir"
      BY <1>6 DEF RootGood
    <3> QED
      BY <2>1, <3>1, WholeIs
  <2>3. Resolve(h, q) = q /\ Resolve(v, q) = q
    BY <1>2, <1>6, <2>1, ResolveIs DEF RootGood
  <2> QED
    BY <1>5, <2>1, <2>2, <2>3
<1>7. CASE p = <<>>
  <2>1. HostPlace(world, p) = <<>>
    BY <1>7, RootOfNoZone DEF HostPlace
  <2>2. <<>> \in Paths /\ Len(<<>>) = 0
    BY DEF Paths
  <2>3. Resolve(h, <<>>) = <<>> /\ Resolve(v, <<>>) = <<>>
    BY <1>2, <2>2, ResolveIs
  <2>4. CASE \E z \in Zones : z.writable /\ Under(z.base, <<>>)
    <3>1. PICK z \in Zones : z.writable /\ Under(z.base, <<>>)
      BY <2>4
    <3>2. z.base = <<>>
      BY <1>4, <3>1, OverRoot DEF RootGood
    <3>3. Node(v, <<>>) = Node(h, <<>>)
      BY <1>4, <1>6, <3>1, <3>2
    <3> QED
      BY <1>1, <2>1, <3>3 DEF HostNode
  <2>5. CASE ~\E z \in Zones : z.writable /\ Under(z.base, <<>>)
    <3>1. Untouchable(<<>>)
      BY <2>2, <2>5 DEF Untouchable
    <3> QED
      BY <1>1, <1>3, <2>1, <2>3, <3>1 DEF HostNode, Node, SameUntouched
  <2> QED
    BY <2>4, <2>5
<1>8. CASE p # <<>>
  <2>1. MatchZone(p) # {}
    BY <1>8 DEF ReadOnlyIn
  <2>2. PICK z \in Zones, q \in Paths : z = ZoneOf(p) /\ q = HostOf(p) /\ HostPlace(world, p) = q
    BY <2>1, HostOfIs DEF HostPlace
  <2>3. HostNode(world, p) = Node(h, q) /\ HostNode(world', p) = Node(v, q)
    BY <1>1, <2>2 DEF HostNode
  <2>4. CASE z.writable
    <3>1. q = z.base
      BY <1>8, <2>2, <2>4 DEF ReadOnlyIn
    <3> QED
      BY <1>4, <1>6, <2>3, <2>4, <3>1
  <2>5. CASE ~z.writable
    <3>1. Under(z.base, q) /\ Under(z.base, Resolve(h, q))
      <4>1. CASE q = z.base
        <5>1. Under(z.base, z.base)
          BY TreesAssumption DEF Under
        <5>2. Resolve(h, z.base) = z.base
          BY <1>2, <1>3, <2>5, BasesReal
        <5> QED
          BY <4>1, <5>1, <5>2
      <4>2. CASE q # z.base
        BY <1>8, <2>2, <4>2 DEF ReadOnlyIn
      <4> QED
        BY <4>1, <4>2
    <3>2. \A i \in 1 .. Len(q) : Untouchable(SubSeq(q, 1, i))
      BY <2>5, <3>1, ReadOnlyWay
    <3>3. Untouchable(Resolve(h, q))
      BY <1>2, <2>5, <3>1, ResolvesToPath, ReadOnlyBase
    <3>4. Node(v, q) = Node(h, q)
      BY <1>2, <1>3, <3>2, <3>3, SeenUntouched
    <3> QED
      BY <2>3, <3>4
  <2> QED
    BY <2>4, <2>5
<1> QED
  BY <1>7, <1>8

\* A step that changes the host is a change of a command.
LEMMA HostChanges ==
    ASSUME FilesInv, [Next]_vars, world'.host # world.host
    PROVE  \E e \in Execs : StepOf(e) /\ Changing(e)
<1>1. Shaped(world) /\ DOMAIN execs = Execs
  BY DEF FilesInv
<1>2. ASSUME NEW e \in Execs
      PROVE  Placed(execs[e], Commands[e])
  BY DEF FilesInv, ExecInv
<1>3. ASSUME NEW e \in Execs,
             \/ Start(e) \/ DoRequire(e) \/ DoAllowed(e) \/ DoPreflight(e) \/ DoRead(e) \/ DoLook(e)
             \/ DoUnique(e) \/ DoFits(e) \/ DoGroup(e) \/ DoProbe(e) \/ DoRefresh(e)
      PROVE  FALSE
  <2>1. CASE Start(e)
    BY <2>1 DEF Start
  <2>2. CASE DoProbe(e)
    BY <1>1, <1>2, <2>2, ProbeMoves
  <2>3. CASE DoRefresh(e)
    BY <1>1, <1>2, <2>3, RefreshMoves
  <2>4. CASE \/ DoRequire(e) \/ DoAllowed(e) \/ DoPreflight(e) \/ DoRead(e) \/ DoLook(e)
             \/ DoUnique(e) \/ DoFits(e) \/ DoGroup(e)
    BY <1>1, <1>2, <2>4, ReadsMove
  <2> QED
    BY <1>3, <2>1, <2>2, <2>3, <2>4
<1>4. ASSUME NEW m \in Mounts, Flip(m)
      PROVE  FALSE
  BY <1>1, <1>4 DEF Flip, Shaped
<1>5. CASE UNCHANGED vars
  BY <1>5 DEF vars
<1>6. ASSUME NEW e \in Execs, DoCall(e) \/ DoMountBatch(e) \/ DoFsBatch(e)
      PROVE  StepOf(e) /\ Changing(e)
  <2>1. CASE DoCall(e)
    BY <1>1, <1>2, <2>1, CallMoves
  <2>2. CASE DoMountBatch(e)
    BY <1>1, <1>2, <2>2, MountBatchMoves
  <2>3. CASE DoFsBatch(e)
    BY <1>1, <1>2, <2>3, FsBatchMoves
  <2> QED
    BY <1>6, <2>1, <2>2, <2>3
<1> QED
  BY <1>3, <1>4, <1>5, <1>6 DEF Next

\* No step changes what is described as read only, on any path.
LEMMA ReadOnlyStep ==
    ASSUME FilesInv, FilesInv', [Next]_vars, world'.host # world.host, ZonesApart,
           NEW p \in Paths, SaysReadOnly(world, p)
    PROVE  View(world', p) = View(world, p)
<1>1. PICK e \in Execs : StepOf(e) /\ Changing(e)
  BY HostChanges
<1> DEFINE x == execs[e]
<1>2. world'.adapter = world.adapter
  BY <1>1, WorldStays
<1>3. WellFormed(x.cmd) /\ world.allowWrite
  <2>1. x.code = "run" /\ ExecInv(x, Commands[e], world.allowWrite)
    BY <1>1 DEF StepOf, OnlyMoves, Running, FilesInv
  <2>2. WellFormed(x.cmd) /\ Fitting(x.cmd, CallAt(x), x.at)
    BY <2>1, AtCall, CommandsAssumption DEF ExecInv
  <2>3. x.cmd.name \in Writers /\ x.at > AllowedAt(x.cmd)
    BY <1>1, <2>2 DEF Changing, Fitting
  <2> QED
    BY <2>1, <2>2, <2>3 DEF ExecInv, Cleared
<1>4. OnAgent(world)
  BY <1>3, LocalNotReadOnly
<1>5. ReadOnlyIn(world.host, p)
  BY <1>3, <1>4, AgentReadOnly
<1>6. DirsStay(world.host, world'.host)
  <2>1. Leaves(world, world', x.cmd)
    BY <1>1 DEF StepOf
  <2>2. PICK op, fault : OpOf(x.cmd, op) /\ world' = FsApply(world, op, fault).world
    BY <2>1 DEF Leaves, MountsOnly
  <2>3. PICK h : h = world.host
    OBVIOUS
  <2>t. PICK torn \in BOOLEAN : torn = (fault = "torn")
    OBVIOUS
  <2>4. fault # "fails"
    BY <2>2 DEF FsApply, Failed
  <2>5. world'.host = AgentApply(h, op, torn).host
    BY <1>4, <2>2, <2>3, <2>t, <2>4 DEF FsApply, WithHost, FilesInv, Shaped
  <2>6. op.kind \in Kinds /\ op.path \in Paths
    BY <1>3, <2>2, PathsOf DEF OpOf
  <2>7. LinksGood(h) /\ \A z \in Zones : z.writable => RootGood(h, z.base)
    BY <1>4, <2>3, KeptLinksGood DEF FilesInv, RootsKept, ActiveRoots
  <2> QED
    BY <2>3, <2>5, <2>6, <2>7, AgentSafe DEF Safe
<1>7. HostNode(world', p) = HostNode(world, p)
  BY <1>2, <1>4, <1>5, <1>6, SeenReadOnly
<1> QED
  BY <1>7 DEF SaysReadOnly, View

\* For any trees, mounts, commands and interleavings, and for zones that are apart, what
\* ls and describe call read only is not changed: not by a path of a writable zone that
\* leads there through a link, not under a mount that comes or goes
\* (filespace_core.go:337).
THEOREM ReadOnlyKept ==
    ASSUME ZonesApart
    PROVE  Spec => ReadOnlyHolds
<1>1. FilesInv /\ FilesInv' /\ [Next]_vars =>
        [world'.host # world.host => \A p \in DOMAIN InitialHost :
           SaysReadOnly(world, p) => View(world, p)' = View(world, p)]_vars
  <2>1. SUFFICES ASSUME FilesInv, FilesInv', [Next]_vars, world'.host # world.host,
                        NEW p \in DOMAIN InitialHost, SaysReadOnly(world, p)
                 PROVE  View(world, p)' = View(world, p)
    OBVIOUS
  <2>2. p \in Paths
    BY TreesAssumption DEF Paths
  <2>3. View(world', p) = View(world, p)
    BY <2>1, <2>2, ReadOnlyStep
  <2> QED
    BY <2>3
<1> QED
  BY <1>1, FilesInvHolds, PTL DEF Spec, ReadOnlyHolds
=============================================================================
