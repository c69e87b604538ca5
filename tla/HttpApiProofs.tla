--------------------------- MODULE HttpApiProofs ---------------------------
(***************************************************************************)
(* Theorems about the HTTP service, for any connections, sessions, trees,  *)
(* mounts and policies: answers say what was done, their metadata offers   *)
(* no write that is forbidden, and the host changes only by a request that *)
(* may write (HttpInv), whatever a word that is a script does.             *)
(***************************************************************************)
EXTENDS HttpApi, SequenceTheorems, TLAPS

\* The fields of a handler.
HandlerFields == {"stage", "ask", "policy", "exec", "ran", "stopped", "gone", "todo",
                  "rows", "code", "seen"}

\* The requests of all connections, and the one of a connection that sent none.
Sendable == {Request} \cup UNION {Asks[c] : c \in Conns}

\* What is a function of what, and what a handler is.
Shaped ==
    /\ DOMAIN conn = Conns
    /\ DOMAIN phase = Sessions /\ DOMAIN shown = Sessions /\ DOMAIN status = Sessions
    /\ DOMAIN ceiling = Sessions /\ DOMAIN holder = Sessions
    /\ \A c \in Conns : /\ DOMAIN conn[c] = HandlerFields
                        /\ conn[c].ask \in Sendable
                        /\ conn[c].todo \subseteq Seq(STRING)

\* Until its command runs a handler has begun, found and decided nothing.
Early(c) ==
    conn[c].stage \in {"idle", "decode", "lookup", "wait", "locked", "start"} =>
        /\ conn[c].exec = 0 /\ ~conn[c].ran /\ ~conn[c].stopped /\ conn[c].rows = {}

\* A command that was run is told about, and no other.
Told(c) ==
    /\ At(c, "done") /\ conn[c].code \in 400 .. 409 => conn[c].exec = 0 /\ ~conn[c].ran
    /\ At(c, "done") /\ conn[c].code = 200 /\ Ask(c).cmd # Blank => conn[c].ran
    /\ conn[c].stage \in {"finish", "meta", "describe"} => conn[c].ran
    /\ conn[c].stage \in {"meta", "describe"} => conn[c].code = 200
    /\ At(c, "describe") => conn[c].todo # {}

\* A handler between the acquisition of executeMu and its release holds it.
Holds(c) ==
    /\ At(c, "start") => Ask(c).route \in {"create", "execute"}
    /\ At(c, "wait") \/ At(c, "locked") => Sid(c) # NoSession
    /\ (\/ At(c, "locked") \/ At(c, "running") \/ At(c, "finish")
        \/ At(c, "start") /\ Ask(c).route = "execute") /\ Sid(c) # NoSession
           => holder[Sid(c)] = c

\* A session shows the execution of the command that runs on it.
Shows(c) == At(c, "running") /\ Sid(c) # NoSession => shown[Sid(c)] = conn[c].exec

\* A command is stopped by its client's leaving or by a cancel that was answered.
Stops(c) == conn[c].stopped => conn[c].gone \/ conn[c].exec \in acked

\* An execution being stopped was named by a cancel that was answered.
Canceled == \A s \in Sessions : status[s] = "canceling" => shown[s] \in acked

\* The policy of a handler allows no write that its request may not make, and
\* the session that let it be in force exists.
Bounded(c) ==
    P!AllowWrite(conn[c].policy) =>
        MayWrite(c) /\ (Sid(c) # NoSession => phase[Sid(c)] # "absent")

\* A row that offers a write.
Offers(row) == row.access = "rw" \/ row.caps \cap WriteCapabilities # {}

\* The rows of an answer offer no write that the policy in force forbids, but for those
\* that a script printed.
Bears(c, row) ==
    Offers(row) => P!AllowWrite(conn[c].policy) \/ row.path \in DOMAIN Scripts
Shown(c) == \A row \in conn[c].rows : Bears(c, row)

\* What holds of one handler, and of all.
HandlerInv(c) ==
    /\ Early(c) /\ Told(c) /\ Holds(c) /\ Shows(c) /\ Stops(c) /\ Bounded(c) /\ Shown(c)

HttpInv == Shaped /\ Canceled /\ \A c \in Conns : HandlerInv(c)

\* What each request that can be sent satisfies.
LEMMA SendableIs ==
    ASSUME NEW ask \in Sendable
    PROVE  /\ ask.route \in Routes /\ ask.policy \in PolicyNames
           /\ ask.id \in Sessions \cup {NoSession}
           /\ ask.cmd # Blank => ask.route = "execute"
           /\ ask.cmd.paths \subseteq Seq(STRING)
           /\ NoSession \notin Sessions
<1>1. CASE ask = Request
  BY <1>1, RequestsAssumption DEF Request, Routes, PolicyNames, Blank
<1>2. CASE \E c \in Conns : ask \in Asks[c]
  BY <1>2, RequestsAssumption DEF Requests, Carries
<1> QED
  BY <1>1, <1>2 DEF Sendable

\* A policy that is admitted under a ceiling lets a write pass only if the ceiling
\* does and, where the request names a policy, the one it names does.
LEMMA Narrower ==
    ASSUME NEW name \in PolicyNames, NEW ceil,
           P!Admitted(RequestedPolicy(name), ceil),
           P!AllowWrite(P!EffectivePolicy(RequestedPolicy(name), ceil))
    PROVE  P!AllowWrite(ceil) /\ (name # "" => P!AllowWrite(P!PolicyPreset(name)))
<1> DEFINE req == RequestedPolicy(name)
           lim == P!CeilingInForce(ceil)
           eff == P!EffectivePolicy(req, ceil)
<1>1. eff.mode = IF req.mode = P!Unset THEN lim.mode ELSE req.mode
  BY DEF P!EffectivePolicy, P!WithInheritedUnset
<1>2. P!writeModeRank(eff.mode) <= P!writeModeRank(lim.mode)
  BY DEF P!Admitted, P!PolicyWithinCeiling
<1>3. eff.mode \in {"full", "write-limited"}
  BY DEF P!AllowWrite
<1>4. P!writeModeRank(eff.mode) \in {2, 3}
  BY <1>3 DEF P!writeModeRank
<1>5. lim.mode \in {"full", "write-limited"}
  BY <1>2, <1>4 DEF P!writeModeRank
<1>6. lim = ceil
  BY <1>5 DEF P!CeilingInForce, P!DefaultPolicy
<1>7. ASSUME name # ""
      PROVE  P!AllowWrite(P!PolicyPreset(name))
  <2>1. req = P!PolicyPreset(name)
    BY <1>7 DEF RequestedPolicy
  <2>2. req.mode = name
    BY <2>1 DEF P!PolicyPreset, P!DefaultPolicy
  <2>3. name # P!Unset
    BY DEF PolicyNames, P!Unset
  <2> QED
    BY <2>1, <2>2, <2>3, <1>1, <1>3 DEF P!AllowWrite
<1> QED
  BY <1>5, <1>6, <1>7 DEF P!AllowWrite

-----------------------------------------------------------------------------
(***************************************************************************)
(* The rows of an answer.                                                  *)
(***************************************************************************)

\* What is stripped of write capabilities has none.
LEMMA Stripped ==
    ASSUME NEW caps
    PROVE  StripWriteCapabilities(caps) \cap WriteCapabilities = {}
  BY DEF StripWriteCapabilities, NormalizePathCapabilities, WriteCapabilities

\* A row that is filled in as read only offers no write.
LEMMA ReadOnlyRow ==
    ASSUME NEW p, NEW known, NEW meta, NEW access, access = "ro"
    PROVE  ~Offers(Row(p, known, Filled(meta, access)))
<1> DEFINE caps == IF meta.caps = {} THEN DefaultCapabilities(meta.dir) ELSE meta.caps
           m == [dir |-> meta.dir, access |-> "ro", caps |-> StripWriteCapabilities(caps)]
<1>1. Filled(meta, access) = m
  BY DEF Filled
<1>2. m.access = "ro" /\ m.caps \cap WriteCapabilities = {}
  BY Stripped
<1> HIDE DEF m
<1>3. Row(p, known, m).access = m.access /\ Row(p, known, m).caps = m.caps
  BY DEF Row
<1> QED
  BY <1>1, <1>2, <1>3 DEF Offers

\* Whatever describes a path gives all four fields.
LEMMA DescriptionFields ==
    ASSUME NEW w, NEW p
    PROVE  DOMAIN EntryMeta(w, p) = {"err", "dir", "access", "caps"}
<1>1. \A kind, access : DOMAIN MountMeta(kind, access) = {"err", "dir", "access", "caps"}
  BY DEF MountMeta
<1>2. \A isDir, read, access, writes :
        DOMAIN Description(isDir, read, access, writes) = {"err", "dir", "access", "caps"}
  BY DEF Description
<1>3. DOMAIN ZoneDescribe(w.host, p) = {"err", "dir", "access", "caps"}
  BY <1>2 DEF ZoneDescribe, ZoneDescription
<1>4. DOMAIN LocalDescribe(w.host, p) = {"err", "dir", "access", "caps"}
  BY <1>2 DEF LocalDescribe, LocalDescription
<1>5. CASE IsActive(w, p)
  BY <1>1, <1>5 DEF EntryMeta
<1>6. CASE ~IsActive(w, p) /\ IsSyntheticDir(w, p)
  BY <1>6 DEF EntryMeta
<1>7. CASE ~IsActive(w, p) /\ ~IsSyntheticDir(w, p)
  BY <1>3, <1>4, <1>7 DEF EntryMeta
<1> QED
  BY <1>5, <1>6, <1>7

\* Under a policy that forbids writes a description is read only.
LEMMA ReadOnlyMeta ==
    ASSUME NEW w, ~w.allowWrite, NEW p
    PROVE  DescribePath(w, p).access = "ro"
<1> DEFINE meta == EntryMeta(w, p)
<1>1. DOMAIN meta = {"err", "dir", "access", "caps"}
  BY DescriptionFields
<1> HIDE DEF meta
<1>2. WithPathAccessPolicy(w, meta).access = "ro"
  BY <1>1 DEF WithPathAccessPolicy
<1> QED
  BY <1>2 DEF DescribePath, meta

\* Neither the row of a path that is listed for itself offers a write then, ...
LEMMA ReadOnlyTarget ==
    ASSUME NEW w, w.allowWrite = FALSE, NEW p
    PROVE  ~Offers(BuildLongRow(w, p))
<1> DEFINE meta == DescribePath(w, p)
<1>1. meta.access = "ro"
  BY ReadOnlyMeta
<1> HIDE DEF meta
<1>2. DefaultAccess(meta.access, FALSE) = "ro"
  BY <1>1 DEF DefaultAccess, NormalizePathAccess
<1>3. ~Offers(Row(p, TRUE, Filled(meta, DefaultAccess(meta.access, FALSE))))
  BY <1>2, ReadOnlyRow
<1>4. ~Offers(Row(p, FALSE, Unknown))
  BY DEF Offers, Row, Unknown, WriteCapabilities
<1>5. ~Offers(LongRow(p, meta, FALSE))
  BY <1>3, <1>4 DEF LongRow
<1> QED
  BY <1>5 DEF BuildLongRow, meta

\* ... nor that of a child of the file system.
LEMMA ReadOnlyChild ==
    ASSUME NEW w, ~w.allowWrite, NEW p
    PROVE  ~Offers(EntryToLongRow(w, ChildEntry(w, p)))
<1> DEFINE meta == DescribePath(w, p)
           entry == EntryOf(p, meta, IsDirPath(w, p))
<1>1. meta.access = "ro"
  BY ReadOnlyMeta
<1>2. entry.meta.access = "ro"
  BY <1>1 DEF EntryOf, Entry, Unknown, Undescribed
<1> HIDE DEF entry
<1>3. NormalizePathAccess(entry.meta.access) = "ro"
  BY <1>2 DEF NormalizePathAccess
<1>4. ~Offers(EntryToLongRow(w, entry))
  BY <1>3, ReadOnlyRow DEF EntryToLongRow
<1> QED
  BY <1>4 DEF ChildEntry, entry

\* What the router lists below a path is not the path.
LEMMA ListedBelow ==
    ASSUME NEW w, NEW p \in Seq(STRING), NEW q \in ListEntries(w, p).paths
    PROVE  q # p
<1> USE RequestsAssumption
<1>1. CASE IsActive(w, p)
  <2> DEFINE m == MountOf(p)
  <2>1. q \in ListMount(w, m, p).paths
    BY <1>1 DEF ListEntries
  <2>2. q \in MountEntries(w, m, p, FALSE)
    BY <2>1 DEF ListMount, Answer, NoAnswer
  <2>3. Below(p, q)
    BY <2>2 DEF MountEntries
  <2> QED
    BY <2>3 DEF Below
<1>2. CASE ~IsActive(w, p)
  <2>1. q \in SyntheticChildren(w, p)
    BY <1>2 DEF ListEntries, WithEntries, NoAnswer, Answer
  <2>2. PICK m \in Mounts : Below(p, m.point) /\ q = SubSeq(m.point, 1, Len(p) + 1)
    BY <2>1 DEF SyntheticChildren, ActiveMounts
  <2>3. m.point \in Seq(STRING) /\ Len(p) + 1 <= Len(m.point)
    BY <2>2 DEF Below
  <2>4. Len(q) = Len(p) + 1
    BY <2>2, <2>3
  <2> QED
    BY <2>4
<1> QED
  BY <1>1, <1>2

\* The row of ls that a path which cannot be described gets offers no write either:
\* among the rows of its directory the entries of a mount, which the policy is not
\* asked about, name other paths.
LEMMA ReadOnlyViaLS ==
    ASSUME NEW w, w.allowWrite = FALSE, NEW p \in Seq(STRING),
           NEW row \in DescribePathMetaViaLS(w, p)
    PROVE  ~Offers(row)
<1> DEFINE listed == ListDirectoryEntries(w, p)
           isDir == IsDirPath(w, p)
<1>1. row \in LSTarget(w, p, TRUE, isDir, listed).rows /\ row.path = p
  BY DEF DescribePathMetaViaLS, RunLSTarget
<1>2. CASE row \in {BuildLongRow(w, p), BuildLongRow(w, Parent(p))}
  BY <1>2, ReadOnlyTarget
<1>3. CASE \E entry \in listed.entries : row = EntryToLongRow(w, entry)
  <2>1. PICK entry \in listed.entries : row = EntryToLongRow(w, entry)
    BY <1>3
  <2> DEFINE routed == RouterAnswers(w, p)
             children == ListChildren(w, p)
  <2>2. PICK q \in children.paths :
          entry = IF routed THEN Entry("ok", q, EntryMeta(w, q)) ELSE ChildEntry(w, q)
    <3>1. entry \in EntriesOf(w, routed, children).entries
      BY <2>1 DEF ListDirectoryEntries
    <3> HIDE DEF routed, children
    <3> QED
      BY <3>1 DEF EntriesOf, AllEntries
  <2>3. CASE routed
    <3>1. entry.path = q
      BY <2>2, <2>3 DEF Entry
    <3>2. row.path = q
      BY <2>1, <3>1 DEF EntryToLongRow, Row
    <3>3. q \in ListEntries(w, p).paths
      BY <2>2, <2>3 DEF ListChildren
    <3> QED
      BY <1>1, <3>2, <3>3, ListedBelow
  <2>4. CASE ~routed
    BY <2>1, <2>2, <2>4, ReadOnlyChild
  <2> QED
    BY <2>3, <2>4
<1>4. row \in {BuildLongRow(w, p), BuildLongRow(w, Parent(p))}
        \/ \E entry \in listed.entries : row = EntryToLongRow(w, entry)
  <2> HIDE DEF listed, isDir
  <2>1. CASE ~Ok(isDir.err)
    BY <1>1, <2>1 DEF LSTarget
  <2>2. CASE Ok(isDir.err) /\ ~isDir.dir
    BY <1>1, <2>2 DEF LSTarget
  <2>3. CASE Ok(isDir.err) /\ isDir.dir
    BY <1>1, <2>3 DEF LSTarget, RenderLSOutput
  <2> QED
    BY <2>1, <2>2, <2>3
<1> QED
  BY <1>2, <1>3, <1>4

\* Nor does the metadata of a path that can be described.
LEMMA ReadOnlyDescribed ==
    ASSUME NEW w, ~w.allowWrite, NEW p, NEW meta
    PROVE  ~Offers(DescribePathMeta(w, p, meta))
  BY ReadOnlyRow DEF DescribePathMeta
-----------------------------------------------------------------------------
(***************************************************************************)
(* The steps of handlers.                                                  *)
(***************************************************************************)

\* A step of one connection.
Acts(c) == Handle(c) \/ Call(c) \/ Hangup(c) \/ \E ask \in Asks[c] : Send(c, ask)

\* What the step of one handler leaves to the others: their requests, the sessions
\* there are and their ceilings, the locks they hold, what a session shows while
\* they hold it, and the cancels that were answered.
Framed(c) ==
    /\ DOMAIN conn' = Conns
    /\ DOMAIN phase' = Sessions /\ DOMAIN shown' = Sessions /\ DOMAIN status' = Sessions
    /\ DOMAIN ceiling' = Sessions /\ DOMAIN holder' = Sessions
    /\ \A d \in Conns \ {c} : conn'[d] = conn[d]
    /\ \A s \in Sessions :
         /\ phase[s] # "absent" => phase'[s] # "absent" /\ ceiling'[s] = ceiling[s]
         /\ holder'[s] = holder[s] \/ holder[s] \in {Nobody, c}
         /\ shown'[s] = shown[s] \/ holder[s] = c
    /\ acked \subseteq acked'

\* Every step of a connection keeps to this.
LEMMA StepFramed ==
    ASSUME HttpInv, NEW c \in Conns, Acts(c)
    PROVE  Framed(c)
<1> USE DEF Framed, NoEffect, lifeVars, At
<1>1. Shaped /\ HandlerInv(c)
  BY DEF HttpInv
<1>2. DOMAIN conn = Conns /\ DOMAIN conn[c] = HandlerFields /\ Ask(c) \in Sendable
  BY <1>1 DEF Shaped, Ask
<1>3. Sid(c) \in Sessions \cup {NoSession} /\ NoSession \notin Sessions
  BY <1>2, SendableIs DEF Sid
<1>4. DOMAIN phase = Sessions /\ DOMAIN shown = Sessions /\ DOMAIN status = Sessions
        /\ DOMAIN ceiling = Sessions /\ DOMAIN holder = Sessions
  BY <1>1 DEF Shaped
<1>5. /\ At(c, "wait") \/ At(c, "locked") => Sid(c) # NoSession
      /\ (\/ At(c, "locked") \/ At(c, "running") \/ At(c, "finish")
          \/ At(c, "start") /\ Ask(c).route = "execute") /\ Sid(c) # NoSession
           => holder[Sid(c)] = c
  BY <1>1 DEF HandlerInv, Holds
<1>6. CASE Decode(c)
  BY <1>2, <1>3, <1>4, <1>5, <1>6 DEF Decode, OnlyConn, Answers, Goes
<1>7. CASE Lookup(c)
  BY <1>2, <1>3, <1>4, <1>5, <1>7 DEF Lookup, OnlyConn, Answers, Goes, Found
<1>8. CASE Get(c)
  BY <1>2, <1>3, <1>4, <1>5, <1>8 DEF Get, OnlyConn
<1>9. CASE Create(c)
  BY <1>2, <1>3, <1>4, <1>5, <1>9 DEF Create, NewFails, Answers, Life!Appear
<1>10. CASE Cancel(c)
  BY <1>2, <1>3, <1>4, <1>5, <1>10 DEF Cancel, Answers, Life!AskToStop
<1>11. CASE Acquire(c)
  BY <1>2, <1>3, <1>4, <1>5, <1>11 DEF Acquire, Goes
<1>12. CASE Closed(c)
  BY <1>2, <1>3, <1>4, <1>5, <1>12 DEF Closed, Answers, Unlocked
<1>13. CASE Checkpoint(c)
  BY <1>2, <1>3, <1>4, <1>5, <1>13 DEF Checkpoint, Answers, Unlocked
<1>14. CASE Close(c)
  BY <1>2, <1>3, <1>4, <1>5, <1>14 DEF Close, Answers, Unlocked, Life!Shut
<1>15. CASE Resume(c)
  BY <1>2, <1>3, <1>4, <1>5, <1>15 DEF Resume, Answers, Unlocked, NewFails, Life!Reopen
<1>16. CASE Admit(c)
  BY <1>2, <1>3, <1>4, <1>5, <1>16 DEF Admit, Answers, Unlocked, NewFails
<1>17. CASE Begin(c)
  BY <1>2, <1>3, <1>4, <1>5, <1>17 DEF Begin, Life!Begin
<1>18. CASE BeginAlone(c)
  BY <1>2, <1>3, <1>4, <1>5, <1>18 DEF BeginAlone, NewFails, Answers
<1>19. CASE Finish(c)
  BY <1>2, <1>3, <1>4, <1>5, <1>19 DEF Finish, Life!Leave, Unlocked, NewFails, Answers, Executed
<1>20. CASE FinishAlone(c)
  BY <1>2, <1>3, <1>4, <1>5, <1>20 DEF FinishAlone, OnlyConn, Executed
<1>21. CASE Respond(c)
  BY <1>2, <1>3, <1>4, <1>5, <1>21 DEF Respond, OnlyConn, Goes
<1>22. CASE Run(c)
  BY <1>2, <1>3, <1>4, <1>5, <1>22 DEF Run
<1>23. CASE Describe(c)
  BY <1>2, <1>3, <1>4, <1>5, <1>23 DEF Describe, OnlyConn, WithRows
<1>24. CASE DescribeViaLS(c)
  BY <1>2, <1>3, <1>4, <1>5, <1>24 DEF DescribeViaLS, WithRows
<1>25. CASE Hangup(c)
  BY <1>2, <1>3, <1>4, <1>5, <1>25 DEF Hangup, OnlyConn
<1>26. CASE \E ask \in Asks[c] : Send(c, ask)
  BY <1>2, <1>3, <1>4, <1>26 DEF Send
<1> QED
  BY <1>6, <1>7, <1>8, <1>9, <1>10, <1>11, <1>12, <1>13, <1>14, <1>15, <1>16, <1>17, <1>18, <1>19, <1>20, <1>21, <1>22, <1>23, <1>24, <1>25, <1>26 DEF Acts, Handle, Call

\* A policy that is not named allows no write.
LEMMA NoRequestForbids == ~P!AllowWrite(P!NoRequest)
  BY DEF P!AllowWrite, P!NoRequest, P!Unset

\* What every proof about a handler starts from.
LEMMA HandlerFacts ==
    ASSUME HttpInv, NEW c \in Conns
    PROVE  /\ DOMAIN conn = Conns /\ DOMAIN conn[c] = HandlerFields
           /\ conn[c].ask \in Sendable /\ conn[c].todo \subseteq Seq(STRING)
           /\ conn[c].ask.id \in Sessions \cup {NoSession} /\ NoSession \notin Sessions
           /\ conn[c].ask.cmd # Blank => conn[c].ask.route = "execute"
           /\ conn[c].ask.cmd.paths \subseteq Seq(STRING)
           /\ conn[c].ask.policy \in PolicyNames /\ conn[c].ask.route \in Routes
           /\ DOMAIN phase = Sessions /\ DOMAIN shown = Sessions
           /\ DOMAIN status = Sessions /\ DOMAIN ceiling = Sessions
           /\ DOMAIN holder = Sessions
           /\ Canceled
           /\ Early(c) /\ Told(c) /\ Holds(c) /\ Shows(c) /\ Stops(c) /\ Bounded(c) /\ Shown(c)
<1>1. Shaped /\ Canceled /\ HandlerInv(c)
  BY DEF HttpInv
<1>2. conn[c].ask \in Sendable
  BY <1>1 DEF Shaped
<1> QED
  BY <1>1, <1>2, SendableIs DEF Shaped, HandlerInv

\* The stages before the command runs.
Early0 == {"idle", "decode", "lookup", "wait", "locked", "start"}

\* A step that leaves the request of a handler, and what was done for it, alone.
Moved(c) ==
    /\ DOMAIN conn'[c] = HandlerFields
    /\ conn'[c].ask = conn[c].ask /\ conn'[c].policy = conn[c].policy
    /\ conn'[c].exec = conn[c].exec /\ conn'[c].ran = conn[c].ran
    /\ conn'[c].stopped = conn[c].stopped /\ conn'[c].gone = conn[c].gone
    /\ conn'[c].todo = conn[c].todo /\ conn'[c].rows = conn[c].rows

\* The handler and what is kept of its type.
Kept(c) ==
    /\ DOMAIN conn'[c] = HandlerFields /\ conn'[c].ask \in Sendable
    /\ conn'[c].todo \subseteq Seq(STRING)
    /\ HandlerInv(c)'

\* Whatever a handler may write it may write after a step that keeps its request.
LEMMA MayWriteKept ==
    ASSUME HttpInv, NEW c \in Conns, Framed(c), conn'[c].ask = conn[c].ask,
           conn'[c].policy = conn[c].policy
    PROVE  Bounded(c)'
<1>1. HttpInv /\ Bounded(c) /\ conn[c].ask.id \in Sessions \cup {NoSession}
  BY HandlerFacts
<1> QED
  BY <1>1 DEF Bounded, MayWrite, Ask, Sid, Framed

\* The steps before the command, of requests that do not get as far.
LEMMA MovedEarly ==
    ASSUME HttpInv, NEW c \in Conns, Framed(c), Moved(c),
           conn[c].stage \in Early0,
           conn'[c].stage \in {"lookup", "wait", "locked", "start", "done"},
           conn'[c].stage = "done" /\ conn'[c].code = 200 => conn[c].ask.cmd = Blank,
           conn'[c].stage = "start" =>
               \/ conn[c].ask.route = "create"
               \/ conn[c].ask.route = "execute" /\ conn[c].ask.id = NoSession,
           conn'[c].stage \in {"wait", "locked"} => conn[c].ask.id # NoSession,
           conn'[c].stage = "locked" => holder'[conn[c].ask.id] = c
    PROVE  Kept(c)
<1> USE DEF Moved, At, Ask, Sid
<1>1. Bounded(c)'
  BY MayWriteKept
<1>2. conn[c].exec = 0 /\ ~conn[c].ran /\ ~conn[c].stopped /\ conn[c].rows = {}
  BY HandlerFacts DEF Early, Early0
<1>3. Early(c)' /\ Told(c)' /\ Shows(c)' /\ Stops(c)' /\ Shown(c)'
  BY <1>2 DEF Early, Told, Shows, Stops, Shown
<1>4. Holds(c)'
  BY DEF Holds
<1>5. conn'[c].ask \in Sendable /\ conn'[c].todo \subseteq Seq(STRING)
  BY HandlerFacts
<1> QED
  BY <1>1, <1>3, <1>4, <1>5 DEF Kept, HandlerInv

\* Every step of a handler before its command is admitted.
LEMMA StepEarly ==
    ASSUME HttpInv, NEW c \in Conns, Framed(c),
           \/ Decode(c) \/ Lookup(c) \/ Get(c) \/ Create(c) \/ Cancel(c) \/ Acquire(c)
           \/ Closed(c) \/ Checkpoint(c) \/ Close(c) \/ Resume(c)
    PROVE  Kept(c)
<1> DEFINE Arrives == /\ Moved(c) /\ conn[c].stage \in Early0
                      /\ conn'[c].stage \in {"lookup", "wait", "locked", "start", "done"}
                      /\ conn'[c].stage = "done" /\ conn'[c].code = 200
                           => conn[c].ask.cmd = Blank
                      /\ conn'[c].stage = "start" =>
                           \/ conn[c].ask.route = "create"
                           \/ conn[c].ask.route = "execute" /\ conn[c].ask.id = NoSession
                      /\ conn'[c].stage \in {"wait", "locked"} => conn[c].ask.id # NoSession
                      /\ conn'[c].stage = "locked" => holder'[conn[c].ask.id] = c
<1>1. /\ DOMAIN conn = Conns /\ DOMAIN conn[c] = HandlerFields /\ DOMAIN holder = Sessions
      /\ conn[c].ask.id \in Sessions \cup {NoSession}
      /\ conn[c].ask.cmd # Blank => conn[c].ask.route = "execute"
      /\ conn[c].ask.route \in Routes /\ Holds(c)
  BY HandlerFacts
<1> USE DEF Moved, Early0, HandlerFields, At, Ask, Sid
<1>2. CASE Decode(c)
  <2>1. Arrives
    <3>1. Refusal(conn[c].ask) = 200 => conn[c].ask.cmd = Blank
      BY DEF Refusal
    <3>2. CASE Refusal(conn[c].ask) # 0
      <4>1. PICK code : code = Refusal(conn[c].ask) /\ Answers(c, code)
        BY <1>2, <3>2 DEF Decode
      <4> QED
        BY <1>1, <1>2, <3>1, <4>1 DEF Decode, Answers
    <3>3. CASE Refusal(conn[c].ask) = 0
      <4>1. PICK stage \in {"start", "lookup"} :
              /\ Goes(c, stage)
              /\ stage = "start" => \/ conn[c].ask.route = "create"
                                    \/ conn[c].ask.route = "execute" /\ conn[c].ask.id = NoSession
        BY <1>2, <3>3 DEF Decode
      <4> QED
        BY <1>1, <1>2, <4>1 DEF Decode, Goes
    <3> QED
      BY <3>2, <3>3
  <2> QED
    BY <2>1, MovedEarly
<1>3. CASE Lookup(c)
  <2>1. Arrives
    <3>1. CASE Found(c)
      BY <1>1, <1>3, <3>1 DEF Lookup, Goes, Found
    <3>2. CASE ~Found(c)
      <4>1. Answers(c, 404)
        BY <1>3, <3>2 DEF Lookup
      <4> QED
        BY <1>1, <1>3, <4>1 DEF Lookup, Answers
    <3> QED
      BY <3>1, <3>2
  <2> QED
    BY <2>1, MovedEarly
<1>4. CASE Get(c)
  <2>1. Arrives
    BY <1>1, <1>4 DEF Get, OnlyConn
  <2> QED
    BY <2>1, MovedEarly
<1>5. CASE Create(c)
  <2>1. Arrives
    <3>1. PICK code \in {200, 500} : Answers(c, code)
      BY <1>5 DEF Create, NewFails
    <3> QED
      BY <1>1, <1>5, <3>1 DEF Create, Answers
  <2> QED
    BY <2>1, MovedEarly
<1>6. CASE Cancel(c)
  <2>1. Arrives
    BY <1>1, <1>6 DEF Cancel, Answers
  <2> QED
    BY <2>1, MovedEarly
<1>7. CASE Acquire(c)
  <2>1. Arrives
    BY <1>1, <1>7 DEF Acquire, Goes, Holds
  <2> QED
    BY <2>1, MovedEarly
<1>8. CASE Closed(c)
  <2>1. Arrives
    BY <1>1, <1>8 DEF Closed, Answers
  <2> QED
    BY <2>1, MovedEarly
<1>9. CASE Checkpoint(c)
  <2>1. Arrives
    BY <1>1, <1>9 DEF Checkpoint, Answers
  <2> QED
    BY <2>1, MovedEarly
<1>10. CASE Close(c)
  <2>1. Arrives
    BY <1>1, <1>10 DEF Close, Answers
  <2> QED
    BY <2>1, MovedEarly
<1>11. CASE Resume(c)
  <2>1. Arrives
    <3>1. PICK code \in {200, 500} : Answers(c, code)
      BY <1>11 DEF Resume, NewFails
    <3> QED
      BY <1>1, <1>11, <3>1 DEF Resume, Answers
  <2> QED
    BY <2>1, MovedEarly
<1> QED
  BY <1>2, <1>3, <1>4, <1>5, <1>6, <1>7, <1>8, <1>9, <1>10, <1>11

\* The steps that put a policy in force and begin the execution.
LEMMA StepAdmitted ==
    ASSUME HttpInv, NEW c \in Conns, Framed(c), Admit(c) \/ Begin(c) \/ BeginAlone(c)
    PROVE  Kept(c)
<1>1. /\ DOMAIN conn = Conns /\ DOMAIN conn[c] = HandlerFields
      /\ DOMAIN holder = Sessions /\ DOMAIN shown = Sessions /\ DOMAIN ceiling = Sessions
      /\ conn[c].ask \in Sendable /\ conn[c].todo \subseteq Seq(STRING)
      /\ conn[c].ask.id \in Sessions \cup {NoSession} /\ NoSession \notin Sessions
      /\ conn[c].ask.policy \in PolicyNames
      /\ Early(c) /\ Holds(c)
  BY HandlerFacts
<1> USE DEF HandlerFields, At, Ask, Sid
<1>2. CASE Admit(c)
  <2>1. /\ conn[c].stage = "locked" /\ conn[c].ask.route = "execute"
        /\ conn[c].ask.id \in Sessions /\ phase[conn[c].ask.id] = "open"
        /\ UNCHANGED ceiling /\ UNCHANGED phase /\ UNCHANGED shown
    BY <1>1, <1>2 DEF Admit, Holds, lifeVars
  <2>2. CASE Answers(c, 500) \/ Answers(c, 400) \/ (Answers(c, 200) /\ conn[c].ask.cmd = Blank)
    <3>1. PICK code \in {200, 400, 500} :
            Answers(c, code) /\ (code = 200 => conn[c].ask.cmd = Blank)
      BY <2>2
    <3>2. /\ Moved(c) /\ conn[c].stage \in Early0 /\ conn'[c].stage = "done"
          /\ conn'[c].code = code
      BY <1>1, <2>1, <3>1 DEF Answers, Moved, Early0
    <3> QED
      BY <3>1, <3>2, MovedEarly
  <2>3. CASE /\ Admits(c) /\ UNCHANGED holder
             /\ conn' = [conn EXCEPT ![c] = [@ EXCEPT !.stage = "start", !.policy = PolicyFor(c)]]
    <3>1. PICK policy : policy = PolicyFor(c)
      OBVIOUS
    <3>2. /\ DOMAIN conn'[c] = HandlerFields
          /\ conn'[c].stage = "start" /\ conn'[c].policy = policy
          /\ conn'[c].ask = conn[c].ask /\ conn'[c].exec = conn[c].exec
          /\ conn'[c].ran = conn[c].ran /\ conn'[c].stopped = conn[c].stopped
          /\ conn'[c].todo = conn[c].todo /\ conn'[c].rows = conn[c].rows
      BY <1>1, <2>3, <3>1
    <3>3. P!AllowWrite(policy) =>
            /\ P!AllowWrite(ceiling[conn[c].ask.id])
            /\ conn[c].ask.policy # "" => P!AllowWrite(P!PolicyPreset(conn[c].ask.policy))
      BY <1>1, <2>3, <3>1, Narrower DEF PolicyFor, Admits
    <3>4. Bounded(c)'
      BY <1>1, <2>1, <3>2, <3>3 DEF Bounded, MayWrite
    <3>5. Holds(c)'
      BY <1>1, <2>1, <2>3, <3>2 DEF Holds
    <3>6. Early(c)' /\ Told(c)' /\ Shows(c)' /\ Stops(c)' /\ Shown(c)'
      BY <1>1, <2>1, <3>2 DEF Early, Told, Shows, Stops, Shown
    <3> QED
      BY <1>1, <3>2, <3>4, <3>5, <3>6 DEF Kept, HandlerInv
  <2> QED
    BY <1>2, <2>2, <2>3 DEF Admit, NewFails
<1>3. CASE Begin(c)
  <2>1. /\ conn[c].stage = "start" /\ conn[c].ask.route = "execute"
        /\ conn[c].ask.id \in Sessions /\ UNCHANGED holder
        /\ shown'[conn[c].ask.id] = issued + 1
    BY <1>1, <1>3 DEF Begin, Life!Begin
  <2>2. /\ DOMAIN conn'[c] = HandlerFields
        /\ conn'[c].stage = "running" /\ conn'[c].exec = issued + 1
        /\ conn'[c].ask = conn[c].ask /\ conn'[c].policy = conn[c].policy
        /\ conn'[c].ran = conn[c].ran /\ conn'[c].stopped = conn[c].stopped
        /\ conn'[c].todo = conn[c].todo /\ conn'[c].rows = conn[c].rows
    BY <1>1, <1>3 DEF Begin
  <2>3. Bounded(c)'
    BY <2>2, MayWriteKept
  <2>4. Holds(c)'
    BY <1>1, <2>1, <2>2 DEF Holds
  <2>5. Early(c)' /\ Told(c)' /\ Shows(c)' /\ Stops(c)' /\ Shown(c)'
    BY <1>1, <2>1, <2>2 DEF Early, Told, Shows, Stops, Shown
  <2> QED
    BY <1>1, <2>2, <2>3, <2>4, <2>5 DEF Kept, HandlerInv
<1>4. CASE BeginAlone(c)
  <2>1. conn[c].stage = "start" /\ conn[c].ask.id = NoSession
    BY <1>4 DEF BeginAlone
  <2>2. CASE NewFails(c, 500)
    <3>1. Moved(c) /\ conn[c].stage \in Early0 /\ conn'[c].stage = "done" /\ conn'[c].code = 500
      BY <1>1, <2>1, <2>2 DEF NewFails, Answers, Moved, Early0
    <3> QED
      BY <3>1, MovedEarly
  <2>3. CASE conn' = [conn EXCEPT ![c] = [@ EXCEPT !.stage = "running",
                                             !.policy = RequestPolicy(conn[c].ask.policy)]]
    <3>1. PICK policy : policy = RequestPolicy(conn[c].ask.policy)
      OBVIOUS
    <3>2. /\ DOMAIN conn'[c] = HandlerFields
          /\ conn'[c].stage = "running" /\ conn'[c].policy = policy
          /\ conn'[c].ask = conn[c].ask /\ conn'[c].exec = conn[c].exec
          /\ conn'[c].ran = conn[c].ran /\ conn'[c].stopped = conn[c].stopped
          /\ conn'[c].todo = conn[c].todo /\ conn'[c].rows = conn[c].rows
      BY <1>1, <2>3, <3>1
    <3>3. Bounded(c)'
      BY <2>1, <3>1, <3>2 DEF Bounded, MayWrite, RequestPolicy
    <3>4. Early(c)' /\ Told(c)' /\ Holds(c)' /\ Shows(c)' /\ Stops(c)' /\ Shown(c)'
      BY <1>1, <2>1, <3>2 DEF Early, Told, Holds, Shows, Stops, Shown
    <3> QED
      BY <1>1, <3>2, <3>3, <3>4 DEF Kept, HandlerInv
  <2> QED
    BY <1>4, <2>2, <2>3 DEF BeginAlone
<1> QED
  BY <1>2, <1>3, <1>4

\* The steps around the command itself.
LEMMA StepRan ==
    ASSUME HttpInv, NEW c \in Conns, Framed(c),
           Hangup(c) \/ Run(c) \/ Finish(c) \/ FinishAlone(c) \/ Respond(c)
    PROVE  Kept(c)
<1>1. /\ DOMAIN conn = Conns /\ DOMAIN conn[c] = HandlerFields
      /\ conn[c].ask \in Sendable /\ conn[c].todo \subseteq Seq(STRING)
      /\ conn[c].ask.id \in Sessions \cup {NoSession} /\ NoSession \notin Sessions
      /\ conn[c].ask.cmd.paths \subseteq Seq(STRING)
      /\ Canceled /\ Told(c) /\ Holds(c) /\ Shows(c) /\ Stops(c) /\ Shown(c)
  BY HandlerFacts
<1> USE DEF HandlerFields, At, Ask, Sid
<1>2. CASE Hangup(c)
  <2>1. /\ conn[c].stage = "running" /\ conn'[c].stage = "running"
        /\ DOMAIN conn'[c] = HandlerFields /\ conn'[c].gone = TRUE
        /\ conn'[c].ask = conn[c].ask /\ conn'[c].policy = conn[c].policy
        /\ conn'[c].exec = conn[c].exec /\ conn'[c].todo = conn[c].todo
        /\ conn'[c].rows = conn[c].rows
        /\ UNCHANGED holder /\ UNCHANGED shown
    BY <1>1, <1>2 DEF Hangup, OnlyConn, lifeVars
  <2>2. Bounded(c)'
    BY <2>1, MayWriteKept
  <2>3. Early(c)' /\ Told(c)' /\ Holds(c)' /\ Shows(c)' /\ Stops(c)' /\ Shown(c)'
    BY <1>1, <2>1 DEF Early, Told, Holds, Shows, Stops, Shown, Bears
  <2> QED
    BY <1>1, <2>1, <2>2, <2>3 DEF Kept, HandlerInv
<1>3. CASE Run(c)
  <2>1. PICK stopped \in {FALSE, Asked(c)} :
          conn' = [conn EXCEPT ![c] = [@ EXCEPT !.stage = "finish", !.ran = TRUE,
                                                !.stopped = stopped]]
    BY <1>3 DEF Run
  <2>2. /\ conn[c].stage = "running" /\ conn'[c].stage = "finish"
        /\ DOMAIN conn'[c] = HandlerFields /\ conn'[c].ran = TRUE
        /\ conn'[c].stopped = stopped /\ conn'[c].gone = conn[c].gone
        /\ conn'[c].ask = conn[c].ask /\ conn'[c].policy = conn[c].policy
        /\ conn'[c].exec = conn[c].exec /\ conn'[c].todo = conn[c].todo
        /\ conn'[c].rows = conn[c].rows
        /\ UNCHANGED holder /\ UNCHANGED acked
    BY <1>1, <1>3, <2>1 DEF Run
  <2>3. Bounded(c)'
    BY <2>2, MayWriteKept
  <2>4. Stops(c)'
    <3>1. stopped => conn[c].gone \/ (conn[c].ask.id # NoSession
                                      /\ status[conn[c].ask.id] = "canceling")
      BY DEF Asked
    <3> QED
      BY <1>1, <2>2, <3>1 DEF Stops, Shows, Canceled
  <2>5. Early(c)' /\ Told(c)' /\ Holds(c)' /\ Shows(c)' /\ Shown(c)'
    BY <1>1, <2>2 DEF Early, Told, Holds, Shows, Shown, Bears
  <2> QED
    BY <1>1, <2>2, <2>3, <2>4, <2>5 DEF Kept, HandlerInv
<1>4. ASSUME conn' = [conn EXCEPT ![c] = Executed(c)], conn[c].stage = "finish"
      PROVE  Kept(c)
  <2>1. PICK stage \in {"meta", "done"} :
          conn'[c] = [conn[c] EXCEPT !.stage = stage, !.code = 200, !.todo = conn[c].ask.cmd.paths]
    BY <1>1, <1>4 DEF Executed
  <2>2. /\ conn'[c].stage = stage /\ conn'[c].code = 200
        /\ conn'[c].todo = conn[c].ask.cmd.paths
        /\ DOMAIN conn'[c] = HandlerFields /\ conn'[c].ran = conn[c].ran
        /\ conn'[c].stopped = conn[c].stopped /\ conn'[c].gone = conn[c].gone
        /\ conn'[c].ask = conn[c].ask /\ conn'[c].policy = conn[c].policy
        /\ conn'[c].exec = conn[c].exec /\ conn'[c].rows = conn[c].rows
        /\ acked \subseteq acked'
    BY <1>1, <2>1 DEF Framed
  <2>3. Bounded(c)'
    BY <2>2, MayWriteKept
  <2>4. Told(c)'
    BY <1>1, <1>4, <2>2 DEF Told
  <2>5. Early(c)' /\ Holds(c)' /\ Shows(c)' /\ Stops(c)' /\ Shown(c)'
    BY <1>1, <2>2 DEF Early, Holds, Shows, Stops, Shown, Bears
  <2> QED
    BY <1>1, <2>2, <2>3, <2>4, <2>5 DEF Kept, HandlerInv
<1>5. ASSUME NEW code \in {200, 500}, conn[c].stage \in {"finish", "meta"},
             conn'[c] = [conn[c] EXCEPT !.stage = "done", !.code = code]
      PROVE  Kept(c)
  <2>1. /\ conn'[c].stage = "done" /\ conn'[c].code = code
        /\ DOMAIN conn'[c] = HandlerFields /\ conn'[c].ran = conn[c].ran
        /\ conn'[c].stopped = conn[c].stopped /\ conn'[c].gone = conn[c].gone
        /\ conn'[c].ask = conn[c].ask /\ conn'[c].policy = conn[c].policy
        /\ conn'[c].exec = conn[c].exec /\ conn'[c].rows = conn[c].rows
        /\ conn'[c].todo = conn[c].todo /\ acked \subseteq acked'
    BY <1>1, <1>5 DEF Framed
  <2>2. Bounded(c)'
    BY <2>1, MayWriteKept
  <2>3. Told(c)'
    BY <1>1, <1>5, <2>1 DEF Told
  <2>4. Early(c)' /\ Holds(c)' /\ Shows(c)' /\ Stops(c)' /\ Shown(c)'
    BY <1>1, <2>1 DEF Early, Holds, Shows, Stops, Shown, Bears
  <2> QED
    BY <1>1, <2>1, <2>2, <2>3, <2>4 DEF Kept, HandlerInv
<1>6. CASE Finish(c)
  <2>1. CASE conn' = [conn EXCEPT ![c] = Executed(c)]
    BY <1>4, <1>6, <2>1 DEF Finish
  <2>2. CASE NewFails(c, 500)
    <3>1. conn'[c] = [conn[c] EXCEPT !.stage = "done", !.code = 500]
      BY <1>1, <2>2 DEF NewFails, Answers
    <3> QED
      BY <1>5, <1>6, <3>1 DEF Finish
  <2> QED
    BY <1>6, <2>1, <2>2 DEF Finish
<1>7. CASE FinishAlone(c)
  BY <1>4, <1>7 DEF FinishAlone
<1>8. CASE Respond(c)
  <2>1. conn[c].stage = "meta" /\ conn[c].code = 200
    BY <1>1, <1>8 DEF Respond, Told
  <2>2. conn'[c] = [conn[c] EXCEPT !.stage = "done"]
    BY <1>1, <1>8 DEF Respond, Goes
  <2>3. /\ conn'[c].stage = "done" /\ conn'[c].code = 200
        /\ DOMAIN conn'[c] = HandlerFields /\ conn'[c].ran = conn[c].ran
        /\ conn'[c].stopped = conn[c].stopped /\ conn'[c].gone = conn[c].gone
        /\ conn'[c].ask = conn[c].ask /\ conn'[c].policy = conn[c].policy
        /\ conn'[c].exec = conn[c].exec /\ conn'[c].rows = conn[c].rows
        /\ conn'[c].todo = conn[c].todo /\ acked \subseteq acked'
    BY <1>1, <2>1, <2>2 DEF Framed
  <2>4. Bounded(c)'
    BY <2>3, MayWriteKept
  <2>5. Told(c)'
    BY <1>1, <2>1, <2>3 DEF Told
  <2>6. Early(c)' /\ Holds(c)' /\ Shows(c)' /\ Stops(c)' /\ Shown(c)'
    BY <1>1, <2>3 DEF Early, Holds, Shows, Stops, Shown, Bears
  <2> QED
    BY <1>1, <2>3, <2>4, <2>5, <2>6 DEF Kept, HandlerInv
<1> QED
  BY <1>2, <1>3, <1>6, <1>7, <1>8

\* The steps that collect metadata.
LEMMA StepDescribed ==
    ASSUME HttpInv, NEW c \in Conns, Framed(c), Describe(c) \/ DescribeViaLS(c)
    PROVE  Kept(c)
<1>1. /\ DOMAIN conn = Conns /\ DOMAIN conn[c] = HandlerFields
      /\ conn[c].ask \in Sendable /\ conn[c].todo \subseteq Seq(STRING)
      /\ Told(c) /\ Stops(c) /\ Shown(c)
  BY HandlerFacts
<1> USE DEF HandlerFields, At, Ask, Sid
<1>2. /\ conn[c].stage \in {"meta", "describe"} /\ conn[c].todo # {}
      /\ conn[c].ran /\ conn[c].code = 200
  BY <1>1 DEF Describe, DescribeViaLS, Told
<1>0. acked \subseteq acked'
  BY DEF Framed
<1>3. NextPath(c) \in Seq(STRING)
  <2>1. NextPath(c) \in conn[c].todo
    BY <1>2 DEF NextPath
  <2> QED
    BY <1>1, <2>1
<1>4. MetaWorld(c).allowWrite = P!AllowWrite(conn[c].policy)
  BY DEF MetaWorld, WorldOf
<1>5. ASSUME NEW rows, conn'[c] = WithRows(c, rows),
             \A row \in rows : Bears(c, row)
      PROVE  Kept(c)
  <2>1. /\ conn'[c].stage = "meta" /\ conn'[c].rows = conn[c].rows \cup rows
        /\ conn'[c].todo = conn[c].todo \ {NextPath(c)} /\ conn'[c].code = conn[c].code
        /\ DOMAIN conn'[c] = HandlerFields /\ conn'[c].ran = conn[c].ran
        /\ conn'[c].stopped = conn[c].stopped /\ conn'[c].gone = conn[c].gone
        /\ conn'[c].ask = conn[c].ask /\ conn'[c].policy = conn[c].policy
        /\ conn'[c].exec = conn[c].exec
    BY <1>1, <1>5 DEF WithRows
  <2>2. Bounded(c)'
    BY <2>1, MayWriteKept
  <2>3. Shown(c)'
    BY <1>1, <1>5, <2>1 DEF Shown, Bears
  <2>4. Told(c)'
    BY <1>2, <2>1 DEF Told
  <2>5. Early(c)' /\ Holds(c)' /\ Shows(c)' /\ Stops(c)'
    BY <1>0, <1>1, <2>1 DEF Early, Holds, Shows, Stops
  <2>6. conn'[c].todo \subseteq Seq(STRING)
    BY <1>1, <2>1
  <2> QED
    BY <1>1, <2>1, <2>2, <2>3, <2>4, <2>5, <2>6 DEF Kept, HandlerInv
<1>6. CASE Describe(c)
  <2>1. PICK meta :
          conn' = [conn EXCEPT ![c] =
                     IF Ok(meta.err)
                     THEN WithRows(c, {DescribePathMeta(MetaWorld(c), NextPath(c), meta)})
                     ELSE [@ EXCEPT !.stage = "describe"]]
    BY <1>6 DEF Describe
  <2>2. CASE Ok(meta.err)
    <3> DEFINE row == DescribePathMeta(MetaWorld(c), NextPath(c), meta)
    <3>1. Bears(c, row)
      <4>1. Offers(row) => P!AllowWrite(conn[c].policy)
        BY <1>4, ReadOnlyDescribed
      <4> QED
        BY <4>1 DEF Bears
    <3> HIDE DEF row
    <3>2. conn'[c] = WithRows(c, {row})
      BY <1>1, <2>1, <2>2 DEF row
    <3> QED
      BY <3>1, <3>2, <1>5
  <2>3. CASE ~Ok(meta.err)
    <3>1. conn'[c] = [conn[c] EXCEPT !.stage = "describe"]
      BY <1>1, <2>1, <2>3
    <3>2. /\ conn'[c].stage = "describe" /\ conn'[c].rows = conn[c].rows
          /\ conn'[c].todo = conn[c].todo /\ conn'[c].code = conn[c].code
          /\ DOMAIN conn'[c] = HandlerFields /\ conn'[c].ran = conn[c].ran
          /\ conn'[c].stopped = conn[c].stopped /\ conn'[c].gone = conn[c].gone
          /\ conn'[c].ask = conn[c].ask /\ conn'[c].policy = conn[c].policy
          /\ conn'[c].exec = conn[c].exec
      BY <1>1, <3>1
    <3>3. Bounded(c)'
      BY <3>2, MayWriteKept
    <3>4. Told(c)'
      BY <1>2, <3>2 DEF Told
    <3>5. Early(c)' /\ Holds(c)' /\ Shows(c)' /\ Stops(c)' /\ Shown(c)'
      BY <1>0, <1>1, <3>2 DEF Early, Holds, Shows, Stops, Shown, Bears
    <3> QED
      BY <1>1, <3>2, <3>3, <3>4, <3>5 DEF Kept, HandlerInv
  <2> QED
    BY <2>2, <2>3
<1>7. CASE DescribeViaLS(c) /\ NextPath(c) \notin DOMAIN Scripts
  <2>1. PICK rows : /\ rows = DescribePathMetaViaLS(MetaWorld(c), NextPath(c))
                    /\ conn' = [conn EXCEPT ![c] = WithRows(c, rows)]
    BY <1>7 DEF DescribeViaLS
  <2>2. \A row \in rows : Bears(c, row)
    <3>1. P!AllowWrite(conn[c].policy) \in BOOLEAN
      BY DEF P!AllowWrite
    <3>2. \A row \in rows : Offers(row) => P!AllowWrite(conn[c].policy)
      BY <1>3, <1>4, <2>1, <3>1, ReadOnlyViaLS
    <3> QED
      BY <3>2 DEF Bears
  <2>3. conn'[c] = WithRows(c, rows)
    BY <1>1, <2>1
  <2> QED
    BY <1>5, <2>2, <2>3
<1>8. CASE DescribeViaLS(c) /\ NextPath(c) \in DOMAIN Scripts
  <2>1. PICK rows \in {{}} \cup {{row} : row \in Claims(NextPath(c))} :
          conn' = [conn EXCEPT ![c] = WithRows(c, rows)]
    BY <1>8 DEF DescribeViaLS
  <2>2. \A row \in Claims(NextPath(c)) : row.path = NextPath(c)
    BY DEF Claims
  <2>3. \A row \in rows : Bears(c, row)
    BY <1>8, <2>1, <2>2 DEF Bears
  <2>4. conn'[c] = WithRows(c, rows)
    BY <1>1, <2>1
  <2> QED
    BY <1>5, <2>3, <2>4
<1> QED
  BY <1>6, <1>7, <1>8

\* A new request starts from nothing.
LEMMA StepSent ==
    ASSUME HttpInv, NEW c \in Conns, NEW ask \in Asks[c], Send(c, ask)
    PROVE  Kept(c)
<1>1. DOMAIN conn = Conns
  BY HandlerFacts
<1> USE DEF HandlerFields, At, Ask, Sid
<1>2. PICK seen : conn'[c] = [Quiet EXCEPT !.stage = "decode", !.ask = ask, !.seen = seen]
  BY <1>1 DEF Send
<1>3. /\ DOMAIN conn'[c] = HandlerFields /\ conn'[c].stage = "decode"
      /\ conn'[c].ask = ask /\ conn'[c].policy = P!NoRequest /\ conn'[c].exec = 0
      /\ conn'[c].ran = FALSE /\ conn'[c].stopped = FALSE
      /\ conn'[c].todo = {} /\ conn'[c].rows = {}
  BY <1>2 DEF Quiet
<1>4. ask \in Sendable
  BY DEF Sendable
<1>5. Bounded(c)'
  BY <1>3, NoRequestForbids DEF Bounded
<1>6. Early(c)' /\ Told(c)' /\ Holds(c)' /\ Shows(c)' /\ Stops(c)' /\ Shown(c)'
  BY <1>3 DEF Early, Told, Holds, Shows, Stops, Shown
<1> QED
  BY <1>3, <1>4, <1>5, <1>6 DEF Kept, HandlerInv

\* A handler keeps what it has through the step of another.
LEMMA StepOther ==
    ASSUME HttpInv, NEW c \in Conns, Framed(c), NEW d \in Conns \ {c}
    PROVE  Kept(d)
<1>1. /\ conn'[d] = conn[d] /\ DOMAIN conn[d] = HandlerFields
      /\ conn[d].ask \in Sendable /\ conn[d].todo \subseteq Seq(STRING)
      /\ conn[d].ask.id \in Sessions \cup {NoSession} /\ NoSession \notin Sessions
      /\ Early(d) /\ Told(d) /\ Holds(d) /\ Shows(d) /\ Stops(d) /\ Bounded(d) /\ Shown(d)
  BY HandlerFacts DEF Framed
<1> USE DEF At, Ask, Sid
<1>2. d # Nobody
  BY RequestsAssumption
<1>3. Holds(d)' /\ Shows(d)'
  BY <1>1, <1>2 DEF Holds, Shows, Framed
<1>4. Bounded(d)'
  BY <1>1, MayWriteKept, <1>1 DEF Bounded, MayWrite, Framed
<1>5. Early(d)' /\ Told(d)' /\ Stops(d)' /\ Shown(d)'
  BY <1>1 DEF Early, Told, Stops, Shown, Bears, Framed
<1> QED
  BY <1>1, <1>3, <1>4, <1>5 DEF Kept, HandlerInv

\* An execution becomes one that is being stopped by the cancel that names it.
LEMMA StepCanceled ==
    ASSUME HttpInv, NEW c \in Conns, Acts(c)
    PROVE  Canceled'
<1>1. /\ Canceled /\ DOMAIN shown = Sessions /\ DOMAIN status = Sessions
      /\ conn[c].ask.id \in Sessions \cup {NoSession}
  BY HandlerFacts
<1> USE DEF Canceled, NoEffect, lifeVars, Ask, Sid
<1>2. CASE UNCHANGED <<shown, status>> /\ acked \subseteq acked'
  BY <1>1, <1>2
<1>3. CASE Cancel(c)
  <2>1. CASE CancelCode(c) = 200 /\ status[conn[c].ask.id] = "running"
    <3>1. conn[c].ask.id \in Sessions /\ shown[conn[c].ask.id] = conn[c].seen
      BY <1>1, <2>1 DEF CancelCode, Expected, Found
    <3>2. /\ acked' = acked \cup {conn[c].seen} /\ UNCHANGED shown
          /\ status' = [status EXCEPT ![conn[c].ask.id] = "canceling"]
      BY <1>3, <2>1 DEF Cancel, Life!AskToStop
    <3> QED
      BY <1>1, <3>1, <3>2
  <2>2. CASE ~(CancelCode(c) = 200 /\ status[conn[c].ask.id] = "running")
    BY <1>2, <1>3, <2>2 DEF Cancel
  <2> QED
    BY <2>1, <2>2
<1>4. CASE Begin(c)
  BY <1>1, <1>4 DEF Begin, Life!Begin
<1>5. CASE Finish(c)
  BY <1>1, <1>5 DEF Finish, Life!Leave
<1>6. CASE Create(c)
  BY <1>2, <1>6 DEF Create, Life!Appear
<1>7. CASE Close(c)
  BY <1>2, <1>7 DEF Close, Life!Shut
<1>8. CASE Resume(c)
  BY <1>2, <1>8 DEF Resume, Life!Reopen
<1>9. CASE Decode(c) \/ Lookup(c) \/ Get(c) \/ Hangup(c) \/ FinishAlone(c) \/ Respond(c)
           \/ Describe(c) \/ DescribeViaLS(c)
  BY <1>2, <1>9 DEF Decode, Lookup, Get, Hangup, FinishAlone, Respond, Describe,
                    DescribeViaLS, OnlyConn
<1>10. CASE Acquire(c) \/ Closed(c) \/ Checkpoint(c)
  BY <1>2, <1>10 DEF Acquire, Closed, Checkpoint
<1>11. CASE Admit(c) \/ BeginAlone(c) \/ Run(c)
  BY <1>2, <1>11 DEF Admit, BeginAlone, Run
<1>12. CASE \E ask \in Asks[c] : Send(c, ask)
  BY <1>2, <1>12 DEF Send
<1> QED
  BY <1>3, <1>4, <1>5, <1>6, <1>7, <1>8, <1>9, <1>10, <1>11, <1>12 DEF Acts, Handle, Call

-----------------------------------------------------------------------------
(***************************************************************************)
(* The theorems.                                                           *)
(***************************************************************************)

\* Nobody has asked anything at the start.
LEMMA InitHttp ==
    ASSUME Init
    PROVE  HttpInv
<1>1. \A c \in Conns : conn[c] = Quiet
  BY DEF Init
<1>2. Shaped
  BY <1>1 DEF Shaped, Init, Life!Init, Quiet, HandlerFields, Sendable
<1>3. Canceled
  BY DEF Canceled, Init, Life!Init
<1>4. ASSUME NEW c \in Conns
      PROVE  HandlerInv(c)
  <2>1. /\ conn[c].stage = "idle" /\ conn[c].exec = 0 /\ conn[c].ran = FALSE
        /\ conn[c].stopped = FALSE /\ conn[c].rows = {} /\ conn[c].policy = P!NoRequest
    BY <1>1 DEF Quiet
  <2>2. Early(c) /\ Told(c) /\ Holds(c) /\ Shows(c) /\ Stops(c) /\ Bounded(c) /\ Shown(c)
    BY <2>1, NoRequestForbids DEF Early, Told, Holds, Shows, Stops, Bounded, Shown, At
  <2> QED
    BY <2>2 DEF HandlerInv
<1> QED
  BY <1>2, <1>3, <1>4 DEF HttpInv

\* A step of one connection keeps what holds of all.
LEMMA StepHttp ==
    ASSUME HttpInv, NEW c \in Conns, Acts(c)
    PROVE  HttpInv'
<1>1. Framed(c)
  BY StepFramed
<1>2. Kept(c)
  BY <1>1, StepEarly, StepAdmitted, StepRan, StepDescribed, StepSent DEF Acts, Handle, Call
<1>3. \A d \in Conns : Kept(d)
  BY <1>1, <1>2, StepOther
<1>4. Canceled'
  BY StepCanceled
<1>5. \A d \in Conns : /\ DOMAIN conn'[d] = HandlerFields /\ conn'[d].ask \in Sendable
                       /\ conn'[d].todo \subseteq Seq(STRING) /\ HandlerInv(d)'
  BY <1>3 DEF Kept
<1>6. Shaped'
  BY <1>1, <1>5 DEF Shaped, Framed
<1> QED
  BY <1>4, <1>5, <1>6 DEF HttpInv

\* HttpInv is inductive.
LEMMA NextHttp == HttpInv /\ [Next]_vars => HttpInv'
<1> SUFFICES ASSUME HttpInv, [Next]_vars
             PROVE  HttpInv'
  OBVIOUS
<1>1. CASE Next
  BY <1>1, StepHttp DEF Next, Acts
<1>2. CASE UNCHANGED vars
  <2>1. /\ conn' = conn /\ phase' = phase /\ shown' = shown /\ status' = status
        /\ ceiling' = ceiling /\ holder' = holder /\ acked' = acked
    BY <1>2 DEF vars
  <2>2. Shaped' /\ Canceled'
    BY <2>1 DEF HttpInv, Shaped, Canceled
  <2>3. ASSUME NEW c \in Conns
        PROVE  HandlerInv(c)'
    <3>1. /\ Early(c) /\ Told(c) /\ Holds(c) /\ Shows(c) /\ Stops(c) /\ Bounded(c) /\ Shown(c)
      BY HandlerFacts
    <3>2. Early(c)' /\ Told(c)' /\ Holds(c)'
      BY <2>1, <3>1 DEF Early, Told, Holds, At, Ask, Sid
    <3>3. Shows(c)' /\ Stops(c)' /\ Shown(c)'
      BY <2>1, <3>1 DEF Shows, Stops, Shown, Bears, At, Ask, Sid
    <3>4. Bounded(c)'
      BY <2>1, <3>1 DEF Bounded, MayWrite, Ask, Sid
    <3> QED
      BY <3>2, <3>3, <3>4 DEF HandlerInv
  <2> QED
    BY <2>2, <2>3 DEF HttpInv
<1> QED
  BY <1>1, <1>2

\* What handlers know of their sessions, requests and answers holds in every
\* behaviour.
THEOREM HttpHolds == Spec => []HttpInv
<1>1. Init => HttpInv
  BY InitHttp
<1> QED
  BY <1>1, NextHttp, PTL DEF Spec

\* An answer says what was done: a refused request began nothing, an accepted command
\* ran, and a command that was stopped was stopped by its client's leaving or by a
\* cancel that named its execution and was answered, whatever the number of sessions,
\* connections and requests (execute_endpoint.go:161, session_manager.go:137).
THEOREM AnswersHold == Spec => []AnswersAreTrue
<1>1. HttpInv => AnswersAreTrue
  BY DEF HttpInv, HandlerInv, Told, Stops, AnswersAreTrue
<1> QED
  BY <1>1, HttpHolds, PTL

\* The metadata of an answer never offers a write that the policy of its own request,
\* or the ceiling of its session, forbids, in any tree and over any mounts, but for a
\* word that is a script and prints its own row (execute_endpoint.go:224, :461).
THEOREM MetaHolds == Spec => []MetaIsTrue
<1>1. HttpInv => MetaIsTrue
  BY DEF HttpInv, HandlerInv, Bounded, Shown, Bears, Offers, MetaIsTrue
<1> QED
  BY <1>1, HttpHolds, PTL

\* The host changes only by the command of a request, or by the look-up of a word of it
\* that is a script, and only if the policy of the request and the ceiling of its
\* session let it be written (execute_endpoint.go:203, :450, session_manager.go:219).
THEOREM PolicyHolds == Spec => PolicyInForce
<1> DEFINE Step == host' # host => \E c \in Conns :
                     /\ MayWrite(c)
                     /\ \/ At(c, "running") /\ conn'[c].ran
                        \/ At(c, "describe") /\ NextPath(c) \in DOMAIN Scripts
<1>1. ASSUME HttpInv, [Next]_vars
      PROVE  [Step]_vars
  <2>1. CASE UNCHANGED vars
    BY <2>1
  <2>2. ASSUME NEW c \in Conns, Acts(c)
        PROVE  Step
    <3>1. CASE Run(c)
      <4>1. conn[c].stage = "running" /\ DOMAIN conn = Conns /\ DOMAIN conn[c] = HandlerFields
        BY <1>1, <2>2, <3>1, HandlerFacts DEF Run, At
      <4>2. conn'[c].ran
        BY <3>1, <4>1 DEF Run, HandlerFields
      <4>3. host' # host => P!AllowWrite(conn[c].policy)
        BY <3>1 DEF Run, WorldOf
      <4>4. P!AllowWrite(conn[c].policy) => MayWrite(c)
        BY <1>1, <2>2, HandlerFacts DEF Bounded
      <4> QED
        BY <4>1, <4>2, <4>3, <4>4 DEF At
    <3>2. CASE DescribeViaLS(c)
      <4>1. /\ At(c, "describe")
            /\ host' # host => NextPath(c) \in DOMAIN Scripts /\ P!AllowWrite(conn[c].policy)
        BY <3>2 DEF DescribeViaLS, HostsOfScript, MetaWorld, WorldOf
      <4>2. P!AllowWrite(conn[c].policy) => MayWrite(c)
        BY <1>1, <2>2, HandlerFacts DEF Bounded
      <4> QED
        BY <4>1, <4>2
    <3>3. CASE ~Run(c) /\ ~DescribeViaLS(c)
      <4>1. UNCHANGED host
        BY <2>2, <3>3 DEF Acts, Handle, Call, Decode, Lookup, Get, Create, Cancel, Acquire, Closed,
             Checkpoint, Close, Resume, Admit, Begin, BeginAlone, Finish, FinishAlone, Respond,
             Describe, Hangup, Send, OnlyConn, NoEffect
      <4> QED
        BY <4>1
    <3> QED
      BY <3>1, <3>2, <3>3
  <2> QED
    BY <1>1, <2>1, <2>2 DEF Next, Acts
<1>2. HttpInv /\ [Next]_vars => [Step]_vars
  BY <1>1
<1> QED
  BY <1>2, HttpHolds, PTL DEF Spec, PolicyInForce

-----------------------------------------------------------------------------
(***************************************************************************)
(* The rows of paths, in any world.                                        *)
(***************************************************************************)

\* Whether writes are left in a description.
MayOffer(w, meta) == w.allowWrite /\ DefaultAccess(meta.access, w.allowWrite) = "rw"

\* Normalizing and stripping leave something, and are done once for all.
LEMMA CapsIs ==
    ASSUME NEW caps
    PROVE  /\ NormalizePathCapabilities(caps) # {}
           /\ NormalizePathCapabilities(NormalizePathCapabilities(caps)) = NormalizePathCapabilities(caps)
           /\ StripWriteCapabilities(caps) # {}
           /\ StripWriteCapabilities(caps) \cap WriteCapabilities = {}
           /\ StripWriteCapabilities(StripWriteCapabilities(caps)) = StripWriteCapabilities(caps)
<1>1. NormalizePathCapabilities(caps) # {}
  BY DEF NormalizePathCapabilities
<1>2. NormalizePathCapabilities(NormalizePathCapabilities(caps)) = NormalizePathCapabilities(caps)
  BY DEF NormalizePathCapabilities
<1>3. PICK strip : strip = StripWriteCapabilities(caps)
  OBVIOUS
<1>4. strip = IF caps \ WriteCapabilities = {} THEN {"describe"} ELSE caps \ WriteCapabilities
  BY <1>3 DEF StripWriteCapabilities, NormalizePathCapabilities
<1>5. strip # {} /\ strip \cap WriteCapabilities = {}
  BY <1>4 DEF WriteCapabilities
<1>6. strip \ WriteCapabilities = strip
  BY <1>5
<1>7. StripWriteCapabilities(strip) = strip
  BY <1>5, <1>6 DEF StripWriteCapabilities, NormalizePathCapabilities
<1> QED
  BY <1>1, <1>2, <1>3, <1>5, <1>7

LEMMA DescriptionIs ==
    ASSUME NEW w, NEW p, NEW said, said = EntryMeta(w, p)
    PROVE  /\ DOMAIN DescribePath(w, p) = {"err", "dir", "access", "caps"}
           /\ DescribePath(w, p).err = said.err /\ DescribePath(w, p).dir = said.dir
           /\ DescribePath(w, p).access = IF MayOffer(w, said) THEN "rw" ELSE "ro"
           /\ DescribePath(w, p).caps = IF MayOffer(w, said) THEN NormalizePathCapabilities(said.caps)
                                        ELSE StripWriteCapabilities(NormalizePathCapabilities(said.caps))
<1>1. DOMAIN said = {"err", "dir", "access", "caps"}
  BY DescriptionFields
<1>2. CASE MayOffer(w, said)
  <2>1. DescribePath(w, p) = [said EXCEPT !.access = "rw", !.caps = NormalizePathCapabilities(said.caps)]
    BY <1>2 DEF DescribePath, WithPathAccessPolicy, MayOffer
  <2> QED
    BY <1>1, <1>2, <2>1
<1>3. CASE ~MayOffer(w, said)
  <2>1. DescribePath(w, p) = [said EXCEPT !.access = "ro",
                                !.caps = StripWriteCapabilities(NormalizePathCapabilities(said.caps))]
    BY <1>3 DEF DescribePath, WithPathAccessPolicy, MayOffer
  <2> QED
    BY <1>1, <1>3, <2>1
<1> QED
  BY <1>2, <1>3

\* A description that is filled in with its own access stays as it is.
LEMMA FilledIs ==
    ASSUME NEW w, NEW p, NEW meta, meta = DescribePath(w, p)
    PROVE  /\ Filled(meta, meta.access) = [dir |-> meta.dir, access |-> meta.access, caps |-> meta.caps]
           /\ DefaultAccess(meta.access, w.allowWrite) = meta.access
           /\ NormalizePathAccess(meta.access) = meta.access
           /\ ~w.allowWrite => meta.access = "ro"
           /\ meta.access = "ro" => meta.caps \cap WriteCapabilities = {}
<1>1. PICK said : said = EntryMeta(w, p)
  OBVIOUS
<1>2. PICK norm : norm = NormalizePathCapabilities(said.caps)
  OBVIOUS
<1>3. \/ MayOffer(w, said) /\ meta.access = "rw" /\ meta.caps = norm
      \/ ~MayOffer(w, said) /\ meta.access = "ro" /\ meta.caps = StripWriteCapabilities(norm)
  BY <1>1, <1>2, DescriptionIs
<1>4. meta.caps # {} /\ (meta.access = "ro" => meta.caps \cap WriteCapabilities = {})
  BY <1>2, <1>3, CapsIs
<1>5. (IF meta.access = "ro" THEN StripWriteCapabilities(meta.caps)
       ELSE NormalizePathCapabilities(meta.caps)) = meta.caps
  BY <1>2, <1>3, CapsIs
<1>6. Filled(meta, meta.access) = [dir |-> meta.dir, access |-> meta.access, caps |-> meta.caps]
  BY <1>4, <1>5 DEF Filled
<1>7. DefaultAccess(meta.access, w.allowWrite) = meta.access /\ NormalizePathAccess(meta.access) = meta.access
  BY <1>3 DEF DefaultAccess, NormalizePathAccess
<1>8. ~w.allowWrite => meta.access = "ro"
  BY <1>3 DEF MayOffer
<1> QED
  BY <1>4, <1>6, <1>7, <1>8

\* The row of a path that is described shows the description.
LEMMA OwnRow ==
    ASSUME NEW w, NEW p, NEW meta, meta = DescribePath(w, p)
    PROVE  BuildLongRow(w, p) =
             IF Ok(meta.err)
             THEN Row(p, TRUE, [dir |-> meta.dir, access |-> meta.access, caps |-> meta.caps])
             ELSE Row(p, FALSE, Unknown)
  BY FilledIs DEF BuildLongRow, LongRow

\* What the router does not answer for is described and checked by the file system.
LEMMA HostAnswers ==
    ASSUME NEW w, NEW p, ~IsMounted(p), ~IsSyntheticPrefix(p), NEW op \in {"mkdir", "write"}
    PROVE  /\ EntryMeta(w, p) = IF OnAgent(w) THEN ZoneDescribe(w.host, p) ELSE LocalDescribe(w.host, p)
           /\ CheckPathOp(w, op, p) = FsCheckPathOp(w, op, p)
<1>1. ~IsActive(w, p)
  BY DEF IsActive, Match, Deepest, IsMounted
<1>2. ~IsSyntheticDir(w, p)
  BY DEF IsSyntheticDir, IsSyntheticPrefix, ActiveMounts
<1> QED
  BY <1>1, <1>2 DEF EntryMeta, CheckPathOp

\* Of a path that a zone describes the offers are what the zone lets through.
LEMMA ZoneOffers ==
    ASSUME NEW h, NEW p, NEW said, said = ZoneDescribe(h, p), NEW op,
           op = IF said.dir THEN "mkdir" ELSE "write"
    PROVE  \/ /\ Ok(ZoneCheckPathOp(h, op, p))
              /\ said.access = "rw" /\ op \in said.caps
           \/ ~Ok(ZoneCheckPathOp(h, op, p)) /\ said.access = "ro"
<1>1. PICK isDir, read, writable :
        isDir = ZoneIsDir(h, p) /\ read = ZoneRead(h, p) /\ writable = ZoneWritable(h, p)
  OBVIOUS
<1>2. said = ZoneDescription(isDir, read, writable)
  BY <1>1 DEF ZoneDescribe
<1>3. said.dir = isDir.dir /\ said.access = IF writable THEN "rw" ELSE "ro"
  BY <1>2 DEF ZoneDescription, Description
<1>4. writable => op \in said.caps
  BY <1>2, <1>3 DEF ZoneDescription, Description, WriteCapabilities
<1>5. Ok(ZoneCheckPathOp(h, op, p)) <=> writable
  <2>1. PICK err : err = ZoneResolve(h, p)
    OBVIOUS
  <2>2. ~Ok("plain") /\ ~Ok("unsupported") /\ Ok("ok")
    BY DEF Ok
  <2>3. MatchZone(p) = {} => ~Ok(err)
    BY <2>1, <2>2 DEF ZoneResolve
  <2>4. op \in {"write", "mkdir", "remove"}
    OBVIOUS
  <2>5. ZoneCheckPathOp(h, op, p) = IF Ok(err) THEN (IF ZoneOf(p).writable THEN "ok" ELSE "unsupported") ELSE err
    BY <2>1, <2>4 DEF ZoneCheckPathOp, ZoneAllows, Ensure
  <2>6. writable <=> (MatchZone(p) # {} /\ Ok(err) /\ ZoneOf(p).writable)
    BY <1>1, <2>1 DEF ZoneWritable
  <2> QED
    BY <2>2, <2>3, <2>5, <2>6
<1> QED
  BY <1>3, <1>4, <1>5

\* A path that the local file system describes is one that it may write.
LEMMA LocalOffers ==
    ASSUME NEW h, NEW p, NEW said, said = LocalDescribe(h, p), Ok(said.err), NEW op,
           op = IF said.dir THEN "mkdir" ELSE "write"
    PROVE  said.access = "rw" /\ op \in said.caps /\ Ok(LocalCheckPathOp(h, op, p, TRUE))
<1>1. PICK isDir, read, err :
        isDir = LocalIsDir(h, p) /\ read = LocalRead(h, p) /\ err = LocalResolve(h, p)
  OBVIOUS
<1>2. said = LocalDescription(isDir, read)
  BY <1>1 DEF LocalDescribe
<1>3. said.dir = isDir.dir /\ said.access = "rw"
        /\ said.err = IF Ok(isDir.err) /\ ~isDir.dir THEN read.err ELSE isDir.err
  BY <1>2 DEF LocalDescription, Description
<1>4. op \in said.caps
  BY <1>2, <1>3 DEF LocalDescription, Description, WriteCapabilities
<1>5. Ok(err)
  <2>1. isDir.dir => Ok(err)
    BY <1>1 DEF LocalIsDir, IsDirIf
  <2>2. ~Ok(err) => ~Ok(read.err)
    BY <1>1 DEF LocalRead, ReadIf
  <2>3. ~isDir.dir => Ok(read.err)
    BY <1>3
  <2> QED
    BY <2>1, <2>2, <2>3
<1>6. LocalCheckPathOp(h, op, p, TRUE) = err
  BY <1>1 DEF LocalCheckPathOp
<1> QED
  BY <1>3, <1>4, <1>5, <1>6

\* A row of the file system offers what would be let through, and no more.
LEMMA OffersAreAllowed ==
    ASSUME NEW w, w.allowWrite \in BOOLEAN, NEW p
    PROVE  OffersWhatIsAllowed(w, p)
<1> SUFFICES ASSUME NEW row, row = BuildLongRow(w, p), row.known, ~IsMounted(p), ~IsSyntheticPrefix(p)
             PROVE  RowOffers(w, row, IF row.dir THEN "mkdir" ELSE "write")
  BY DEF OffersWhatIsAllowed
<1>1. PICK said, meta : said = EntryMeta(w, p) /\ meta = DescribePath(w, p)
  OBVIOUS
<1>2. Ok(meta.err)
  BY <1>1, OwnRow DEF Row
<1>3. row.path = p /\ row.dir = meta.dir /\ row.access = meta.access /\ row.caps = meta.caps
  BY <1>1, <1>2, OwnRow DEF Row
<1>4. PICK op : op = IF row.dir THEN "mkdir" ELSE "write"
  OBVIOUS
<1>5. said.err = meta.err /\ said.dir = row.dir
  BY <1>1, <1>3, DescriptionIs
<1>6. op \in {"mkdir", "write"} /\ op \in WriteCapabilities
  BY <1>4 DEF WriteCapabilities
<1>7. said = (IF OnAgent(w) THEN ZoneDescribe(w.host, p) ELSE LocalDescribe(w.host, p))
        /\ CheckPathOp(w, op, p) = FsCheckPathOp(w, op, p)
  BY <1>1, <1>6, HostAnswers
<1>8. w.allowWrite =>
        \/ Ok(CheckPathOp(w, op, p)) /\ said.access = "rw" /\ op \in said.caps
        \/ ~Ok(CheckPathOp(w, op, p)) /\ said.access = "ro"
  <2> SUFFICES ASSUME w.allowWrite
               PROVE  \/ Ok(CheckPathOp(w, op, p)) /\ said.access = "rw" /\ op \in said.caps
                      \/ ~Ok(CheckPathOp(w, op, p)) /\ said.access = "ro"
    OBVIOUS
  <2>1. CASE OnAgent(w)
    <3>1. CheckPathOp(w, op, p) = ZoneCheckPathOp(w.host, op, p) /\ said = ZoneDescribe(w.host, p)
      BY <1>7, <2>1 DEF FsCheckPathOp
    <3> QED
      BY <1>4, <1>5, <3>1, ZoneOffers
  <2>2. CASE ~OnAgent(w)
    <3>1. CheckPathOp(w, op, p) = LocalCheckPathOp(w.host, op, p, TRUE) /\ said = LocalDescribe(w.host, p)
      BY <1>7, <2>2 DEF FsCheckPathOp
    <3> QED
      BY <1>2, <1>4, <1>5, <3>1, LocalOffers
  <2> QED
    BY <2>1, <2>2
<1>9. CASE w.allowWrite /\ said.access = "rw"
  <2>1. MayOffer(w, said)
    BY <1>9 DEF MayOffer, DefaultAccess, NormalizePathAccess
  <2>2. meta.access = "rw" /\ meta.caps = NormalizePathCapabilities(said.caps)
    BY <1>1, <2>1, DescriptionIs
  <2>3. Ok(CheckPathOp(w, op, p)) /\ op \in said.caps
    BY <1>8, <1>9
  <2>4. op \in meta.caps
    BY <2>2, <2>3 DEF NormalizePathCapabilities
  <2> QED
    BY <1>3, <1>4, <1>6, <1>9, <2>2, <2>3, <2>4 DEF RowOffers
<1>10. CASE ~(w.allowWrite /\ said.access = "rw")
  <2>1. ~(w.allowWrite /\ Ok(CheckPathOp(w, op, p)))
    BY <1>8, <1>10
  <2>2. ~MayOffer(w, said)
    BY <1>8, <1>10 DEF MayOffer, DefaultAccess, NormalizePathAccess
  <2>3. meta.access = "ro"
    BY <1>1, <2>2, DescriptionIs
  <2>4. meta.caps \cap WriteCapabilities = {}
    BY <1>1, <2>3, FilledIs
  <2> QED
    BY <1>3, <1>4, <1>6, <2>1, <2>3, <2>4 DEF RowOffers
<1> QED
  BY <1>9, <1>10

\* Names of a path that are the first ones of another.
LEMMA UnderIs ==
    ASSUME NEW p \in Seq(STRING), NEW q \in Seq(STRING)
    PROVE  Under(p, q) <=> Len(p) <= Len(q) /\ \A i \in 1 .. Len(p) : q[i] = p[i]
<1>1. Len(p) \in Nat /\ Len(q) \in Nat
  OBVIOUS
<1>2. ASSUME Len(p) <= Len(q)
      PROVE  SubSeq(q, 1, Len(p)) = p <=> \A i \in 1 .. Len(p) : q[i] = p[i]
  <2>1. \A i \in 1 .. Len(p) : q[i] \in STRING
    BY <1>1, <1>2
  <2>2. /\ SubSeq(q, 1, Len(p)) \in Seq(STRING)
        /\ Len(SubSeq(q, 1, Len(p))) = Len(p)
        /\ \A i \in 1 .. Len(p) : SubSeq(q, 1, Len(p))[i] = q[i]
    BY <1>1, <2>1, SubSeqProperties
  <2> QED
    BY <2>2, SeqEqual
<1> QED
  BY <1>1, <1>2 DEF Under

\* The parent of a path.
LEMMA ParentIs ==
    ASSUME NEW p \in Seq(STRING), p # <<>>
    PROVE  /\ Parent(p) \in Seq(STRING) /\ Len(Parent(p)) = Len(p) - 1
           /\ \A i \in 1 .. Len(p) - 1 : Parent(p)[i] = p[i]
<1>1. Len(p) \in Nat /\ Len(p) # 0 /\ \A i \in 1 .. Len(p) : p[i] \in STRING
  OBVIOUS
<1>2. PICK n : n = Len(p) - 1
  OBVIOUS
<1>3. n \in Nat /\ n <= Len(p)
  BY <1>1, <1>2
<1>4. /\ SubSeq(p, 1, n) \in Seq(STRING) /\ Len(SubSeq(p, 1, n)) = n
      /\ \A i \in 1 .. n : SubSeq(p, 1, n)[i] = p[i]
  BY <1>1, <1>3, SubSeqProperties
<1> QED
  BY <1>2, <1>4 DEF Parent, Front

\* What is the start of a path and not all of it is the start of its parent.
LEMMA UnderParent ==
    ASSUME NEW n \in Seq(STRING), NEW p \in Seq(STRING), p # <<>>
    PROVE  /\ Under(n, Parent(p)) => Under(n, p)
           /\ Under(n, p) /\ n # p => Under(n, Parent(p))
<1>1. /\ Parent(p) \in Seq(STRING) /\ Len(Parent(p)) = Len(p) - 1
      /\ \A i \in 1 .. Len(p) - 1 : Parent(p)[i] = p[i]
  BY ParentIs
<1>2. Len(n) \in Nat /\ Len(p) \in Nat
  OBVIOUS
<1>3. ASSUME Under(n, Parent(p))
      PROVE  Under(n, p)
  <2>1. Len(n) <= Len(p) - 1 /\ \A i \in 1 .. Len(n) : Parent(p)[i] = n[i]
    BY <1>1, <1>3, UnderIs
  <2>2. \A i \in 1 .. Len(n) : p[i] = n[i]
    BY <1>1, <1>2, <2>1
  <2> QED
    BY <1>2, <2>1, <2>2, UnderIs
<1>4. ASSUME Under(n, p), n # p
      PROVE  Under(n, Parent(p))
  <2>1. Len(n) <= Len(p) /\ \A i \in 1 .. Len(n) : p[i] = n[i]
    BY <1>4, UnderIs
  <2>2. Len(n) # Len(p)
    BY <1>2, <1>4, <2>1, SeqEqual
  <2>3. Len(n) <= Len(p) - 1
    BY <1>2, <2>1, <2>2
  <2>4. \A i \in 1 .. Len(n) : Parent(p)[i] = n[i]
    BY <1>1, <1>2, <2>1, <2>3
  <2> QED
    BY <1>1, <2>3, <2>4, UnderIs
<1> QED
  BY <1>3, <1>4

\* A world in which every mount is there.
AllActive(w) == \A m \in Mounts : m.point \in w.active

\* The point of a mount is the mount's.
LEMMA PointIsActive ==
    ASSUME NEW w, AllActive(w), NEW m \in Mounts
    PROVE  IsActive(w, m.point)
<1>1. m.point \in Seq(STRING) /\ \A n \in Mounts : Under(n.point, m.point) => Len(n.point) <= Len(m.point)
  BY RequestsAssumption DEF Under
<1>2. Under(m.point, m.point)
  BY <1>1, UnderIs
<1>3. m \in Match(m.point)
  BY <1>1, <1>2 DEF Match, Deepest
<1> QED
  BY <1>3 DEF IsActive, AllActive

\* What is in a directory that the router answers for is the router's as well.
LEMMA RoutedBelow ==
    ASSUME NEW w, AllActive(w), NEW p \in Seq(STRING), p # <<>>,
           RouterAnswers(w, Parent(p)), p \in ListEntries(w, Parent(p)).paths
    PROVE  RouterAnswers(w, p)
<1> DEFINE dir == Parent(p)
<1>1. dir \in Seq(STRING) /\ Len(dir) = Len(p) - 1 /\ Len(p) \in Nat /\ Len(dir) \in Nat
  BY ParentIs
<1> HIDE DEF dir
<1>2. \A m \in Mounts : m.point \in Seq(STRING)
  BY RequestsAssumption
<1>3. CASE \E m \in Mounts : m.point = p
  BY <1>3, PointIsActive DEF RouterAnswers
<1>4. CASE IsActive(w, dir) /\ \A m \in Mounts : m.point # p
  <2>1. PICK m \in Match(dir) : m.point \in w.active
    BY <1>4 DEF IsActive
  <2>2. /\ m \in Mounts /\ Under(m.point, dir)
        /\ \A n \in Mounts : Under(n.point, dir) => Len(n.point) <= Len(m.point)
    BY <2>1 DEF Match, Deepest
  <2>3. Under(m.point, p) /\ \A n \in Mounts : Under(n.point, p) => Under(n.point, dir)
    BY <1>2, <1>4, <2>2, UnderParent DEF dir
  <2>4. m \in Match(p)
    BY <2>2, <2>3 DEF Match, Deepest
  <2> QED
    BY <2>1, <2>4 DEF IsActive, RouterAnswers
<1>5. CASE ~IsActive(w, dir) /\ \A m \in Mounts : m.point # p
  <2>1. p \in SyntheticChildren(w, dir)
    BY <1>5 DEF ListEntries, WithEntries, NoAnswer, Answer, dir
  <2>2. PICK m \in ActiveMounts(w) : Below(dir, m.point) /\ p = SubSeq(m.point, 1, Len(dir) + 1)
    BY <2>1 DEF SyntheticChildren
  <2>3. m \in Mounts /\ m.point \in Seq(STRING) /\ Len(m.point) \in Nat /\ Len(p) = Len(dir) + 1
    BY <1>1, <1>2, <2>2 DEF ActiveMounts
  <2>4. Len(p) <= Len(m.point) /\ SubSeq(m.point, 1, Len(p)) = p
    BY <1>1, <2>2, <2>3 DEF Below
  <2>5. Under(p, m.point)
    BY <2>4 DEF Under
  <2>6. m.point # p
    BY <1>5, <2>3
  <2>7. Len(p) # Len(m.point)
    BY <2>3, <2>5, <2>6, UnderIs, SeqEqual
  <2>8. Below(p, m.point)
    BY <2>3, <2>4, <2>5, <2>7 DEF Below
  <2>9. IsSyntheticDir(w, p)
    BY <1>5, <2>2, <2>8 DEF IsSyntheticDir, ActiveMounts
  <2> QED
    BY <2>9 DEF RouterAnswers
<1> QED
  BY <1>3, <1>4, <1>5

\* The entry of a path in a listing, from the router or from the file system.
LEMMA ListedEntry ==
    ASSUME NEW w, NEW dir, NEW entry \in ListDirectoryEntries(w, dir).entries
    PROVE  \/ RouterAnswers(w, dir) /\ \E q \in ListEntries(w, dir).paths :
                entry = Entry("ok", q, EntryMeta(w, q))
           \/ ~RouterAnswers(w, dir) /\ \E q : entry = ChildEntry(w, q)
<1> DEFINE routed == RouterAnswers(w, dir)
           children == ListChildren(w, dir)
<1>1. PICK q \in children.paths :
        entry = IF routed THEN Entry("ok", q, EntryMeta(w, q)) ELSE ChildEntry(w, q)
  <2>1. entry \in EntriesOf(w, routed, children).entries
    BY DEF ListDirectoryEntries
  <2> HIDE DEF routed, children
  <2> QED
    BY <2>1 DEF EntriesOf, AllEntries
<1>2. routed => children.paths = ListEntries(w, dir).paths
  BY DEF ListChildren
<1> QED
  BY <1>1, <1>2

\* What a mount that states its access, or a directory towards a mount, says of a
\* path is what is described: the policy takes nothing back.
LEMMA StatedIs ==
    ASSUME NEW w, AllActive(w), NEW p, RouterAnswers(w, p), StatesAccess(w, p),
           NEW said, said = EntryMeta(w, p), NEW meta, meta = DescribePath(w, p)
    PROVE  Filled(said, NormalizePathAccess(said.access))
             = [dir |-> meta.dir, access |-> meta.access, caps |-> meta.caps]
<1>1. /\ meta.dir = said.dir
      /\ meta.access = IF MayOffer(w, said) THEN "rw" ELSE "ro"
      /\ meta.caps = IF MayOffer(w, said) THEN NormalizePathCapabilities(said.caps)
                     ELSE StripWriteCapabilities(NormalizePathCapabilities(said.caps))
  BY DescriptionIs
<1>2. said.access \in {"ro", "rw"} /\ (said.access = "rw" => w.allowWrite) /\ said.caps # {}
  <2>1. CASE IsActive(w, p)
    <3>1. PICK access, kind : access = MountOf(p).access /\ kind = MountKind(w, p)
      OBVIOUS
    <3>2. access = "ro" \/ (access = "rw" /\ w.allowWrite)
      BY <2>1, <3>1 DEF StatesAccess
    <3>3. said = MountMeta(kind, access)
      BY <2>1, <3>1 DEF EntryMeta
    <3>4. \A dir : "describe" \in DefaultCapabilities(dir)
      BY DEF DefaultCapabilities, DirCapabilities, FileCapabilities
    <3>5. PICK caps : caps = DefaultCapabilities(kind = "dir") /\ "describe" \in caps
      BY <3>4
    <3>6. said.access = access /\ said.caps = CASE access = "" -> {}
                                                [] access = "ro" -> caps
                                                [] access = "rw" -> caps \cup {"write"}
      <4> DEFINE given == CASE access = "" -> {}
                            [] access = "ro" -> DefaultCapabilities(kind = "dir")
                            [] access = "rw" -> DefaultCapabilities(kind = "dir") \cup {"write"}
                 err == Ensure(kind # "none", "missing")
                 isDir == kind = "dir"
      <4>1. said = [err |-> err, dir |-> isDir, access |-> access, caps |-> given]
        BY <3>3 DEF MountMeta
      <4>2. given = CASE access = "" -> {} [] access = "ro" -> caps [] access = "rw" -> caps \cup {"write"}
        BY <3>5
      <4> HIDE DEF given, err, isDir
      <4>3. said.access = access /\ said.caps = given
        BY <4>1
      <4> HIDE DEF given
      <4> QED
        BY <4>2, <4>3
    <3>7. "describe" \in said.caps
      BY <3>2, <3>5, <3>6
    <3> QED
      BY <3>2, <3>6, <3>7
  <2>2. CASE ~IsActive(w, p)
    <3>1. IsSyntheticDir(w, p)
      BY <2>2 DEF RouterAnswers
    <3> QED
      BY <2>2, <3>1 DEF EntryMeta, DirCapabilities
  <2> QED
    BY <2>1, <2>2
<1>3. NormalizePathAccess(said.access) = said.access
  BY <1>2 DEF NormalizePathAccess
<1>4. NormalizePathCapabilities(said.caps) = said.caps
  BY <1>2 DEF NormalizePathCapabilities
<1>5. CASE said.access = "rw"
  <2>1. MayOffer(w, said)
    BY <1>2, <1>5 DEF MayOffer, DefaultAccess, NormalizePathAccess
  <2> QED
    BY <1>1, <1>2, <1>3, <1>4, <1>5, <2>1 DEF Filled
<1>6. CASE said.access = "ro"
  <2>1. ~MayOffer(w, said)
    BY <1>6 DEF MayOffer, DefaultAccess, NormalizePathAccess
  <2> QED
    BY <1>1, <1>2, <1>3, <1>4, <1>6, <2>1 DEF Filled
<1> QED
  BY <1>2, <1>5, <1>6

\* The row of a path is one, wherever it is shown.
LEMMA RowsAreOne ==
    ASSUME NEW w, AllActive(w), NEW p \in Seq(STRING)
    PROVE  RowsAgree(w, p)
<1>1. PICK own, meta : own = BuildLongRow(w, p) /\ meta = DescribePath(w, p)
  OBVIOUS
<1>2. PICK told : told = [dir |-> meta.dir, access |-> meta.access, caps |-> meta.caps]
  OBVIOUS
<1>3. /\ Filled(meta, meta.access) = told
      /\ DefaultAccess(meta.access, w.allowWrite) = meta.access
      /\ NormalizePathAccess(meta.access) = meta.access
      /\ ~w.allowWrite => meta.access = "ro"
  BY <1>1, <1>2, FilledIs
<1>4. own = IF Ok(meta.err) THEN Row(p, TRUE, told) ELSE Row(p, FALSE, Unknown)
  BY <1>1, <1>2, OwnRow
<1>5. ASSUME Ok(meta.err)
      PROVE  DescribePathMeta(w, p, meta) = own
  BY <1>3, <1>4, <1>5 DEF DescribePathMeta
<1>6. ASSUME own.known, StatesAccess(w, p),
             NEW entry \in ListDirectoryEntries(w, Parent(p)).entries, entry.path = p
      PROVE  EntryToLongRow(w, entry) = own
  <2>1. Ok(meta.err)
    BY <1>4, <1>6 DEF Row
  <2>2. own = Row(p, TRUE, told)
    BY <1>4, <2>1
  <2>3. CASE RouterAnswers(w, Parent(p))
    <3>1. PICK q \in ListEntries(w, Parent(p)).paths : entry = Entry("ok", q, EntryMeta(w, q))
      BY <2>3, ListedEntry
    <3>2. q = p
      BY <1>6, <3>1 DEF Entry
    <3>3. p # <<>>
      <4>1. p = <<>> => Parent(p) = p
        BY DEF Parent
      <4> QED
        BY <3>1, <3>2, <4>1, ListedBelow
    <3>4. RouterAnswers(w, p)
      BY <2>3, <3>1, <3>2, <3>3, RoutedBelow
    <3>5. PICK said : said = EntryMeta(w, p)
      OBVIOUS
    <3>6. Filled(said, NormalizePathAccess(said.access)) = told
      BY <1>1, <1>2, <1>6, <3>4, <3>5, StatedIs
    <3>7. entry.path = p /\ entry.meta = said
      BY <3>1, <3>2, <3>5 DEF Entry
    <3> QED
      BY <2>2, <3>6, <3>7 DEF EntryToLongRow
  <2>4. CASE ~RouterAnswers(w, Parent(p))
    <3>1. PICK q : entry = EntryOf(q, DescribePath(w, q), IsDirPath(w, q))
      BY <2>4, ListedEntry DEF ChildEntry
    <3>2. q = p
      BY <1>6, <3>1 DEF EntryOf, Entry
    <3>3. ~IsUnsupported(meta.err)
      BY <2>1 DEF IsUnsupported, Ok
    <3>4. entry.path = p /\ entry.meta = meta
      BY <1>1, <3>1, <3>2, <3>3 DEF EntryOf, Entry
    <3> QED
      BY <1>3, <2>2, <3>4 DEF EntryToLongRow
  <2> QED
    BY <2>3, <2>4
<1>7. /\ Ok(meta.err) => DescribePathMeta(w, p, meta) = own
      /\ own.known /\ StatesAccess(w, p) =>
           \A entry \in ListDirectoryEntries(w, Parent(p)).entries :
             entry.path = p => EntryToLongRow(w, entry) = own
  BY <1>5, <1>6
<1> QED
  BY <1>1, <1>7 DEF RowsAgree

\* Whatever requests have left behind, the rows of the paths whose metadata is
\* collected next are one and true.
THEOREM RowsHold == Spec => []RowsTrue
<1>1. ASSUME HttpInv
      PROVE  RowsTrue
  <2> SUFFICES ASSUME NEW c \in Conns, NEW p \in Described(c), NEW w, w = MetaWorld(c)
               PROVE  RowsAgree(w, p) /\ OffersWhatIsAllowed(w, p)
    BY DEF RowsTrue
  <2>1. p \in Seq(STRING)
    BY <1>1 DEF HttpInv, Shaped, Described
  <2>2. AllActive(w) /\ w.allowWrite \in BOOLEAN
    BY DEF MetaWorld, WorldOf, AllActive, P!AllowWrite
  <2> QED
    BY <2>1, <2>2, RowsAreOne, OffersAreAllowed
<1> QED
  BY <1>1, HttpHolds, PTL
=============================================================================
