------------------------------- MODULE HttpApi -------------------------------
(***************************************************************************)
(* The HTTP service of simsh, pkg/service/httpapi/execute_endpoint.go: its *)
(* handlers over the sessions of the session manager, one virtual tree and *)
(* the policies of requests and sessions.                                  *)
(*                                                                         *)
(* A connection carries one request at a time and net/http runs a handler  *)
(* per request, so the steps of handlers interleave.  The sessions are     *)
(* taken as SessionLifecycle promises them; what the service adds is which *)
(* request may do what, what it answers, and when.                         *)
(***************************************************************************)
EXTENDS Listing

CONSTANTS
  Sessions,        \* sessions the service may create
  Conns,           \* connections
  Asks,            \* per connection the requests it may send, records of Requests
  DefaultName,     \* Config.DefaultPolicy
  HostTree,        \* the host tree
  MountData,       \* the trees of the mounts
  Scripts,         \* words that a script takes for more than a path, and what they change
  MaxRequests,     \* requests per connection
  MaxFailures,     \* runtimes that cannot be built
  Depth            \* directories below one another

ASSUME LimitsAssumption == MaxRequests \in Nat /\ MaxFailures \in Nat /\ Depth \in Nat

VARIABLES
  phase, shown, status, issued,   \* the sessions, as in SessionLifecycle
  ceiling,                        \* per session: its policy ceiling
  holder,                         \* per session: the connection that holds executeMu
  host,                           \* the host tree
  conn,                           \* per connection: its handler
  sent,                           \* per connection: requests sent
  failures,                       \* runtimes that could not be built
  acked                           \* executions an answered cancel named

lifeVars == <<phase, shown, status, issued>>
vars == <<phase, shown, status, issued, ceiling, holder, host, conn, sent, failures, acked>>

Life == INSTANCE SessionLifecycle
P == INSTANCE Policy

Actions == {"checkpoint", "resume", "close", "cancel"}
Routes == {"create", "get", "execute", "other"} \cup Actions
Bodies == {"good", "empty", "bad"}
PolicyNames == {"", "disabled", "read-only", "write-limited", "full", "unknown"}
NoSession == "no session"
Nobody == "nobody"

\* cmd is the write the command makes, with the paths named in it, or Blank.  A
\* cancel expects the execution the connection last saw, or names none.
Blank == [kind |-> "blank", paths |-> {}]
Requests(commands) ==
  [route : Routes, id : Sessions \cup {NoSession}, body : Bodies, policy : PolicyNames,
   override : BOOLEAN, cmd : commands, meta : BOOLEAN, expect : BOOLEAN]

\* What clients may send: only an execution carries a command, whose paths are
\* absolute, as the points of the mounts are.
Carries(ask) == ask.cmd = Blank \/ ask.route = "execute"

ASSUME RequestsAssumption ==
  /\ NoSession \notin Sessions /\ Nobody \notin Conns
  /\ \A c \in Conns : \A ask \in Asks[c] :
       ask \in Requests({ask.cmd}) /\ Carries(ask) /\ ask.cmd.paths \subseteq Seq(STRING)
  /\ \A m \in Mounts : m.point \in Seq(STRING)

\* A quoted word may hold blanks and separators; Scripts has the operation that the
\* commands in it try.
ASSUME ScriptsAssumption ==
  \A p \in DOMAIN Scripts : p \in Seq(STRING) /\ Scripts[p].kind \in Kinds

Request == [route |-> "other", id |-> NoSession, body |-> "good", policy |-> "",
            override |-> FALSE, cmd |-> Blank, meta |-> FALSE, expect |-> FALSE]

\* A handler: exec is the execution it began, ran whether the command ran, gone
\* whether its client has left, seen the execution its connection saw last.
Quiet == [stage |-> "idle", ask |-> Request, policy |-> P!NoRequest, exec |-> 0, ran |-> FALSE,
          stopped |-> FALSE, gone |-> FALSE, todo |-> {}, rows |-> {}, code |-> 0, seen |-> 0]
Stages == {"idle", "decode", "lookup", "wait", "locked", "prepare", "start", "running",
           "finish", "meta", "describe", "done"}

Init ==
  /\ Life!Init
  /\ ceiling = [s \in Sessions |-> P!NoRequest]
  /\ holder = [s \in Sessions |-> Nobody]
  /\ host = HostTree
  /\ conn = [c \in Conns |-> Quiet]
  /\ sent = [c \in Conns |-> 0]
  /\ failures = 0
  /\ acked = {}

At(c, stage) == conn[c].stage = stage
Ask(c) == conn[c].ask
Sid(c) == Ask(c).id

\* The next stage of a handler, or its answer.
Goes(c, stage) == conn' = [conn EXCEPT ![c] = [@ EXCEPT !.stage = stage]]
Answers(c, code) == conn' = [conn EXCEPT ![c] = [@ EXCEPT !.stage = "done", !.code = code]]
\* Broken: the lock of a session is kept when a handler returns.
Broken_Unlocked(c) == UNCHANGED holder

Unlocked(c) == holder' = [holder EXCEPT ![Sid(c)] = Nobody]
NoEffect == UNCHANGED <<ceiling, host, sent, failures, acked>>
OnlyConn == UNCHANGED lifeVars /\ UNCHANGED holder /\ NoEffect

\* A runtime may not be built: its host root is gone, its files cannot be read.
NewFails(c, code) ==
  /\ failures < MaxFailures
  /\ failures' = failures + 1
  /\ Answers(c, code)

----------------------------------------------------------------------------
\* Policies by name.

Known(name) == name # "unknown"

\* buildRuntimeOptions: a name that is not given is the default's.
RequestPolicy(name) == P!PolicyPreset(IF name = "" THEN DefaultName ELSE name)

\* parseRequestedPolicy: a name that is not given asks for the ceiling.
RequestedPolicy(name) == IF name = "" THEN P!NoRequest ELSE P!PolicyPreset(name)

WorldOf(policy) ==
  [host |-> host, data |-> MountData, active |-> {m.point : m \in Mounts},
   adapter |-> "agentfs", allowWrite |-> P!AllowWrite(policy)]

----------------------------------------------------------------------------
\* Requests arrive and are decoded.

\* No more sessions are asked for than Sessions has.
HasRoom ==
  Cardinality({d \in Conns : Ask(d).route = "create" /\ conn[d].stage \in {"decode", "start"}})
    < Cardinality({s \in Sessions : phase[s] = "absent"})

Send(c, ask) ==
  /\ At(c, "idle") \/ At(c, "done")
  /\ sent[c] < MaxRequests
  /\ ask.route = "create" => HasRoom
  /\ sent' = [sent EXCEPT ![c] = @ + 1]
  /\ conn' = [conn EXCEPT ![c] = [Quiet EXCEPT !.stage = "decode", !.ask = ask, !.seen = conn[c].seen]]
  /\ UNCHANGED <<ceiling, host, failures, acked, holder>> /\ UNCHANGED lifeVars

DecodesStrictly(ask) == ask.body = "good"
DecodesOptionally(ask) == ask.body \in {"good", "empty"}

\* What a request is refused for before a session is looked up, 0 if for nothing.
Refusal(ask) ==
  CASE ask.route = "other" -> 404
    [] ask.route = "create" ->
         IF DecodesOptionally(ask) /\ Known(ask.policy) THEN 0 ELSE 400
    [] ask.route = "cancel" -> IF DecodesOptionally(ask) /\ ask.expect THEN 0 ELSE 400
    [] ask.route = "execute" ->
         (CASE ~DecodesStrictly(ask) -> 400
            [] DecodesStrictly(ask) /\ ask.cmd = Blank /\ ask.id = NoSession -> 200
            [] DecodesStrictly(ask) /\ ask.id # NoSession /\ ask.override -> 400
            [] OTHER -> IF Known(ask.policy) THEN 0 ELSE 400)
    [] OTHER -> 0

\* An execution without a session goes to a runtime of its own.
Decode(c) ==
  /\ At(c, "decode")
  /\ IF Refusal(Ask(c)) # 0 THEN Answers(c, Refusal(Ask(c)))
     ELSE Goes(c, CASE Ask(c).route = "create" -> "start"
                    [] Ask(c).route = "execute" /\ Sid(c) = NoSession -> "start"
                    [] OTHER -> "lookup")
  /\ OnlyConn

\* lookupManaged, Get and Cancel hold only the manager's own lock.
Found(c) == Sid(c) # NoSession /\ phase[Sid(c)] # "absent"

Lookup(c) ==
  /\ At(c, "lookup")
  /\ Ask(c).route \notin {"get", "cancel"}
  /\ IF Found(c) THEN Goes(c, "wait") ELSE Answers(c, 404)
  /\ OnlyConn

Get(c) ==
  /\ At(c, "lookup") /\ Ask(c).route = "get"
  /\ conn' = [conn EXCEPT ![c] =
       [@ EXCEPT !.stage = "done", !.code = IF Found(c) THEN 200 ELSE 404,
                 !.seen = IF Found(c) THEN shown[Sid(c)] ELSE conn[c].seen]]
  /\ OnlyConn

\* Create: the session appears once its runtime is built.
Create(c) ==
  /\ At(c, "start") /\ Ask(c).route = "create"
  /\ \/ /\ NewFails(c, 500)
        /\ UNCHANGED lifeVars /\ UNCHANGED <<ceiling, host, sent, acked, holder>>
     \/ \E s \in Sessions :
          /\ Life!Appear(s)
          /\ ceiling' = [ceiling EXCEPT ![s] = RequestPolicy(Ask(c).policy)]
          /\ Answers(c, 200)
          /\ UNCHANGED <<host, sent, failures, acked, holder>>

----------------------------------------------------------------------------
\* Cancel.

\* Broken: whatever runs is stopped.
Broken_Expected(c) == shown[Sid(c)] # 0

\* What runs is what the caller expects; an execution it never saw is none.
Expected(c) == shown[Sid(c)] # 0 /\ shown[Sid(c)] = conn[c].seen

CancelCode(c) ==
  CASE ~Found(c) -> 404
    [] Found(c) /\ phase[Sid(c)] = "closed" -> 409
    [] OTHER -> IF Expected(c) THEN 200 ELSE 409

\* One that is being stopped already is not asked again.
Cancel(c) ==
  /\ At(c, "lookup") /\ Ask(c).route = "cancel"
  /\ Answers(c, CancelCode(c))
  /\ acked' = IF CancelCode(c) = 200 THEN acked \cup {conn[c].seen} ELSE acked
  /\ IF CancelCode(c) = 200 /\ status[Sid(c)] = "running" THEN Life!AskToStop(Sid(c)) ELSE UNCHANGED lifeVars
  /\ UNCHANGED <<ceiling, holder, host, sent, failures>>

----------------------------------------------------------------------------
\* Under executeMu.

Acquire(c) ==
  /\ At(c, "wait") /\ holder[Sid(c)] = Nobody
  /\ holder' = [holder EXCEPT ![Sid(c)] = c]
  /\ Goes(c, "locked")
  /\ NoEffect /\ UNCHANGED lifeVars

Closed(c) ==
  /\ At(c, "locked") /\ Ask(c).route # "resume" /\ phase[Sid(c)] = "closed"
  /\ Answers(c, 409) /\ Unlocked(c)
  /\ NoEffect /\ UNCHANGED lifeVars

Checkpoint(c) ==
  /\ At(c, "locked") /\ Ask(c).route = "checkpoint" /\ phase[Sid(c)] = "open"
  /\ Answers(c, 200) /\ Unlocked(c)
  /\ NoEffect /\ UNCHANGED lifeVars

Close(c) ==
  /\ At(c, "locked") /\ Ask(c).route = "close" /\ phase[Sid(c)] = "open"
  /\ Life!Shut(Sid(c))
  /\ Answers(c, 200) /\ Unlocked(c)
  /\ NoEffect

\* Resuming a session that is open is no error.
Resume(c) ==
  /\ At(c, "locked") /\ Ask(c).route = "resume"
  /\ Unlocked(c)
  /\ \/ /\ phase[Sid(c)] = "open"
        /\ Answers(c, 200) /\ NoEffect /\ UNCHANGED lifeVars
     \/ /\ phase[Sid(c)] = "closed"
        /\ Life!Reopen(Sid(c)) /\ Answers(c, 200) /\ NoEffect
     \/ /\ phase[Sid(c)] = "closed"
        /\ NewFails(c, 500)
        /\ UNCHANGED lifeVars /\ UNCHANGED <<ceiling, host, sent, acked>>

\* Broken: a request that names a policy runs under the session's.
Broken_PolicyFor(c) == ceiling[Sid(c)]

PolicyFor(c) == P!EffectivePolicy(RequestedPolicy(Ask(c).policy), ceiling[Sid(c)])
Admits(c) == P!Admitted(RequestedPolicy(Ask(c).policy), ceiling[Sid(c)])
Narrowed(c) == PolicyFor(c) # ceiling[Sid(c)]

\* A blank command is answered with its usage; a narrower policy takes a runtime
\* of its own, which may fail.
Admit(c) ==
  /\ At(c, "locked") /\ Ask(c).route = "execute" /\ phase[Sid(c)] = "open"
  /\ UNCHANGED lifeVars /\ UNCHANGED <<ceiling, host, sent, acked>>
  /\ \/ /\ ~Admits(c) \/ Ask(c).cmd = Blank
        /\ Answers(c, IF Admits(c) THEN 200 ELSE 400) /\ Unlocked(c) /\ UNCHANGED failures
     \/ /\ Admits(c) /\ Ask(c).cmd # Blank /\ Narrowed(c)
        /\ NewFails(c, 500) /\ Unlocked(c)
     \/ /\ Admits(c) /\ Ask(c).cmd # Blank
        /\ conn' = [conn EXCEPT ![c] = [@ EXCEPT !.stage = "start", !.policy = PolicyFor(c)]]
        /\ UNCHANGED <<holder, failures>>

Begin(c) ==
  /\ At(c, "start") /\ Ask(c).route = "execute" /\ Sid(c) # NoSession
  /\ Life!Begin(Sid(c))
  /\ conn' = [conn EXCEPT ![c] = [@ EXCEPT !.stage = "running", !.exec = issued + 1]]
  /\ UNCHANGED holder /\ NoEffect

\* An execution without a session has a policy preset and nobody can see it.
BeginAlone(c) ==
  /\ At(c, "start") /\ Ask(c).route = "execute" /\ Sid(c) = NoSession
  /\ UNCHANGED lifeVars /\ UNCHANGED <<ceiling, host, sent, acked, holder>>
  /\ \/ NewFails(c, 500)
     \/ /\ conn' = [conn EXCEPT ![c] = [@ EXCEPT !.stage = "running",
                                                !.policy = RequestPolicy(Ask(c).policy)]]
        /\ UNCHANGED failures

\* The client of a running command leaves, which ends the command's context; at
\* any other time nothing looks at it.
Hangup(c) ==
  /\ At(c, "running") /\ ~conn[c].gone
  /\ conn' = [conn EXCEPT ![c] = [@ EXCEPT !.gone = TRUE]]
  /\ OnlyConn

Asked(c) == conn[c].gone \/ (Sid(c) # NoSession /\ status[Sid(c)] = "canceling")

\* The command: it writes when its policy lets it, unless it is stopped first.
Run(c) ==
  /\ At(c, "running")
  /\ \E w \in {WorldOf(conn[c].policy)}, stopped \in {FALSE, Asked(c)} :
       /\ conn' = [conn EXCEPT ![c] = [@ EXCEPT !.stage = "finish", !.ran = TRUE,
                                               !.stopped = stopped]]
       /\ \E result \in Mutate(w, Ask(c).cmd.op, "none") :
            host' = IF w.allowWrite /\ ~stopped THEN result.world.host ELSE host
  /\ UNCHANGED lifeVars /\ UNCHANGED <<ceiling, holder, sent, failures, acked>>

\* Metadata is asked for about each path of the command, when it is asked for.
Executed(c) == [conn[c] EXCEPT !.stage = IF Ask(c).meta THEN "meta" ELSE "done",
                               !.code = 200, !.todo = Ask(c).cmd.paths]

\* The execution leaves its session; after a narrower policy the runtime of the
\* session is built anew, and if that fails the command has run all the same.
Finish(c) ==
  /\ At(c, "finish") /\ Sid(c) # NoSession
  /\ Life!Leave(Sid(c))
  /\ Unlocked(c)
  /\ UNCHANGED <<ceiling, host, sent, acked>>
  /\ \/ conn' = [conn EXCEPT ![c] = Executed(c)] /\ UNCHANGED failures
     \/ conn[c].policy # ceiling[Sid(c)] /\ NewFails(c, 500)

FinishAlone(c) ==
  /\ At(c, "finish") /\ Sid(c) = NoSession
  /\ conn' = [conn EXCEPT ![c] = Executed(c)]
  /\ OnlyConn

----------------------------------------------------------------------------
\* buildExecuteMeta, after executeMu was released.

\* Broken: the metadata is that of the session, not of the execution.
Broken_MetaWorld(c) ==
  WorldOf(IF Sid(c) = NoSession THEN conn[c].policy ELSE ceiling[Sid(c)])

\* The runtime the command ran on.
MetaWorld(c) == WorldOf(conn[c].policy)

NextPath(c) == CHOOSE p \in conn[c].todo : TRUE
WithRows(c, rows) ==
  [conn[c] EXCEPT !.stage = "meta", !.todo = @ \ {NextPath(c)}, !.rows = @ \cup rows]

\* A word that cannot be described is looked for once more with ls.
Describe(c) ==
  /\ At(c, "meta") /\ conn[c].todo # {}
  /\ \E w \in {MetaWorld(c)} : \E meta \in {DescribePath(w, NextPath(c))} :
       conn' = [conn EXCEPT ![c] =
                  IF Ok(meta.err) THEN WithRows(c, {DescribePathMeta(w, NextPath(c), meta)})
                  ELSE [@ EXCEPT !.stage = "describe"]]
  /\ OnlyConn

\* Broken: the script writes whatever the policy.
Broken_HostsOfScript(w, p) == {w.host} \cup {r.world.host : r \in Mutate(w, Scripts[p], "none")}

\* What a script may leave of the host: its commands are those of the runtime and
\* write when its policy lets them.
HostsOfScript(w, p) ==
  {w.host} \cup
  IF w.allowWrite THEN {r.world.host : r \in Mutate(w, Scripts[p], "none")} ELSE {}

\* A row for its own word that a script prints, and it may claim anything.
Claims(p) ==
  [path : {p}, known : {TRUE}, dir : {FALSE}, access : {"ro", "rw"},
   caps : {DefaultCapabilities(FALSE), DefaultCapabilities(FALSE) \cup WriteCapabilities}]

\* The word is put into the text of a script as it stands, unquoted, and the script is
\* run on the runtime of the command, which no lock keeps from others by now.
DescribeViaLS(c) ==
  /\ At(c, "describe")
  /\ LET p == NextPath(c)
     IN \E w \in {MetaWorld(c)} :
          IF p \notin DOMAIN Scripts
          THEN /\ \E rows \in {DescribePathMetaViaLS(w, p)} : conn' = [conn EXCEPT ![c] = WithRows(c, rows)]
               /\ UNCHANGED host
          ELSE /\ \E rows \in {{}} \cup {{row} : row \in Claims(p)} :
                    conn' = [conn EXCEPT ![c] = WithRows(c, rows)]
               /\ host' \in HostsOfScript(w, p)
  /\ UNCHANGED lifeVars /\ UNCHANGED <<holder, ceiling, sent, failures, acked>>

Respond(c) ==
  /\ At(c, "meta") /\ conn[c].todo = {}
  /\ Goes(c, "done")
  /\ OnlyConn

Handle(c) ==
  \/ Decode(c) \/ Lookup(c) \/ Get(c) \/ Create(c) \/ Cancel(c)
  \/ Acquire(c) \/ Closed(c) \/ Checkpoint(c) \/ Close(c) \/ Resume(c) \/ Admit(c)
  \/ Begin(c) \/ BeginAlone(c) \/ Finish(c) \/ FinishAlone(c) \/ Respond(c)

\* The steps that wait for the command or the file system.
Call(c) == Run(c) \/ Describe(c) \/ DescribeViaLS(c)

Next == \E c \in Conns : Handle(c) \/ Call(c) \/ Hangup(c) \/ \E ask \in Asks[c] : Send(c, ask)

\* A handler's goroutine is scheduled until it returns, and executeMu passes to those
\* who wait for it; a command ends by its policy's timeout, and a call returns.
InCall(c) == conn[c].stage \in {"running", "describe"} \/ (At(c, "meta") /\ conn[c].todo # {})

Fairness == \A c \in Conns : WF_vars(Handle(c)) /\ []<>~InCall(c)

Spec == Init /\ [][Next]_vars /\ Fairness

----------------------------------------------------------------------------

InHand(c) == conn[c].stage \notin {"idle", "done"}

\* What a request may do at most: what its own policy and its session's both let it.
MayWrite(c) ==
  /\ Ask(c).policy # "" => P!AllowWrite(P!PolicyPreset(Ask(c).policy))
  /\ Sid(c) # NoSession => P!AllowWrite(ceiling[Sid(c)])
  /\ (Sid(c) = NoSession /\ Ask(c).policy = "") => P!AllowWrite(P!PolicyPreset(DefaultName))

\* The host changes only by the command of a request, or by a look-up of a word of it
\* that is a script, and in both cases only if the policy of the request and the
\* ceiling of its session let it be written, whatever the other requests ask for
\* (execute_endpoint.go:203, :450, session_manager.go:219).
PolicyInForce ==
  [][host' # host => \E c \in Conns :
       /\ MayWrite(c)
       /\ \/ At(c, "running") /\ conn'[c].ran
          \/ At(c, "describe") /\ NextPath(c) \in DOMAIN Scripts]_vars

\* An answer says what was done: a refused request began nothing, an accepted
\* command ran once, and a command that was stopped was stopped by its client's
\* leaving or by a cancel that named this very execution and was answered
\* (execute_endpoint.go:161, session_manager.go:137).
AnswersAreTrue ==
  \A c \in Conns :
    /\ (At(c, "done") /\ conn[c].code \in 400 .. 409) => conn[c].exec = 0 /\ ~conn[c].ran
    /\ (At(c, "done") /\ conn[c].code = 200 /\ Ask(c).cmd # Blank) => conn[c].ran
    /\ conn[c].stopped => conn[c].gone \/ conn[c].exec \in acked

\* The metadata of an answer never offers a write that the policy of its own
\* request forbids, although it is collected when others may hold the session, but
\* for a word that is a script and prints its own row (execute_endpoint.go:224, :461).
MetaIsTrue ==
  \A c \in Conns : \A row \in conn[c].rows :
    (row.access = "rw" \/ row.caps \cap WriteCapabilities # {})
      => MayWrite(c) \/ row.path \in DOMAIN Scripts

\* The paths whose metadata is collected next, in the tree and under the policy it
\* is collected in.
Described(c) == IF At(c, "meta") THEN conn[c].todo ELSE {}

\* The metadata of a path, the row ls -l shows for the path and the row in the
\* listing of its directory are one, in any tree that requests may leave behind
\* (op_listing.go:227, :335, execute_endpoint.go:389); and a path of the file system is
\* shown as writable where a write would be let through and nowhere else
\* (filespace_core.go:469, orchestrator_path_policy.go:28).
RowsTrue ==
  \A c \in Conns : \A p \in Described(c), w \in {MetaWorld(c)} :
    RowsAgree(w, p) /\ OffersWhatIsAllowed(w, p)

\* ls -R lists what find finds.
RecursionTrue ==
  \A c \in Conns : \A p \in Described(c), w \in {MetaWorld(c)} : RecursionFindsAll(w, p, Depth)

\* What the listings and the metadata say of a path is one thing, and it is true.
ListingsTrue == RowsTrue /\ RecursionTrue

\* Every request is answered: no handler waits for ever for the session another one
\* has, whatever is cancelled, closed or refused in between.
Answered == \A c \in Conns : InHand(c) ~> ~InHand(c)
============================================================================
