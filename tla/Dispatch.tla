------------------------------ MODULE Dispatch ------------------------------
(***************************************************************************)
(* How one command line finds what runs it: aliases and rc files, the      *)
(* builtin registry and its profiles, external commands, and the commands  *)
(* that find -exec dispatches (pkg/engine/orchestrator.go and              *)
(* orchestrator_bootstrap.go, pkg/builtin/op_path_discovery.go), with the  *)
(* audit and the steps of the trace they leave.                            *)
(*                                                                         *)
(* A step is what happens between two places where something else is asked *)
(* or the context may end.  Outputs are their sizes.                       *)
(***************************************************************************)
EXTENDS Integers, Sequences, SequencesExt, FiniteSetsExt

CONSTANTS
  Specs,             \* the builtins, as registered: records of name and caps
  ProfileCaps,       \* the capabilities of the profile
  PathRefs,          \* path-like references: what namespace and name they denote
  Externals,         \* the names the host lists as external commands
  Configured,        \* the configured aliases
  RCFiles,           \* the rc files, in order
  RCContent,         \* per file a sequence of lines, "missing" or "failing"
  Tree,              \* per directory its files
  Flags,             \* words that start with a dash and mean nothing
  Commands,          \* command lines
  Replies,           \* what the host may answer to an external command
  PlainResults,      \* what other builtins may return
  MaxAliasDepth, MaxDispatchDepth,
  MaxOutput          \* the output limit of the policy, 0 for none

ASSUME DepthAssumption == MaxDispatchDepth \in Nat /\ MaxAliasDepth \in Nat /\ MaxOutput \in Nat

ASSUME PathRefAssumption ==
  \A word \in DOMAIN PathRefs :
    PathRefs[word] \in [ok : BOOLEAN, name : STRING, namespace : {"builtin", "external", "none"}]

\* Command lines, aliases and the names of files are words, and no command line is
\* empty (orchestrator.go:416).
ASSUME WordsAssumption ==
  /\ \A args \in Commands : args \in Seq(STRING) /\ args # <<>>
  /\ \A name \in DOMAIN Configured : Configured[name] \in Seq(STRING)
  /\ Len(RCFiles) \in Nat
  /\ \A i \in 1 .. Len(RCFiles) :
       RCContent[RCFiles[i]].found = "yes" =>
         RCContent[RCFiles[i]].lines \in Seq([kind : STRING, name : STRING, words : Seq(STRING)])
  /\ \A dir \in DOMAIN Tree : Tree[dir] \in Seq(STRING)

\* What fails is told apart from what ran (orchestrator.go:682).
ASSUME RepliesAssumption ==
  \A reply \in Replies : reply.exit \in Int /\ reply.err \notin {"success", "non_zero_exit"}

VARIABLES
  runner,     \* whether the host runs external commands
  aliases,    \* the aliases in force
  pc,         \* what happens next
  stack,      \* the builtins that run, the innermost last
  audit,      \* events
  executed,   \* steps that ran
  outcomes,   \* what came of external commands
  ended       \* whether the context has ended

vars == <<runner, aliases, pc, stack, audit, executed, outcomes, ended>>

NoCode == -1
General == 1
Usage == 2
Unsupported == 3

Out(stdout, stderr, code) == [stdout |-> stdout, stderr |-> stderr, code |-> code]
Says(code) == Out(1, 0, code)
OutputSize(out) == out.stdout + out.stderr
Flat(out) == Out(OutputSize(out), 0, out.code)

\* What is left of an output that is too long fails.
EnforceOutputLimit(out) ==
  IF MaxOutput = 0 \/ OutputSize(out) <= MaxOutput THEN out
  ELSE Out(Min({out.stdout, MaxOutput}), MaxOutput - Min({out.stdout, MaxOutput}),
           IF out.code = 0 THEN General ELSE out.code)

----------------------------------------------------------------------------
\* The registry.

\* A name is registered once; a second registration panics.
CanRegister(registry, spec) == spec.name # "" /\ spec.name \notin DOMAIN registry
Register(registry, spec) == registry @@ (spec.name :> spec.caps)

Registry == FoldLeft(Register, [n \in {} |-> {}], Specs)

ASSUME RegistryAssumption ==
  \A i, j \in DOMAIN Specs : Specs[i].name # "" /\ (i # j => Specs[i].name # Specs[j].name)

IsCommandAllowedByProfile(name) == Registry[name] \subseteq ProfileCaps

----------------------------------------------------------------------------
\* Aliases.

\* The words that are wanted, in their order.
Only(words, wanted) ==
  LET kept[n \in 0 .. Len(words)] ==
        IF n = 0 THEN <<>>
        ELSE IF words[n] \in wanted THEN Append(kept[n - 1], words[n]) ELSE kept[n - 1]
  IN kept[Len(words)]

NormalizeCommandAliases(raw) ==
  LET tokens(name) == Only(raw[name], Range(raw[name]) \ {""})
      valid == {n \in DOMAIN raw : n # "" /\ n \notin DOMAIN PathRefs /\ tokens(n) # <<>>}
  IN [n \in valid |-> tokens(n)]

\* The overlay wins.
MergeCommandAliases(base, overlay) ==
  LET over == NormalizeCommandAliases(overlay)
      under == NormalizeCommandAliases(base)
  IN [n \in DOMAIN over \cup DOMAIN under |-> IF n \in DOMAIN over THEN over[n] ELSE under[n]]

\* The aliases of an rc file, the last line of a name; a line that is neither an
\* alias nor an export makes the whole file unreadable.
BadLine(line) == line.kind = "bad"
ParseRCContent(lines) ==
  LET defining == {i \in DOMAIN lines : lines[i].kind = "alias"}
  IN [name \in {lines[i].name : i \in defining} |->
        lines[Max({i \in defining : lines[i].name = name})].words]

\* Broken: what was typed after an alias is lost.
Broken_Substitute(args) == aliases[Head(args)]

Substitute(args) == aliases[Head(args)] \o Tail(args)

----------------------------------------------------------------------------
\* References and lookups.

NormalizeCommandReference(word) ==
  IF word \in DOMAIN PathRefs THEN [PathRefs[word] EXCEPT !.ok = PathRefs[word].namespace # "none"]
  ELSE [ok |-> word # "", name |-> word, namespace |-> ""]

\* Broken: what the profile forbids is looked for outside.
Broken_Decide(ref) ==
  LET isBuiltin == ref.namespace # "external" /\ ref.name \in DOMAIN Registry
  IN CASE ~ref.ok -> [kind |-> "refused", code |-> General]
       [] ref.ok /\ isBuiltin /\ IsCommandAllowedByProfile(ref.name) -> [kind |-> "builtin"]
       [] OTHER -> IF ref.namespace = "builtin" \/ ended THEN [kind |-> "refused", code |-> General]
                   ELSE [kind |-> "external"]

\* How runCommand takes the command of a reference: refused with a code, builtin or
\* external.
Decide(ref) ==
  LET isBuiltin == ref.namespace # "external" /\ ref.name \in DOMAIN Registry
      refused(code) == [kind |-> "refused", code |-> code]
  IN CASE ~ref.ok -> refused(General)
       [] ref.ok /\ isBuiltin ->
            IF IsCommandAllowedByProfile(ref.name) THEN [kind |-> "builtin"] ELSE refused(Unsupported)
       [] OTHER -> IF ref.namespace = "builtin" \/ ended THEN refused(General) ELSE [kind |-> "external"]

\* Broken: a path under /bin may name a builtin.
Broken_ResolveOneCommandLookup(word) ==
  LET ref == NormalizeCommandReference(word)
  IN CASE ~ref.ok -> "error"
       [] ref.ok /\ ref.namespace = "" /\ ref.name \in DOMAIN aliases -> "alias"
       [] ref.ok /\ ref.name \in DOMAIN Registry -> "builtin"
       [] OTHER -> IF ref.namespace # "builtin" /\ ref.name \in Externals THEN "external" ELSE "missing"

\* What which and type say of a command.
ResolveOneCommandLookup(word) ==
  LET ref == NormalizeCommandReference(word)
      aliased == ref.namespace = "" /\ ref.name \in DOMAIN aliases
      builtin == ref.namespace # "external" /\ ref.name \in DOMAIN Registry
      external == ref.namespace # "builtin" /\ ref.name \in Externals
  IN CASE ~ref.ok -> "error"
       [] ref.ok /\ aliased -> "alias"
       [] ref.ok /\ ~aliased /\ builtin -> "builtin"
       [] OTHER -> IF external THEN "external" ELSE "missing"

----------------------------------------------------------------------------
\* find.

NoArgs == [mode |-> "any", patterns |-> {}, or |-> FALSE, exec |-> <<>>, plus |-> FALSE,
           target |-> "", failed |-> FALSE]

\* One argument; the --fmt of its output is left out.
ParseFindArg(o, arg) ==
  CASE o.mode = "pattern" -> [o EXCEPT !.patterns = @ \cup {arg}, !.mode = "any", !.or = FALSE]
    [] o.mode = "exec" /\ arg \notin {";", "+"} -> [o EXCEPT !.exec = Append(@, arg)]
    [] o.mode = "exec" /\ arg \in {";", "+"} ->
         [o EXCEPT !.mode = "any", !.plus = arg = "+", !.or = FALSE, !.failed = @ \/ o.exec = <<>>]
    [] o.mode = "any" /\ arg = "-name" -> [o EXCEPT !.mode = "pattern"]
    [] o.mode = "any" /\ arg = "-o" ->
         [o EXCEPT !.failed = @ \/ o.patterns = {} \/ o.or, !.or = TRUE]
    [] o.mode = "any" /\ arg = "-exec" ->
         [o EXCEPT !.failed = @ \/ o.exec # <<>>, !.mode = "exec"]
    [] OTHER -> [o EXCEPT !.failed = @ \/ o.target # "" \/ arg \in Flags \cup {""}, !.target = arg]

ReadFindArgs(args) ==
  LET read[n \in 0 .. Len(args)] == IF n = 0 THEN NoArgs ELSE ParseFindArg(read[n - 1], args[n])
  IN read[Len(args)]

\* The one reading of all arguments, as a set.
ParseFindArgs(args) ==
  {[o EXCEPT !.failed = @ \/ o.mode # "any" \/ o.or,
             !.target = IF @ = "" THEN "/" ELSE @,
             !.patterns = IF @ = {} THEN {"*"} ELSE @] :
     o \in {ReadFindArgs(args)}}

ExpandFindExecArgs(exec, files) ==
  LET expanded[n \in 0 .. Len(exec)] ==
        IF n = 0 THEN <<>> ELSE expanded[n - 1] \o (IF exec[n] = "{}" THEN files ELSE <<exec[n]>>)
  IN expanded[Len(exec)] \o (IF \E i \in DOMAIN exec : exec[i] = "{}" THEN <<>> ELSE files)

Matched(o) ==
  Only(Tree[o.target], IF "*" \in o.patterns THEN Range(Tree[o.target]) ELSE o.patterns)

\* What a find will do: the commands it dispatches, or what it returns at once.
Body(todo, plus, results) == [todo |-> todo, plus |-> plus, results |-> results]

RunFindOn(o) ==
  CASE o.failed -> Body(<<>>, FALSE, {Says(Usage)})
    [] ~o.failed /\ o.target \notin DOMAIN Tree -> Body(<<>>, FALSE, {Says(General)})
    [] OTHER ->
         LET files == Matched(o)
         IN CASE o.exec = <<>> -> Body(<<>>, FALSE, {Out(Len(files), 0, 0)})
              [] o.exec # <<>> /\ files = <<>> -> Body(<<>>, FALSE, {Out(0, 0, 0)})
              [] OTHER ->
                   IF o.plus THEN Body(<<ExpandFindExecArgs(o.exec, files)>>, TRUE, {})
                   ELSE Body([i \in DOMAIN files |-> ExpandFindExecArgs(o.exec, <<files[i]>>)],
                             FALSE, {})

RunFind(args) == {RunFindOn(o) : o \in ParseFindArgs(args)}

----------------------------------------------------------------------------

Event(phase, name, args, code) == [phase |-> phase, command |-> name, args |-> args, code |-> code]
Ending(name, args, code) == Event(IF code = 0 THEN "end" ELSE "error", name, args, code)

Call(args) == [kind |-> "call", args |-> args]

\* A result goes to the builtin that dispatched the command, flattened, or ends
\* the command line.
Return(out, frames) ==
  pc' = IF frames = <<>> THEN [kind |-> "done", out |-> out] ELSE [kind |-> "back", out |-> Flat(out)]

Init ==
  /\ runner \in BOOLEAN
  /\ aliases = NormalizeCommandAliases(Configured)
  /\ pc = [kind |-> "boot", next |-> 1]
  /\ stack = <<>> /\ audit = <<>> /\ executed = <<>> /\ outcomes = <<>>
  /\ ended = FALSE

Overlay(lines) == MergeCommandAliases(aliases, ParseRCContent(lines))

\* withRuntimeBootstrap, a file at a time; what cannot be read or parsed fails the
\* preparation.
LoadRC ==
  /\ pc.kind = "boot" /\ pc.next <= Len(RCFiles)
  /\ LET content == RCContent[RCFiles[pc.next]]
         lines == IF content.found = "yes" THEN content.lines ELSE <<>>
         bad == content.found = "failing" \/ \E i \in DOMAIN lines : BadLine(lines[i])
     IN /\ pc' = IF bad THEN [kind |-> "done", out |-> Says(General)] ELSE [kind |-> "boot", next |-> pc.next + 1]
        /\ aliases' = IF bad THEN aliases ELSE Overlay(lines)
  /\ UNCHANGED <<runner, stack, audit, executed, outcomes, ended>>

Begin ==
  /\ pc.kind = "boot" /\ pc.next = Len(RCFiles) + 1
  /\ \E args \in Commands : pc' = Call(args)
  /\ UNCHANGED <<runner, aliases, stack, audit, executed, outcomes, ended>>

Cancel ==
  /\ pc.kind \notin {"boot", "done"} /\ ~ended
  /\ ended' = TRUE
  /\ UNCHANGED <<runner, aliases, pc, stack, audit, executed, outcomes>>

\* runCommand from its start: an ended context refuses at once.
Enter ==
  /\ pc.kind = "call"
  /\ IF ended THEN Return(Says(General), stack)
     ELSE pc' = [kind |-> "alias", typed |-> pc.args, args |-> pc.args, seen |-> {}]
  /\ UNCHANGED <<runner, aliases, stack, audit, executed, outcomes, ended>>

\* One pass of the loop; an alias in force is never empty.
ExpandCommandAlias ==
  /\ pc.kind = "alias"
  /\ LET name == Head(pc.args)
         isAlias == name \in DOMAIN aliases
     IN IF Cardinality(pc.seen) = MaxAliasDepth \/ (isAlias /\ name \in pc.seen)
        THEN Return(Says(Usage), stack)
        ELSE pc' = IF isAlias THEN [kind |-> "alias", typed |-> pc.typed, args |-> Substitute(pc.args),
                                    seen |-> pc.seen \cup {name}]
                   ELSE [kind |-> "run", typed |-> pc.typed, args |-> pc.args]
  /\ UNCHANGED <<runner, aliases, stack, audit, executed, outcomes, ended>>

Named == NormalizeCommandReference(Head(pc.args))

Refuse ==
  /\ pc.kind = "run" /\ Decide(Named).kind = "refused"
  /\ Return(Says(Decide(Named).code), stack)
  /\ UNCHANGED <<runner, aliases, stack, audit, executed, outcomes, ended>>

StartBuiltin ==
  /\ pc.kind = "run" /\ Decide(Named).kind = "builtin"
  /\ \E name \in {Named.name} :
       \E body \in IF name = "find" THEN RunFind(Tail(pc.args)) ELSE {Body(<<>>, FALSE, PlainResults)} :
        /\ stack' = Append(stack, [name |-> name, args |-> pc.args, out |-> 0, body |-> body])
        /\ audit' = Append(audit, Event("start", name, Tail(pc.args), 0))
  /\ pc' = [kind |-> "body"]
  /\ UNCHANGED <<runner, aliases, executed, outcomes, ended>>

\* The builtin on top of the stack returns.
EndBuiltin(out) ==
  LET frame == Last(stack)
      rest == Front(stack)
  IN /\ stack' = rest
     /\ audit' = Append(audit, Ending(frame.name, Tail(frame.args), out.code))
     /\ executed' = Append(executed, [command |-> frame.name, argv |-> frame.args,
                                      namespace |-> "builtin", code |-> out.code])
     /\ Return(EnforceOutputLimit(out), rest)
     /\ UNCHANGED <<runner, aliases, outcomes, ended>>

Finish ==
  /\ pc.kind = "body" /\ Last(stack).body.todo = <<>>
  /\ \E out \in Last(stack).body.results : EndBuiltin(out)

\* Broken: a command that is nested too deep waits for another to end.
Waiting_DispatchNext ==
  /\ pc.kind = "body" /\ Last(stack).body.todo # <<>>
  /\ Len(stack) <= MaxDispatchDepth
  /\ pc' = Call(Head(Last(stack).body.todo))
  /\ UNCHANGED <<runner, aliases, stack, audit, executed, outcomes, ended>>

\* The next command of a find -exec; nesting has a limit of its own.
DispatchNext ==
  /\ pc.kind = "body" /\ Last(stack).body.todo # <<>>
  /\ pc' = IF Len(stack) > MaxDispatchDepth THEN [kind |-> "back", out |-> Says(General)]
           ELSE Call(Head(Last(stack).body.todo))
  /\ UNCHANGED <<runner, aliases, stack, audit, executed, outcomes, ended>>

\* The rest of a find after one of its commands has succeeded.
FindGoesOn(frame, out) ==
  LET acc == frame.out + out.stdout
      left == Tail(frame.body.todo)
  IN [frame EXCEPT !.out = acc, !.body.todo = left,
                   !.body.results = IF left = <<>> THEN {Out(acc, 0, 0)} ELSE {}]

\* Broken: a find goes on after a failure.
Broken_StopsFind(frame, out) == frame.body.plus

StopsFind(frame, out) == frame.body.plus \/ out.code # 0

\* What a find returns when it goes no further; a failure is never silent, except
\* that of a command for all files at once.
FindStop ==
  /\ pc.kind = "back" /\ StopsFind(Last(stack), pc.out)
  /\ LET silent == pc.out.stdout = 0 /\ ~Last(stack).body.plus
     IN EndBuiltin(IF silent THEN Says(pc.out.code) ELSE pc.out)

FindGo ==
  /\ pc.kind = "back" /\ ~StopsFind(Last(stack), pc.out)
  /\ stack' = Append(Front(stack), FindGoesOn(Last(stack), pc.out))
  /\ pc' = [kind |-> "body"]
  /\ UNCHANGED <<runner, aliases, audit, executed, outcomes, ended>>

----------------------------------------------------------------------------
\* External commands.

\* What a reply comes to, with no or one raw exit code: the code, whether the command ran, and what is said when
\* it says nothing itself.
OutcomeKind(reply) ==
  CASE reply.err # "none" -> reply.err
    [] reply.err = "none" /\ reply.exit = 0 -> "success"
    [] OTHER -> "non_zero_exit"

CompatCode(reply) ==
  CASE reply.err = "unsupported" -> Unsupported
    [] reply.err \notin {"none", "unsupported"} -> General
    [] OTHER -> IF reply.exit < 0 THEN General ELSE reply.exit

EffectiveRawExitCode(reply) ==
  IF reply.raw = <<>> /\ reply.exit < 0 THEN <<reply.exit>> ELSE reply.raw

\* A failure says something.
ExternalOutput(reply) ==
  LET said == Out(reply.stdout, reply.stderr, CompatCode(reply))
  IN IF OutputSize(said) > 0 \/ OutcomeKind(reply) = "success" THEN said
     ELSE IF reply.err \in {"not_found", "unsupported"} THEN [said EXCEPT !.stdout = 1]
          ELSE [said EXCEPT !.stderr = 1]

NoRunner == [err |-> "unsupported", exit |-> 0, raw |-> <<>>, stdout |-> 0, stderr |-> 0]

\* Broken: a command the host does not support leaves no event.
Broken_ExternalEvents(name, args, reply) ==
  <<Event("start", name, args, 0)>>
  \o (IF reply.err = "unsupported" THEN <<>> ELSE <<Ending(name, args, CompatCode(reply))>>)

ExternalEvents(name, args, reply) ==
  <<Event("start", name, args, 0), Ending(name, args, CompatCode(reply))>>

RanExternally(reply) == reply.err = "none"

RunExternalCommand ==
  /\ pc.kind = "run" /\ Decide(Named).kind = "external"
  /\ \E reply \in IF runner THEN Replies ELSE {NoRunner} :
       LET name == Named.name
           args == Tail(pc.args)
           step == [command |-> name, argv |-> <<name>> \o args, namespace |-> "external",
                    target |-> Head(pc.args), kind |-> OutcomeKind(reply), executed |-> RanExternally(reply),
                    code |-> CompatCode(reply), raw |-> EffectiveRawExitCode(reply)]
       IN /\ audit' = audit \o ExternalEvents(name, args, reply)
          /\ outcomes' = Append(outcomes, step)
          /\ executed' = IF RanExternally(reply)
                         THEN Append(executed, [command |-> name, argv |-> step.argv,
                                                namespace |-> "external", code |-> NoCode])
                         ELSE executed
          /\ Return(EnforceOutputLimit(ExternalOutput(reply)), stack)
  /\ UNCHANGED <<runner, aliases, stack, ended>>

----------------------------------------------------------------------------

Step == \/ LoadRC \/ Begin \/ Enter \/ ExpandCommandAlias \/ Refuse \/ StartBuiltin
        \/ Finish \/ DispatchNext \/ FindStop \/ FindGo \/ RunExternalCommand

Next == Step \/ Cancel

Spec == Init /\ [][Next]_vars /\ WF_vars(Step)

----------------------------------------------------------------------------
\* What must hold.

\* Expansion is substitution at the head, repeated until the head is no alias; it
\* is refused exactly when that takes the limit or more (orchestrator.go:369).
SubstitutedOnce(args) ==
  IF Head(args) \in DOMAIN aliases THEN aliases[Head(args)] \o Tail(args) ELSE args
Substituted(args, n) ==
  LET after[k \in 0 .. n] == IF k = 0 THEN args ELSE SubstitutedOnce(after[k - 1])
  IN after[n]
AliasIsSubstitution ==
  [][pc.kind = "alias" /\ pc' # pc /\ pc'.kind # "alias" =>
       LET enough == {n \in 0 .. (MaxAliasDepth - 1) :
                        Head(Substituted(pc.typed, n)) \notin DOMAIN aliases}
       IN /\ pc'.kind = "run" <=> enough # {}
          /\ pc'.kind = "run" => pc'.args = Substituted(pc.typed, Min(enough))]_vars

\* which and type tell what would run: "Lookup order matches command execution:
\* alias -> /sys/bin builtin -> /bin custom external" (op_command_lookup.go:164).
LookupMatchesRun ==
  pc.kind = "run" =>
    LET word == Head(pc.typed)
        found == ResolveOneCommandLookup(word)
        d == Decide(Named)
    IN /\ found = "alias" <=> word \in DOMAIN aliases
       /\ found = "builtin" => d.kind = "builtin" \/ (d.kind = "refused" /\ d.code = Unsupported)
       /\ found = "external" => d.kind = "external" \/ ended
       /\ found \in {"missing", "error"} => d.kind \in {"external", "refused"}
       /\ d.kind = "external" => found \in {"alias", "external", "missing"}

\* The events of the audit nest: what is open is what is running, and what ends is
\* what was begun last, whatever path a command takes (orchestrator.go:499).
After(open, e) ==
  IF e.phase = "start" THEN Append(open, <<e.command, e.args>>)
  ELSE IF open # <<>> /\ Last(open) = <<e.command, e.args>> THEN Front(open)
  ELSE Append(open, <<"unmatched", e.args>>)
Opened(events) ==
  LET open[n \in 0 .. Len(events)] == IF n = 0 THEN <<>> ELSE After(open[n - 1], events[n])
  IN open[Len(events)]
AuditNests ==
  Opened(audit) = [i \in DOMAIN stack |-> <<stack[i].name, Tail(stack[i].args)>>]

\* Audit and trace agree on what ended, in which order and how: the n-th ending is
\* the b-th step of a builtin or the k-th outcome of an external command, where
\* b + k = n, and the commands that ran on the host are the outcomes that say so, in
\* their order (orchestrator.go:640).
Endings == {i \in DOMAIN audit : audit[i].phase # "start"}
StepsOf(namespace) == {i \in DOMAIN executed : executed[i].namespace = namespace}
Ran == {i \in DOMAIN outcomes : outcomes[i].executed}
UpTo(places, i) == Cardinality({j \in places : j <= i})
Tells(event, step) ==
  event.command = step.command /\ event.args = Tail(step.argv) /\ event.code = step.code

EndingsTold ==
  /\ Cardinality(Endings) = Cardinality(StepsOf("builtin")) + Len(outcomes)
  /\ \A i \in Endings :
       \/ \E j \in StepsOf("builtin") :
            /\ Tells(audit[i], executed[j])
            /\ UpTo(Endings, i) - UpTo(StepsOf("builtin"), j) \in 0 .. Len(outcomes)
       \/ \E j \in DOMAIN outcomes :
            /\ Tells(audit[i], outcomes[j])
            /\ UpTo(Endings, i) - j \in 0 .. Cardinality(StepsOf("builtin"))
HostRuns ==
  /\ Cardinality(StepsOf("external")) = Cardinality(Ran)
  /\ \A i \in StepsOf("external") : \E j \in Ran :
       /\ UpTo(StepsOf("external"), i) = UpTo(Ran, j)
       /\ executed[i].command = outcomes[j].command /\ executed[i].argv = outcomes[j].argv
OutcomesClassified ==
  \A i \in DOMAIN outcomes :
    /\ outcomes[i].code = 0 <=> outcomes[i].kind = "success"
    /\ outcomes[i].code >= 0
    /\ outcomes[i].executed <=> outcomes[i].kind \in {"success", "non_zero_exit"}
TraceMatchesAudit == EndingsTold /\ HostRuns /\ OutcomesClassified

\* The audit and the trace of a command line tell one story.
AuditFaithful == AuditNests /\ TraceMatchesAudit

\* No builtin runs outside the profile, and none is looked for on the host
\* under its bare name, through aliases, paths and nested commands
\* (orchestrator.go:432).
ProfileHolds ==
  /\ \A i \in DOMAIN stack : IsCommandAllowedByProfile(stack[i].name)
  /\ \A i \in DOMAIN executed :
       executed[i].namespace = "builtin" => IsCommandAllowedByProfile(executed[i].command)
  /\ \A i \in DOMAIN outcomes : outcomes[i].command \in DOMAIN Registry => outcomes[i].target \in DOMAIN PathRefs

\* A find that succeeds has dispatched its command for every match, in order, and
\* every one of them has succeeded (op_path_discovery.go:197); a find of the host is
\* told by its outcome.
Starts == {i \in DOMAIN audit : audit[i].phase = "start"}
Depth(i) == UpTo(Starts, i) - UpTo(Endings, i)
Opener(j) == Max({i \in Starts : i < j /\ Depth(i) = Depth(j) + 1})
Children(i, j) == {k \in Endings : i < k /\ k < j /\ Depth(k) = Depth(i)}
RunsAll(body, children) ==
  /\ Cardinality(children) = Len(body.todo)
  /\ \A k \in children :
       /\ audit[k].phase = "end"
       /\ IsSuffix(Tail(body.todo[UpTo(children, k)]), audit[k].args)
FindRunsAll ==
  \A j \in DOMAIN audit :
    audit[j].phase = "end" /\ audit[j].command = "find" =>
      \/ \A body \in RunFind(audit[j].args) : RunsAll(body, Children(Opener(j), j))
      \/ \E i \in Ran : Tells(audit[j], outcomes[i])

\* A command line comes to an end, however its aliases and its nested commands
\* call each other, if the builtins and the host do (orchestrator.go:443).
Terminates == <>(pc.kind = "done")
============================================================================
