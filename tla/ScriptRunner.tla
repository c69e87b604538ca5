---------------------------- MODULE ScriptRunner ----------------------------
(***************************************************************************)
(* One execution of a parsed script: pkg/engine/script_runner.go, and what *)
(* it calls of pkg/engine/orchestrator.go (runCommand, the output limit).  *)
(*                                                                         *)
(* A script is a list of statements; a statement is pipelines joined by && *)
(* and ||; a pipeline is commands with redirections (script_ir.go).  What  *)
(* a command does is left open: it produces any output, any exit code, and *)
(* a cd moves the working directory.  The context of the execution may be  *)
(* done (cancelled, timed out) at any moment, which the runner sees only   *)
(* where it asks, and a command may or may not notice.                     *)
(***************************************************************************)
EXTENDS Policy, Sequences, SequencesExt

CONSTANTS
    Scripts,        \* the scripts that are run, parsed
    RunPolicies,    \* the policies they are run under
    MaxStatements,  \* maxExecuteStatements
    Sizes,          \* the lengths of what commands print
    Dirs,           \* working directories
    Targets, Null,  \* what redirections name; Null is /dev/null
    Paths, At,      \* At[d][t]: the path that target t names in directory d
    Writable,       \* the paths CheckPathOp lets be written
    Appendable      \* those of them whose mount also knows how to append

Redirections == [kind : {"file", "here", "write", "append"}, target : Targets]
Commands == [kind : {"builtin", "external", "cd"}, redirs : Seq(Redirections)]
Pipelines == [op : {"", "&&", "||"}, commands : Seq(Commands) \ {<< >>}]

ASSUME ScriptAssumption ==
    /\ Scripts \subseteq Seq(Seq(Pipelines) \ {<< >>})
    /\ \A s \in Scripts : \A i \in DOMAIN s : \A p \in DOMAIN s[i] :
           s[i][p].op = "" <=> p = 1
    /\ RunPolicies \subseteq Policies
    /\ MaxStatements \in Nat /\ Sizes \subseteq Nat
    /\ Null \in Targets
    /\ At \in [Dirs -> [Targets -> Paths]]
    /\ Writable \subseteq Paths /\ Appendable \subseteq Writable

VARIABLES
    script, policy,      \* what is run, and under which policy
    ctxDone,             \* executionContextErr(ctx) # nil
    dir, files,          \* the working directory, the content of the paths
    pc, st, pl, sg, rd,  \* where the runner is: statement, pipeline, stage,
                         \* output redirection
    status, last,        \* statementResult, lastResult
    input,               \* what the stage reads, or NoInput
    current, stderr,     \* in a pipeline: the last output, pipelineStderr
    truncated,           \* the trace's OutputTruncated
    result,              \* what runScript returned
    codes,               \* ghost: the exit codes of the pipelines that ran
    outputs              \* ghost: what the commands that ended with 0 printed

run      == <<script, policy>>
position == <<st, pl, sg, rd>>
pipe     == <<input, current, stderr>>
ghosts   == <<codes, outputs>>
vars     == <<run, ctxDone, dir, files, pc, position, status, last, pipe, truncated,
              result, ghosts>>
-----------------------------------------------------------------------------
(***************************************************************************)
(* Text: its length, whether it ends a line, whether all of it is there,   *)
(* and the stage that printed it (<< >>: the runner, or a file).  Text     *)
(* that is only white space is left out.                                   *)
(***************************************************************************)
Stages == Nat \X Nat \X Nat
Texts == [size : Nat, nl : BOOLEAN, whole : BOOLEAN, by : Stages \cup {<< >>}]

Empty == [size |-> 0, nl |-> FALSE, whole |-> TRUE, by |-> << >>]
NoInput == << >>

\* An error message of the runner, or what is read from a file.
Message == [size |-> 1, nl |-> FALSE, whole |-> TRUE, by |-> << >>]

\* appendOutputText, and flattenExecOutput likewise.
AppendText(a, b) ==
    IF a.size = 0 THEN b
    ELSE IF b.size = 0 THEN a
    ELSE [size  |-> a.size + b.size + (IF a.nl THEN 0 ELSE 1),
          nl    |-> b.nl,
          whole |-> a.whole /\ b.whole,
          by    |-> << >>]

\* truncateUTF8String, for text of one byte a rune and one line.
CutTo(t, limit) ==
    IF t.size <= limit THEN t
    ELSE [size |-> limit, nl |-> FALSE, whole |-> FALSE, by |-> t.by]

\* execOutput.
Output(out, err, code) == [stdout |-> out, stderr |-> err, code |-> code]

Outputs == [stdout : Texts, stderr : Texts, code : 0 .. 1]
Nothing == Output(Empty, Empty, 0)
Failure == Output(Message, Empty, 1)

outputSize(o) == o.stdout.size + o.stderr.size

\* Broken: text is cut and nobody is told.
Broken_truncateExecOutput(o, limit) ==
    LET out == CutTo(o.stdout, limit)
    IN  IF outputSize(o) <= limit THEN o
        ELSE Output(out, CutTo(o.stderr, limit - out.size), o.code)

truncateExecOutput(o, limit) ==
    LET out == CutTo(o.stdout, limit)
    IN  IF outputSize(o) <= limit THEN o
        ELSE Output(out, CutTo(o.stderr, limit - out.size), 1)

\* enforceOutputLimit, applied to what every command returns.
enforceOutputLimit(o) ==
    IF OutputAllowed(policy, outputSize(o)) THEN o
    ELSE truncateExecOutput(o, policy.maxOutputBytes)

\* What a command of this kind may return before the limit is enforced.  Only
\* external commands print to stderr.
Printed(by) ==
    {[size |-> n, nl |-> b, whole |-> TRUE, by |-> by] :
        n \in Sizes \ {0}, b \in BOOLEAN} \cup {[Empty EXCEPT !.by = by]}

Returned(kind, by) ==
    [stdout : Printed(by),
     stderr : IF kind = "external" THEN Printed(by) ELSE {Empty},
     code   : 0 .. 1]
-----------------------------------------------------------------------------
Pipeline == script[st][pl]
Command == Pipeline.commands[sg]
Stage == <<st, pl, sg>>

IsInput(r) == r.kind \in {"file", "here"}
IsOutput(r) == r.kind \in {"write", "append"}
InputRedirs(command) == SelectSeq(command.redirs, IsInput)
OutputRedirs(command) == SelectSeq(command.redirs, IsOutput)

\* What is selected of a sequence is a sequence: no theorem about SelectSeq says so.
ASSUME SelectAssumption ==
    \A s \in Scripts : \A i \in DOMAIN s : \A p \in DOMAIN s[i] :
        \A c \in Range(s[i][p].commands) : OutputRedirs(c) \in Seq(Redirections)

\* The file system takes the redirection: the mount knows the operation.
Supported(r) == At[dir][r.target] \in (IF r.kind = "append" THEN Appendable ELSE Writable)

\* The output does not fit in what a limited policy lets be written.
TooLong(text) ==
    policy.mode = "write-limited" /\ LimitExceeded(text.size, policy.maxWriteBytes)

\* A redirection that preflightOutputRedirections lets pass.
Passes(r) ==
    AllowWrite(policy) /\ (r.target = Null \/ At[dir][r.target] \in Writable)

Locations == {"script", "statement", "pipeline", "stage", "command", "output", "returned"}

TypeOK ==
    /\ script \in Scripts /\ policy \in RunPolicies
    /\ ctxDone \in BOOLEAN
    /\ dir \in Dirs /\ files \in [Paths -> Seq(Texts)]
    /\ pc \in Locations
    /\ st \in Nat /\ pl \in Nat /\ sg \in Nat /\ rd \in Nat
    /\ status \in Outputs /\ last \in Outputs /\ result \in Outputs
    /\ input \in Texts \cup {NoInput}
    /\ current \in Texts /\ stderr \in Texts
    /\ truncated \in BOOLEAN
    /\ DOMAIN codes \subseteq Nat \X Nat /\ codes \in [DOMAIN codes -> 0 .. 1]
    /\ outputs \in Seq(Texts)

Init ==
    /\ script \in Scripts /\ policy \in RunPolicies
    /\ ctxDone = FALSE
    /\ dir \in Dirs /\ files = [p \in Paths |-> << >>]
    /\ pc = "script" /\ st = 0 /\ pl = 0 /\ sg = 0 /\ rd = 0
    /\ status = Nothing /\ last = Nothing /\ result = Nothing
    /\ input = NoInput /\ current = Empty /\ stderr = Empty
    /\ truncated = FALSE
    /\ codes = [x \in {} |-> 0] /\ outputs = << >>
-----------------------------------------------------------------------------
\* The execution is cancelled, or its timeout expires.
ContextDone ==
    /\ ~ctxDone /\ pc # "returned"
    /\ ctxDone' = TRUE
    /\ UNCHANGED <<run, dir, files, pc, position, status, last, pipe, truncated,
                   result, ghosts>>

Return(o) ==
    /\ pc' = "returned" /\ result' = o
    /\ UNCHANGED <<run, ctxDone, dir, files, position, status, last, pipe, truncated,
                   ghosts>>

\* runScript and executeStatements begin: a script may be empty or too long.
Begin ==
    /\ pc = "script" /\ ~ctxDone
    /\ Len(script) \in 1 .. MaxStatements
    /\ pc' = "statement" /\ st' = 1
    /\ UNCHANGED <<run, ctxDone, dir, files, pl, sg, rd, status, last, pipe, truncated,
                   result, ghosts>>

BeginRefused ==
    /\ pc = "script"
    /\ \/ ctxDone /\ Return(Failure)
       \/ ~ctxDone /\ script = << >> /\ Return(Nothing)
       \/ ~ctxDone /\ Len(script) > MaxStatements /\ Return(Failure)

\* The loop over statements.
Statement ==
    /\ pc = "statement" /\ st <= Len(script) /\ ~ctxDone
    /\ pl' = 1 /\ status' = Nothing /\ pc' = "pipeline"
    /\ UNCHANGED <<run, ctxDone, dir, files, st, sg, rd, last, pipe, truncated, result,
                   ghosts>>

\* After the last statement its result is returned, whatever became of the
\* context meanwhile.
ScriptEnds ==
    /\ pc = "statement" /\ st > Len(script)
    /\ Return(last)

\* Broken: an interrupted script returns what it has.
Broken_ScriptInterrupted ==
    /\ ctxDone
    /\ \/ pc = "statement" /\ st <= Len(script)
       \/ pc = "pipeline" /\ pl <= Len(script[st])
    /\ Return(last)

\* The context is done before the next statement, or the next pipeline of it.
ScriptInterrupted ==
    /\ ctxDone
    /\ \/ pc = "statement" /\ st <= Len(script)
       \/ pc = "pipeline" /\ pl <= Len(script[st])
    /\ Return(Failure)

StatementEnds ==
    /\ pc = "pipeline" /\ pl > Len(script[st])
    /\ last' = status /\ st' = st + 1 /\ pl' = 0 /\ pc' = "statement"
    /\ UNCHANGED <<run, ctxDone, dir, files, sg, rd, status, pipe, truncated, result,
                   ghosts>>

\* Broken: || runs what && runs.
Broken_ShouldRun(op) == op # "" => status.code = 0

\* shouldRun: what the connective asks of the pipeline that ran before.
ShouldRun(op) ==
    CASE op = "&&" -> status.code = 0
      [] op = "||" -> status.code # 0
      [] OTHER     -> TRUE

PipelineSkipped ==
    /\ pc = "pipeline" /\ pl <= Len(script[st]) /\ ~ctxDone
    /\ ~ShouldRun(Pipeline.op)
    /\ pl' = pl + 1
    /\ UNCHANGED <<run, ctxDone, dir, files, pc, st, sg, rd, status, last, pipe,
                   truncated, result, ghosts>>

\* executePipeline returns o: its result is the statement's, so far.
PipelineReturns(o) ==
    /\ status' = o /\ pl' = pl + 1 /\ pc' = "pipeline"
    /\ codes' = [x \in DOMAIN codes \cup {<<st, pl>>} |->
                    IF x = <<st, pl>> THEN o.code ELSE codes[x]]
    /\ UNCHANGED <<run, ctxDone, st, sg, rd, last, pipe, result>>

PipelineTooDeep ==
    /\ pc = "pipeline" /\ pl <= Len(script[st]) /\ ~ctxDone
    /\ ShouldRun(Pipeline.op)
    /\ ~PipelineAllowed(policy, Len(Pipeline.commands))
    /\ PipelineReturns(Failure)
    /\ UNCHANGED <<dir, files, truncated, outputs>>

PipelineBegins ==
    /\ pc = "pipeline" /\ pl <= Len(script[st]) /\ ~ctxDone
    /\ ShouldRun(Pipeline.op)
    /\ PipelineAllowed(policy, Len(Pipeline.commands))
    /\ sg' = 1 /\ current' = Empty /\ stderr' = Empty /\ pc' = "stage"
    /\ UNCHANGED <<run, ctxDone, dir, files, st, pl, rd, status, last, input, truncated,
                   result, ghosts>>
-----------------------------------------------------------------------------
PipelineEnds ==
    /\ pc = "stage" /\ sg > Len(Pipeline.commands)
    /\ PipelineReturns(Output(current, stderr, 0))
    /\ UNCHANGED <<dir, files, truncated, outputs>>

\* The context is done, and the runner asks before the stage.
StageInterrupted ==
    /\ pc = "stage" /\ sg <= Len(Pipeline.commands) /\ ctxDone
    /\ PipelineReturns(Failure)
    /\ UNCHANGED <<dir, files, truncated, outputs>>

\* The stage does not run: a file cannot be read, a target may not be written,
\* or the context is done since the runner asked.
StageRefused ==
    /\ pc = "stage" /\ sg <= Len(Pipeline.commands)
    /\ \/ ctxDone
       \/ \E r \in Range(Command.redirs) : r.kind = "file" /\ r.target # Null
       \/ \E r \in Range(OutputRedirs(Command)) : ~Passes(r)
    /\ PipelineReturns(Output(Message, stderr, 1))
    /\ UNCHANGED <<dir, files, truncated, outputs>>

\* applyInputRedirections: the last one wins; a stage without one reads what the
\* stage before it printed.
InputOf(command) ==
    LET redirs == InputRedirs(command)
    IN  IF redirs = << >> THEN (IF sg = 1 THEN NoInput ELSE current)
        ELSE IF Last(redirs).kind = "file" /\ Last(redirs).target = Null THEN Empty
        ELSE Message

StageRuns ==
    /\ pc = "stage" /\ sg <= Len(Pipeline.commands) /\ ~ctxDone
    /\ \A r \in Range(OutputRedirs(Command)) : Passes(r)
    /\ input' = InputOf(Command) /\ pc' = "command"
    /\ UNCHANGED <<run, ctxDone, dir, files, position, status, last, current, stderr,
                   truncated, result, ghosts>>

\* A cd that succeeds moves the directory, nothing else does.
MoveDir(printed) ==
    IF Command.kind = "cd" /\ printed.code = 0 THEN dir' \in Dirs ELSE UNCHANGED dir

\* markTraceOutputTruncated, when the output of a command is over the limit.
MarkTruncated(printed) ==
    truncated' = (truncated \/ ~OutputAllowed(policy, outputSize(printed)))

\* The command fails, or prints more than the limit: so does the pipeline.
CommandFails(printed) ==
    LET o == enforceOutputLimit(printed)
    IN  /\ pc = "command" /\ o.code # 0
        /\ PipelineReturns(Output(o.stdout, AppendText(stderr, o.stderr), 1))
        /\ MoveDir(printed) /\ MarkTruncated(printed)
        /\ UNCHANGED <<files, outputs>>

\* Broken: the payload is checked against the limit for the first target.
Broken_PayloadRefused(text) ==
    /\ OutputRedirs(Command) # << >>
    /\ OutputRedirs(Command)[1].target # Null
    /\ TooLong(text)

\* preflightOutputRedirectionPayload: the last target gets the output.
PayloadRefused(text) ==
    /\ OutputRedirs(Command) # << >>
    /\ Last(OutputRedirs(Command)).target # Null
    /\ TooLong(text)

\* The command succeeds, and its output is refused (or the context is done).
CommandRefused(printed) ==
    LET o == enforceOutputLimit(printed)
    IN  /\ pc = "command" /\ o.code = 0
        /\ ctxDone \/ PayloadRefused(o.stdout)
        /\ PipelineReturns(Output(Message, AppendText(stderr, o.stderr), 1))
        /\ outputs' = Append(outputs, o.stdout)
        /\ MoveDir(printed) /\ MarkTruncated(printed)
        /\ UNCHANGED files

CommandEnds(printed) ==
    LET o == enforceOutputLimit(printed)
    IN  /\ pc = "command" /\ o.code = 0
        /\ ~ctxDone /\ ~PayloadRefused(o.stdout)
        /\ current' = o.stdout /\ stderr' = AppendText(stderr, o.stderr)
        /\ outputs' = Append(outputs, o.stdout)
        /\ rd' = 1 /\ pc' = "output"
        /\ MoveDir(printed) /\ MarkTruncated(printed)
        /\ UNCHANGED <<run, ctxDone, files, st, pl, sg, status, last, input, result,
                       codes>>
-----------------------------------------------------------------------------
Redir == OutputRedirs(Command)[rd]
Redirecting == pc = "output" /\ rd <= Len(OutputRedirs(Command))

\* Only the last target gets the output, the others are created empty.
Payload ==
    IF rd = Len(OutputRedirs(Command)) THEN current ELSE [Empty EXCEPT !.by = Stage]

\* applyOutputRedirections, one target.
RedirectNull ==
    /\ Redirecting /\ ~ctxDone /\ Redir.target = Null
    /\ rd' = rd + 1
    /\ UNCHANGED <<run, ctxDone, dir, files, pc, st, pl, sg, status, last, pipe,
                   truncated, result, ghosts>>

Redirect ==
    /\ Redirecting /\ ~ctxDone /\ Redir.target # Null
    /\ Supported(Redir)
    /\ LET path == At[dir][Redir.target]
       IN  files' = [files EXCEPT ![path] =
                        IF Redir.kind = "append" THEN Append(@, Payload) ELSE <<Payload>>]
    /\ rd' = rd + 1
    /\ UNCHANGED <<run, ctxDone, dir, pc, st, pl, sg, status, last, pipe, truncated,
                   result, ghosts>>

\* The file system refuses or fails, or the context is done: the targets before
\* this one have been written.
RedirectFails ==
    /\ Redirecting /\ (ctxDone \/ Redir.target # Null)
    /\ PipelineReturns(Output(Message, stderr, 1))
    /\ UNCHANGED <<dir, files, truncated, outputs>>

\* Broken: redirected output is passed on as well.
Broken_PassedOn == current

\* Redirected output is not passed on.
PassedOn == IF OutputRedirs(Command) = << >> THEN current ELSE Empty

\* The targets are written (without any, the runner still asks the context).
StageEnds ==
    /\ pc = "output" /\ rd > Len(OutputRedirs(Command))
    /\ OutputRedirs(Command) = << >> => ~ctxDone
    /\ OutputAllowed(policy, AppendText(PassedOn, stderr).size)
    /\ current' = PassedOn /\ sg' = sg + 1 /\ pc' = "stage"
    /\ UNCHANGED <<run, ctxDone, dir, files, st, pl, rd, status, last, input, stderr,
                   truncated, result, ghosts>>

StageFails ==
    /\ pc = "output" /\ OutputRedirs(Command) = << >> /\ ctxDone
    /\ PipelineReturns(Output(Message, stderr, 1))
    /\ UNCHANGED <<dir, files, truncated, outputs>>

\* What the stages have printed so far, taken together, is over the limit.
OutputTooLong ==
    /\ pc = "output" /\ rd > Len(OutputRedirs(Command))
    /\ OutputRedirs(Command) = << >> => ~ctxDone
    /\ ~OutputAllowed(policy, AppendText(PassedOn, stderr).size)
    /\ PipelineReturns(truncateExecOutput(Output(PassedOn, stderr, 1),
                                          policy.maxOutputBytes))
    /\ truncated' = TRUE
    /\ UNCHANGED <<dir, files, outputs>>

\* The execution has returned.
Stop == pc = "returned" /\ UNCHANGED vars

Next ==
    \/ ContextDone
    \/ Begin \/ BeginRefused \/ Statement \/ StatementEnds
    \/ ScriptEnds \/ ScriptInterrupted
    \/ PipelineSkipped \/ PipelineTooDeep \/ PipelineBegins \/ PipelineEnds
    \/ StageInterrupted \/ StageRefused \/ StageRuns
    \/ pc = "command" /\ \E o \in Returned(Command.kind, Stage) :
          CommandFails(o) \/ CommandRefused(o) \/ CommandEnds(o)
    \/ RedirectNull \/ Redirect \/ RedirectFails
    \/ StageEnds \/ StageFails \/ OutputTooLong
    \/ Stop

Spec == Init /\ [][Next]_vars
-----------------------------------------------------------------------------
\* The pipelines of statement s before the p-th that have run.
RanBefore(s, p) == {q \in 1 .. p - 1 : <<s, q>> \in DOMAIN codes}

\* The p-th pipeline of statement s should run: the connective before it is
\* judged on the pipeline that ran last, skipped ones do not count.
Asked(s, p) ==
    \/ p = 1
    \/ script[s][p].op = "&&" /\ codes[<<s, Max(RanBefore(s, p))>>] = 0
    \/ script[s][p].op = "||" /\ codes[<<s, Max(RanBefore(s, p))>>] # 0

\* The runner is past this pipeline.
Past(s, p) == s < st \/ (s = st /\ p < pl)

\* Of the pipelines the runner has passed, exactly those ran that && and ||,
\* read from left to right with equal precedence, ask for; none ran beyond, and
\* no statement's outcome counts in the next.
ListSemantics ==
    \A s \in DOMAIN script : \A p \in DOMAIN script[s] :
        <<s, p>> \in DOMAIN codes <=> Past(s, p) /\ Asked(s, p)

\* A stage reads all that the stage before it in its own pipeline printed, or
\* nothing if that was redirected; the first stage has no input.  Only an input
\* redirection of its own changes that.
PipesFaithful ==
    pc = "command" /\ InputRedirs(Command) = << >> =>
        IF sg = 1 THEN input = NoInput
        ELSE /\ outputs # << >> /\ Last(outputs).by = <<st, pl, sg - 1>>
             /\ input = IF OutputRedirs(Pipeline.commands[sg - 1]) = << >>
                        THEN Last(outputs) ELSE Empty

\* Output that was cut at the limit is shown and nothing else: no stage reads it
\* and no file gets it, whatever && and || make of the failure.
CutIsNeverUsed ==
    /\ pc = "command" /\ input # NoInput => input.whole
    /\ \A p \in Paths : \A t \in Range(files[p]) : t.whole

\* A result that was cut has a failing exit code, and the trace says so.
CutIsShown ==
    pc = "returned" /\ ~(result.stdout.whole /\ result.stderr.whole) =>
        truncated /\ result.code # 0

\* Cut output is a failure that is shown, and goes nowhere else.
CutIsHonest == CutIsNeverUsed /\ CutIsShown

\* Output over the write limit touches none of the targets, whichever of them
\* come first (docs/notes-kernel-execution-backlog.md, "does not leave partial
\* filesystem side effects").
LimitedAtomic ==
    \A t \in Range(outputs) :
        LET redirs == OutputRedirs(script[t.by[1]][t.by[2]].commands[t.by[3]])
        IN  redirs # << >> /\ Last(redirs).target # Null /\ TooLong(t) =>
                \A p \in Paths : \A u \in Range(files[p]) : u.by # t.by

\* The targets of the i-th redirection hold what they should after the last:
\* the last one all that the stage printed, an earlier one nothing.
Holds(stage, redirs, i) ==
    LET Path(j) == At[dir][redirs[j].target]
    IN  redirs[i].target # Null =>
            IF i = Len(redirs)
            THEN /\ Last(files[Path(i)]).by = stage
                 /\ Last(files[Path(i)]) \in Range(outputs)
            ELSE /\ redirs[i].kind = "write"
                 /\ \A j \in i + 1 .. Len(redirs) :
                        redirs[j].target # Null => Path(j) # Path(i)
                 => files[Path(i)] = <<[Empty EXCEPT !.by = stage]>>

\* A script that returns 0 is complete, however it was interrupted: its last
\* statement has ended, the pipeline that decided has run to its last stage,
\* and what this stage printed is the result, all of it, or is in its files.
SuccessIsComplete ==
    pc = "returned" /\ result.code = 0 /\ script # << >> =>
        LET s == Len(script)
            p == Max(RanBefore(s, Len(script[s]) + 1))
            g == Len(script[s][p].commands)
            redirs == OutputRedirs(script[s][p].commands[g])
        IN  /\ st > s /\ codes[<<s, p>>] = 0
            /\ \A h \in 1 .. g : \E t \in Range(outputs) : t.by = <<s, p, h>>
            /\ IF redirs = << >> THEN result.stdout \in Range(outputs)
                                     /\ result.stdout.by = <<s, p, g>>
               ELSE \A i \in DOMAIN redirs : Holds(<<s, p, g>>, redirs, i)
=============================================================================
