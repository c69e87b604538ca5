------------------------- MODULE ScriptRunnerProofs -------------------------
(***************************************************************************)
(* Theorems about the script runner, for every set of scripts, policies,   *)
(* paths and sizes: the state is well-typed, output that was cut at the    *)
(* limit is neither used nor passed off as a success, the pipelines that   *)
(* run are those that the connectives ask for, each stage reads what the   *)
(* one before it printed, and a script that succeeds has run to its end.   *)
(***************************************************************************)
EXTENDS ScriptRunner, SequenceTheorems, TLAPS

\* Limits and lengths are integers.
LEMMA PolicyTypes ==
    ASSUME NEW p \in RunPolicies
    PROVE  /\ p.maxOutputBytes \in Int /\ p.maxWriteBytes \in Int
           /\ p.maxPipelineDepth \in Int
  BY ScriptAssumption DEF Policies, PoliciesOver

\* The operators on texts give texts, and whole ones from whole ones.
LEMMA TextTypes ==
    /\ Empty \in Texts /\ Empty.whole /\ Message \in Texts /\ Message.whole
    /\ \A a, b \in Texts : /\ AppendText(a, b) \in Texts
                           /\ AppendText(a, b).size \in Nat
                           /\ a.whole /\ b.whole => AppendText(a, b).whole
<1>1. /\ Empty \in Texts /\ Empty.whole /\ Message \in Texts /\ Message.whole
  BY DEF Empty, Message, Texts
<1>2. ASSUME NEW a \in Texts, NEW b \in Texts
      PROVE  /\ AppendText(a, b) \in Texts /\ AppendText(a, b).size \in Nat
             /\ a.whole /\ b.whole => AppendText(a, b).whole
  <2>1. PICK n \in Nat : n = a.size + b.size + (IF a.nl THEN 0 ELSE 1)
    BY DEF Texts
  <2>2. PICK w \in BOOLEAN : w = (a.whole /\ b.whole)
    BY DEF Texts
  <2>3. CASE a.size = 0
    BY <2>3 DEF AppendText, Texts
  <2>4. CASE a.size # 0 /\ b.size = 0
    BY <2>4 DEF AppendText, Texts
  <2>5. CASE a.size # 0 /\ b.size # 0
    <3>1. AppendText(a, b) = [size |-> n, nl |-> b.nl, whole |-> w, by |-> << >>]
      BY <2>1, <2>2, <2>5 DEF AppendText
    <3>2. b.nl \in BOOLEAN
      BY DEF Texts
    <3> QED  BY <2>2, <3>1, <3>2 DEF Texts
  <2> QED  BY <2>3, <2>4, <2>5
<1> QED  BY <1>1, <1>2

\* Text that is cut is text; text that is not cut is all there.
LEMMA CutTypes ==
    ASSUME NEW t \in Texts, NEW n \in Nat
    PROVE  CutTo(t, n) \in Texts /\ CutTo(t, n).size <= n
<1>1. CASE t.size <= n
  BY <1>1 DEF CutTo, Texts
<1>2. CASE t.size > n
  <2>1. CutTo(t, n) = [size |-> n, nl |-> FALSE, whole |-> FALSE, by |-> t.by]
    BY <1>2 DEF CutTo, Texts
  <2> QED  BY <2>1 DEF Texts
<1> QED  BY <1>1, <1>2 DEF Texts

\* What truncateExecOutput returns when there is too much: a failure.
LEMMA TruncateTypes ==
    ASSUME NEW o \in Outputs, NEW n \in Nat
    PROVE  /\ truncateExecOutput(o, n) \in Outputs
           /\ outputSize(o) <= n => truncateExecOutput(o, n) = o
           /\ outputSize(o) > n => truncateExecOutput(o, n).code = 1
           /\ o.code = 1 => truncateExecOutput(o, n).code = 1
<1>1. /\ o.stdout \in Texts /\ o.stderr \in Texts /\ o.code \in 0 .. 1
      /\ outputSize(o) \in Nat
  BY DEF Outputs, Texts, outputSize
<1>2. PICK out \in Texts : out = CutTo(o.stdout, n) /\ out.size <= n
  BY <1>1, CutTypes
<1>3. n - out.size \in Nat
  BY <1>2 DEF Texts
<1>4. PICK err \in Texts : err = CutTo(o.stderr, n - out.size)
  BY <1>1, <1>3, CutTypes
<1>5. truncateExecOutput(o, n) = IF outputSize(o) <= n THEN o ELSE Output(out, err, 1)
  BY <1>2, <1>4 DEF truncateExecOutput
<1>6. Output(out, err, 1) \in Outputs /\ Output(out, err, 1).code = 1
  BY <1>2, <1>4 DEF Output, Outputs
<1> QED  BY <1>1, <1>5, <1>6

\* The output limit: what is within it is left alone, what is not becomes a
\* failure of its command.
LEMMA LimitTypes ==
    ASSUME NEW o \in Outputs, policy \in RunPolicies
    PROVE  /\ enforceOutputLimit(o) \in Outputs
           /\ enforceOutputLimit(o).code = 0 => enforceOutputLimit(o) = o
           /\ OutputAllowed(policy, outputSize(o)) => enforceOutputLimit(o) = o
           /\ outputSize(o) \in Nat
<1>1. outputSize(o) \in Nat /\ policy.maxOutputBytes \in Int
  BY PolicyTypes DEF Outputs, Texts, outputSize
<1>2. CASE OutputAllowed(policy, outputSize(o))
  BY <1>1, <1>2 DEF enforceOutputLimit
<1>3. CASE ~OutputAllowed(policy, outputSize(o))
  <2>1. policy.maxOutputBytes \in Nat /\ outputSize(o) > policy.maxOutputBytes
    BY <1>1, <1>3 DEF OutputAllowed, LimitExceeded
  <2>2. /\ truncateExecOutput(o, policy.maxOutputBytes) \in Outputs
        /\ truncateExecOutput(o, policy.maxOutputBytes).code = 1
    BY <2>1, TruncateTypes
  <2> QED  BY <1>1, <1>3, <2>2 DEF enforceOutputLimit
<1> QED  BY <1>2, <1>3

\* What a command prints is all there before the limit is enforced.
LEMMA PrintedTypes ==
    ASSUME TypeOK, NEW kind, NEW o \in Returned(kind, Stage)
    PROVE  o \in Outputs /\ o.stdout.whole /\ o.stderr.whole
<1>1. Stage \in Stages
  BY DEF TypeOK, Stage, Stages
<1>2. \A t \in Printed(Stage) : t \in Texts /\ t.whole
  <2>1. [Empty EXCEPT !.by = Stage] \in Texts /\ [Empty EXCEPT !.by = Stage].whole
    BY <1>1 DEF Empty, Texts
  <2>2. ASSUME NEW n \in Sizes, NEW b \in BOOLEAN
        PROVE  LET t == [size |-> n, nl |-> b, whole |-> TRUE, by |-> Stage]
               IN  t \in Texts /\ t.whole
    BY <1>1, ScriptAssumption DEF Texts
  <2>3. ASSUME NEW t \in Printed(Stage) PROVE t \in Texts /\ t.whole
    <3>1. CASE t = [Empty EXCEPT !.by = Stage]
      BY <2>1, <3>1
    <3>2. CASE t # [Empty EXCEPT !.by = Stage]
      <4>1. PICK n \in Sizes, b \in BOOLEAN :
                t = [size |-> n, nl |-> b, whole |-> TRUE, by |-> Stage]
        BY <3>2 DEF Printed
      <4> QED  BY <2>2, <4>1
    <3> QED  BY <3>1, <3>2
  <2> QED  BY <2>3
<1>3. o.stdout \in Printed(Stage) /\ o.code \in 0 .. 1
      /\ o.stderr \in Printed(Stage) \cup {Empty}
      /\ o = [stdout |-> o.stdout, stderr |-> o.stderr, code |-> o.code]
  BY DEF Returned
<1> QED  BY <1>2, <1>3, TextTypes DEF Outputs
-----------------------------------------------------------------------------
\* The runner's own results.
LEMMA ResultTypes ==
    /\ Nothing \in Outputs /\ Failure \in Outputs
    /\ \A a, b \in Texts, n \in 0 .. 1 : Output(a, b, n) \in Outputs
  BY TextTypes DEF Nothing, Failure, Output, Outputs

\* The end of a pipeline keeps the types of what it sets.
LEMMA ReturnsType ==
    ASSUME TypeOK, NEW o \in Outputs, PipelineReturns(o)
    PROVE  /\ status' \in Outputs /\ pl' \in Nat /\ pc' \in Locations
           /\ DOMAIN codes' \subseteq Nat \X Nat /\ codes' \in [DOMAIN codes' -> 0 .. 1]
<1>1. status' = o /\ pl' = pl + 1 /\ pc' = "pipeline"
  BY DEF PipelineReturns
<1>2. /\ DOMAIN codes' = DOMAIN codes \cup {<<st, pl>>}
      /\ \A x \in DOMAIN codes' : codes'[x] = IF x = <<st, pl>> THEN o.code ELSE codes[x]
      /\ codes' \in [DOMAIN codes' -> 0 .. 1]
  BY DEF PipelineReturns, TypeOK, Outputs
<1> QED  BY <1>1, <1>2 DEF TypeOK, Locations

\* The initial states are well-typed.
LEMMA InitType == Init => TypeOK
<1> SUFFICES ASSUME Init PROVE TypeOK
  OBVIOUS
<1>1. files \in [Paths -> Seq(Texts)] /\ outputs \in Seq(Texts)
  BY DEF Init
<1>2. DOMAIN codes \subseteq Nat \X Nat /\ codes \in [DOMAIN codes -> 0 .. 1]
  BY DEF Init
<1>3. /\ pc \in Locations /\ st \in Nat /\ pl \in Nat /\ sg \in Nat /\ rd \in Nat
      /\ status \in Outputs /\ last \in Outputs /\ result \in Outputs
      /\ input = NoInput /\ current \in Texts /\ stderr \in Texts
  BY TextTypes, ResultTypes DEF Init, Locations
<1> QED  BY <1>1, <1>2, <1>3 DEF Init, TypeOK

\* Every step keeps the state well-typed.
LEMMA NextType == TypeOK /\ [Next]_vars => TypeOK'
<1> SUFFICES ASSUME TypeOK, [Next]_vars PROVE TypeOK'
  OBVIOUS
<1> USE DEF run, position, pipe, ghosts
<1>1. CASE ContextDone \/ Begin \/ Statement \/ StatementEnds
  <2>1. CASE ContextDone
    BY <2>1 DEF ContextDone, TypeOK
  <2>4. CASE Begin
    BY <2>4 DEF Begin, TypeOK, Locations
  <2>2. CASE Statement
    BY <2>2, ResultTypes DEF Statement, TypeOK, Locations
  <2>3. CASE StatementEnds
    BY <2>3 DEF StatementEnds, TypeOK, Locations
  <2> QED  BY <1>1, <2>1, <2>2, <2>3, <2>4
<1>2. CASE BeginRefused \/ ScriptEnds \/ ScriptInterrupted
  BY <1>2, ResultTypes DEF BeginRefused, ScriptEnds, ScriptInterrupted, Return, TypeOK, Locations
<1>3. CASE PipelineSkipped \/ PipelineBegins
  BY <1>3, TextTypes DEF PipelineSkipped, PipelineBegins, TypeOK, Locations
<1>4. ASSUME NEW o \in Outputs, PipelineReturns(o), UNCHANGED files,
             dir' \in Dirs, truncated' \in BOOLEAN, outputs' \in Seq(Texts)
      PROVE  TypeOK'
  BY <1>4, ReturnsType DEF PipelineReturns, TypeOK
<1>5. CASE PipelineTooDeep \/ StageInterrupted
  BY <1>4, <1>5, ResultTypes DEF PipelineTooDeep, StageInterrupted, TypeOK
<1>6. CASE PipelineEnds
  BY <1>4, <1>6, ResultTypes DEF PipelineEnds, TypeOK
<1>7. CASE StageRefused \/ RedirectFails \/ StageFails
  <2>1. Output(Message, stderr, 1) \in Outputs
    BY ResultTypes, TextTypes DEF TypeOK
  <2> QED  BY <1>4, <1>7, <2>1 DEF StageRefused, RedirectFails, StageFails, TypeOK
<1>8. CASE StageRuns
  <2>1. InputOf(Command) \in Texts \cup {NoInput}
    BY TextTypes DEF InputOf, TypeOK
  <2> QED  BY <1>8, <2>1 DEF StageRuns, TypeOK, Locations
<1>9. ASSUME NEW o \in Returned(Command.kind, Stage),
             CommandFails(o) \/ CommandRefused(o) \/ CommandEnds(o)
      PROVE  TypeOK'
  <2>1. PICK e \in Outputs : e = enforceOutputLimit(o)
    BY PrintedTypes, LimitTypes DEF TypeOK
  <2>2. /\ e.stdout \in Texts /\ AppendText(stderr, e.stderr) \in Texts
        /\ Append(outputs, e.stdout) \in Seq(Texts)
    BY <2>1, TextTypes, AppendProperties DEF Outputs, TypeOK
  <2>3. dir' \in Dirs /\ truncated' \in BOOLEAN
    BY <1>9 DEF CommandFails, CommandRefused, CommandEnds, MoveDir, MarkTruncated, TypeOK
  <2>4. CASE CommandFails(o)
    <3>1. PipelineReturns(Output(e.stdout, AppendText(stderr, e.stderr), 1))
          /\ UNCHANGED <<files, outputs>>
      BY <2>1, <2>4 DEF CommandFails
    <3> QED  BY <1>4, <2>2, <2>3, <3>1, ResultTypes DEF TypeOK
  <2>5. CASE CommandRefused(o)
    <3>1. PipelineReturns(Output(Message, AppendText(stderr, e.stderr), 1))
          /\ UNCHANGED files /\ outputs' = Append(outputs, e.stdout)
      BY <2>1, <2>5 DEF CommandRefused
    <3> QED  BY <1>4, <2>2, <2>3, <3>1, ResultTypes, TextTypes
  <2>6. CASE CommandEnds(o)
    BY <2>1, <2>2, <2>3, <2>6 DEF CommandEnds, TypeOK, Locations
  <2> QED  BY <1>9, <2>4, <2>5, <2>6
<1>10. CASE RedirectNull \/ StageEnds
  BY <1>10, TextTypes DEF RedirectNull, StageEnds, PassedOn, TypeOK, Locations
<1>11. CASE Redirect
  <2>1. Payload \in Texts
    <3>1. Stage \in Stages
      BY DEF TypeOK, Stage, Stages
    <3>2. [Empty EXCEPT !.by = Stage] \in Texts
      BY <3>1 DEF Empty, Texts
    <3> QED  BY <3>2 DEF Payload, TypeOK
  <2>2. \A p \in Paths : Append(files[p], Payload) \in Seq(Texts) /\ <<Payload>> \in Seq(Texts)
    BY <2>1, AppendProperties DEF TypeOK
  <2>3. files' \in [Paths -> Seq(Texts)]
    BY <1>11, <2>2 DEF Redirect, TypeOK
  <2> QED  BY <1>11, <2>3 DEF Redirect, Redirecting, TypeOK
<1>12. CASE OutputTooLong
  <2>1. Output(PassedOn, stderr, 1) \in Outputs
    BY ResultTypes, TextTypes DEF PassedOn, TypeOK
  <2>2. policy.maxOutputBytes \in Nat
    <3>1. AppendText(PassedOn, stderr).size \in Nat
      BY TextTypes DEF PassedOn, TypeOK
    <3> QED  BY <1>12, <3>1, PolicyTypes DEF OutputTooLong, OutputAllowed, LimitExceeded, TypeOK
  <2>3. truncateExecOutput(Output(PassedOn, stderr, 1), policy.maxOutputBytes) \in Outputs
    BY <2>1, <2>2, TruncateTypes
  <2> QED  BY <1>4, <1>12, <2>3 DEF OutputTooLong, TypeOK
<1>13. CASE Stop \/ UNCHANGED vars
  BY <1>13 DEF Stop, vars, TypeOK
<1> QED  BY <1>1, <1>2, <1>3, <1>5, <1>6, <1>7, <1>8, <1>9, <1>10, <1>11, <1>12, <1>13 DEF Next

\* The runner's state has the types its code gives it, whatever is run.
THEOREM RunnerTyping == Spec => []TypeOK
  BY InitType, NextType, PTL DEF Spec
-----------------------------------------------------------------------------
(***************************************************************************)
(* Cut output: nothing the runner goes on with is cut, and every result    *)
(* that is cut is a failure and marked in the trace.                       *)
(***************************************************************************)
Uncut ==
    /\ current.whole /\ stderr.whole
    /\ input # NoInput => input.whole
    /\ \A p \in Paths : \A i \in 1 .. Len(files[p]) : files[p][i].whole

Whole(o) == o.stdout.whole /\ o.stderr.whole

Owned(o) == Whole(o) \/ (truncated /\ o.code # 0)

CutInv == TypeOK /\ Uncut /\ Owned(status) /\ Owned(last) /\ Owned(result)

\* A pipeline that returns keeps it, when what is cut of its result is owned.
LEMMA ReturnsCut ==
    ASSUME CutInv, NEW o \in Outputs, PipelineReturns(o), UNCHANGED files,
           truncated => truncated', Whole(o) \/ (truncated' /\ o.code # 0)
    PROVE  Uncut' /\ Owned(status)' /\ Owned(last)' /\ Owned(result)'
<1>1. UNCHANGED <<files, current, stderr, input, last, result>> /\ status' = o
  BY DEF PipelineReturns, pipe
<1> QED  BY <1>1 DEF CutInv, Uncut, Owned, Whole

\* The runner's own results are whole.
LEMMA ResultsWhole ==
    /\ Whole(Nothing) /\ Whole(Failure)
    /\ \A a, b \in Texts, n \in 0 .. 1 :
          a.whole /\ b.whole => Whole(Output(a, b, n))
  BY TextTypes DEF Nothing, Failure, Output, Whole

\* A text stored in a file is the stage's output, or empty.
LEMMA PayloadWhole == TypeOK /\ Uncut => Payload \in Texts /\ Payload.whole
<1> SUFFICES ASSUME TypeOK, Uncut PROVE Payload \in Texts /\ Payload.whole
  OBVIOUS
<1>1. Stage \in Stages
  BY DEF TypeOK, Stage, Stages
<1>2. [Empty EXCEPT !.by = Stage] \in Texts /\ [Empty EXCEPT !.by = Stage].whole
  BY <1>1 DEF Empty, Texts
<1> QED  BY <1>2 DEF Payload, TypeOK, Uncut

\* Every step keeps cut output out of use and in sight.
LEMMA NextCut == CutInv /\ [Next]_vars => CutInv'
<1> SUFFICES ASSUME CutInv, [Next]_vars PROVE Uncut' /\ Owned(status)' /\ Owned(last)' /\ Owned(result)'
  BY NextType DEF CutInv
<1> DEFINE Goal == Uncut' /\ Owned(status)' /\ Owned(last)' /\ Owned(result)'
<1>0. TypeOK
  BY DEF CutInv
<1> USE DEF run, position, pipe, ghosts
<1>1. CASE ContextDone \/ Begin \/ PipelineSkipped \/ RedirectNull \/ Stop \/ UNCHANGED vars
  <2>1. UNCHANGED <<files, current, stderr, input, status, last, result, truncated>>
    BY <1>1 DEF ContextDone, Begin, PipelineSkipped, RedirectNull, Stop, vars
  <2> QED  BY <2>1 DEF CutInv, Uncut, Owned, Whole
<1>2. CASE Statement \/ StatementEnds
  <2>1. /\ UNCHANGED <<files, current, stderr, input, result, truncated>>
        /\ status' \in {status, Nothing} /\ last' \in {last, status}
    BY <1>2 DEF Statement, StatementEnds
  <2> QED  BY <2>1, ResultsWhole DEF CutInv, Uncut, Owned, Whole
<1>3. CASE BeginRefused \/ ScriptEnds \/ ScriptInterrupted
  <2>1. /\ UNCHANGED <<files, current, stderr, input, status, last, truncated>>
        /\ result' \in {Nothing, Failure, last}
    BY <1>3 DEF BeginRefused, ScriptEnds, ScriptInterrupted, Return
  <2> QED  BY <2>1, ResultsWhole DEF CutInv, Uncut, Owned, Whole
<1>4. CASE PipelineBegins
  <2>1. /\ UNCHANGED <<files, input, status, last, result, truncated>>
        /\ current' = Empty /\ stderr' = Empty
    BY <1>4 DEF PipelineBegins
  <2> QED  BY <2>1, TextTypes DEF CutInv, Uncut, Owned, Whole
<1>5. CASE StageRuns
  <2>1. /\ UNCHANGED <<files, current, stderr, status, last, result, truncated>>
        /\ input' \in {NoInput, current, Empty, Message}
    BY <1>5 DEF StageRuns, InputOf
  <2> QED  BY <2>1, TextTypes DEF CutInv, Uncut, Owned, Whole
<1>6. CASE PipelineTooDeep \/ StageInterrupted
  BY <1>6, ReturnsCut, ResultTypes, ResultsWhole DEF PipelineTooDeep, StageInterrupted
<1>7. CASE PipelineEnds
  <2>1. Output(current, stderr, 0) \in Outputs /\ Whole(Output(current, stderr, 0))
    BY ResultTypes, ResultsWhole DEF CutInv, TypeOK, Uncut
  <2> QED  BY <1>7, <2>1, ReturnsCut DEF PipelineEnds
<1>8. CASE StageRefused \/ RedirectFails \/ StageFails
  <2>1. Output(Message, stderr, 1) \in Outputs /\ Whole(Output(Message, stderr, 1))
    BY ResultTypes, ResultsWhole, TextTypes DEF CutInv, TypeOK, Uncut
  <2> QED  BY <1>8, <2>1, ReturnsCut DEF StageRefused, RedirectFails, StageFails
<1>9. ASSUME NEW o \in Returned(Command.kind, Stage),
             CommandFails(o) \/ CommandRefused(o) \/ CommandEnds(o)
      PROVE  Goal
  <2>1. o \in Outputs /\ Whole(o) /\ policy \in RunPolicies
    BY <1>0, PrintedTypes DEF Whole, TypeOK
  <2>2. PICK e \in Outputs :
            /\ e = enforceOutputLimit(o) /\ (e.code = 0 => e = o)
            /\ OutputAllowed(policy, outputSize(o)) => e = o
    BY <2>1, LimitTypes
  <2>3. /\ e.stdout \in Texts /\ e.stderr \in Texts /\ stderr \in Texts
        /\ AppendText(stderr, e.stderr) \in Texts
        /\ e.stderr.whole => AppendText(stderr, e.stderr).whole
    BY <1>0, TextTypes DEF CutInv, Uncut, Outputs, TypeOK
  <2>4. CASE CommandFails(o)
    <3>1. PICK r \in Outputs : r = Output(e.stdout, AppendText(stderr, e.stderr), 1)
      BY <2>3, ResultTypes
    <3>2. PipelineReturns(r) /\ UNCHANGED files
          /\ truncated' = (truncated \/ ~OutputAllowed(policy, outputSize(o)))
      BY <2>2, <2>4, <3>1 DEF CommandFails, MarkTruncated
    <3>3. truncated' \/ Whole(r)
      <4> SUFFICES ASSUME ~truncated' PROVE Whole(r)
        OBVIOUS
      <4>1. e = o
        BY <2>2, <3>2
      <4>2. e.stdout.whole /\ e.stderr.whole
        BY <2>1, <4>1 DEF Whole
      <4>3. AppendText(stderr, e.stderr).whole
        BY <2>3, <4>2
      <4>4. r.stdout = e.stdout /\ r.stderr = AppendText(stderr, e.stderr)
        BY <3>1 DEF Output
      <4> QED  BY <4>2, <4>3, <4>4 DEF Whole
    <3>4. r.code # 0
      BY <3>1 DEF Output
    <3> QED  BY <3>2, <3>3, <3>4, ReturnsCut
  <2>5. CASE CommandRefused(o)
    <3>1. PICK r \in Outputs : r = Output(Message, AppendText(stderr, e.stderr), 1)
      BY <2>3, ResultTypes, TextTypes
    <3>2. PipelineReturns(r) /\ UNCHANGED files /\ e = o
          /\ truncated' = (truncated \/ ~OutputAllowed(policy, outputSize(o)))
      BY <2>2, <2>5, <3>1 DEF CommandRefused, MarkTruncated
    <3>3. Whole(r)
      <4>1. e.stderr.whole
        BY <2>1, <3>2 DEF Whole
      <4>2. AppendText(stderr, e.stderr).whole
        BY <2>3, <4>1
      <4>3. Message \in Texts /\ Message.whole
        BY TextTypes
      <4>4. r.stdout = Message /\ r.stderr = AppendText(stderr, e.stderr)
        BY <3>1 DEF Output
      <4> QED  BY <4>2, <4>3, <4>4 DEF Whole
    <3> QED  BY <3>2, <3>3, ReturnsCut
  <2>6. CASE CommandEnds(o)
    <3>1. /\ UNCHANGED <<files, input, status, last, result>> /\ e = o
          /\ current' = o.stdout /\ stderr' = AppendText(stderr, o.stderr)
          /\ truncated' = (truncated \/ ~OutputAllowed(policy, outputSize(o)))
      BY <2>2, <2>6 DEF CommandEnds, MarkTruncated
    <3> QED  BY <2>1, <2>3, <3>1 DEF CutInv, Uncut, Owned, Whole
  <2> QED  BY <1>9, <2>4, <2>5, <2>6
<1>10. CASE StageEnds
  <2>1. /\ UNCHANGED <<files, input, stderr, status, last, result, truncated>>
        /\ current' \in {current, Empty}
    BY <1>10 DEF StageEnds, PassedOn
  <2> QED  BY <2>1, TextTypes DEF CutInv, Uncut, Owned, Whole
<1>11. CASE Redirect
  <2>1. UNCHANGED <<current, stderr, input, status, last, result, truncated>>
    BY <1>11 DEF Redirect
  <2>2. Payload \in Texts /\ Payload.whole
    BY PayloadWhole DEF CutInv
  <2>3. ASSUME NEW p \in Paths
        PROVE  files'[p] \in {files[p], <<Payload>>, Append(files[p], Payload)}
    BY <1>0, <1>11 DEF Redirect, TypeOK
  <2>4. ASSUME NEW p \in Paths, NEW i \in 1 .. Len(files'[p])
        PROVE  files'[p][i].whole
    <3>1. CASE files'[p] = files[p]
      BY <3>1, <2>4 DEF CutInv, Uncut
    <3>2. CASE files'[p] = <<Payload>>
      BY <2>2, <2>4, <3>2
    <3>3. CASE files'[p] = Append(files[p], Payload)
      <4>1. files[p] \in Seq(Texts)
        BY <1>0 DEF TypeOK
      <4> QED  BY <2>2, <2>4, <3>3, <4>1, AppendProperties DEF CutInv, Uncut
    <3> QED  BY <2>3, <3>1, <3>2, <3>3
  <2> QED  BY <2>1, <2>4 DEF CutInv, Uncut, Owned, Whole
<1>12. CASE OutputTooLong
  <2>1. PICK r \in Outputs : r = Output(PassedOn, stderr, 1)
    BY <1>0, ResultTypes, TextTypes DEF PassedOn, TypeOK
  <2>2. policy.maxOutputBytes \in Nat
    <3>1. AppendText(PassedOn, stderr).size \in Nat
      BY <1>0, TextTypes DEF PassedOn, TypeOK
    <3> QED  BY <1>0, <1>12, <3>1, PolicyTypes DEF OutputTooLong, OutputAllowed, LimitExceeded, TypeOK
  <2>3. PICK t \in Outputs : /\ t = truncateExecOutput(r, policy.maxOutputBytes)
                             /\ t.code = 1
    <3>1. r.code = 1
      BY <2>1 DEF Output
    <3> QED  BY <2>2, <3>1, TruncateTypes
  <2>4. PipelineReturns(t) /\ truncated' /\ UNCHANGED files
    BY <1>12, <2>1, <2>3 DEF OutputTooLong
  <2> QED  BY <2>3, <2>4, ReturnsCut
<1> QED  BY <1>1, <1>2, <1>3, <1>4, <1>5, <1>6, <1>7, <1>8, <1>9, <1>10, <1>11, <1>12 DEF Next

\* Nothing is cut at the start.
LEMMA InitCut == Init => CutInv
<1> SUFFICES ASSUME Init PROVE Uncut /\ Owned(Nothing)
  BY InitType DEF Init, CutInv
<1> QED  BY TextTypes, ResultsWhole DEF Init, Uncut, Owned

\* No stage reads and no file gets output that was cut at the limit; it is the
\* output of a failure, and the trace says so.
THEOREM CutStaysHonest == Spec => []CutIsHonest
<1>1. CutInv => CutIsNeverUsed
  BY DEF CutInv, Uncut, CutIsNeverUsed, TypeOK, Range
<1>2. CutInv => CutIsShown
  BY DEF CutInv, Owned, Whole, CutIsShown
<1> QED  BY <1>1, <1>2, InitCut, NextCut, PTL DEF Spec, CutIsHonest
-----------------------------------------------------------------------------
(***************************************************************************)
(* Lists: where the runner stands tells which pipelines have run.          *)
(***************************************************************************)
Inside == {"stage", "command", "output"}

Placed ==
    /\ pc = "script" => st = 0 /\ pl = 0
    /\ pc = "statement" => st >= 1 /\ pl = 0
    /\ pc \in Inside \cup {"pipeline"} => st \in DOMAIN script /\ pl >= 1
    /\ pc \in Inside => pl \in DOMAIN script[st] /\ Asked(st, pl)

\* The runner is at this pipeline, or past it.
Reached(s, p) == s < st \/ (s = st /\ p <= pl)

\* There is a pipeline that ran last before this one.
HasLast(s, p) == \E q \in RanBefore(s, p) : \A r \in RanBefore(s, p) : r <= q

LastRan ==
    \A s \in DOMAIN script : \A p \in DOMAIN script[s] :
        p > 1 /\ Reached(s, p) => HasLast(s, p)

\* What the next connective is judged on.
Judged ==
    pc = "pipeline" /\ pl > 1 /\ pl \in DOMAIN script[st] =>
        status.code = codes[<<st, Max(RanBefore(st, pl))>>]

ListInv ==
    /\ TypeOK /\ Placed /\ LastRan /\ Judged /\ ListSemantics
    /\ \A x \in DOMAIN codes : Past(x[1], x[2])

\* The maximum, where there is one.
LEMMA MaxIs ==
    ASSUME NEW S \in SUBSET Nat, NEW q \in S, \A r \in S : r <= q
    PROVE  Max(S) = q
<1>1. \A x \in S : (\A y \in S : x >= y) => x = q
  <2> SUFFICES ASSUME NEW x \in S, x >= q PROVE x = q
    OBVIOUS
  <2>1. x <= q /\ x \in Nat /\ q \in Nat
    OBVIOUS
  <2> QED  BY <2>1
<1>2. \A y \in S : q >= y
  OBVIOUS
<1> QED  BY <1>1, <1>2 DEF Max

\* The statements of a script are lists of pipelines, joined by connectives.
LEMMA ScriptTypes ==
    ASSUME TypeOK
    PROVE  /\ DOMAIN script = 1 .. Len(script) /\ Len(script) \in Nat
           /\ \A s \in DOMAIN script :
                 /\ Len(script[s]) \in Nat \ {0} /\ DOMAIN script[s] = 1 .. Len(script[s])
                 /\ \A p \in DOMAIN script[s] :
                       /\ script[s][p].op \in {"", "&&", "||"}
                       /\ script[s][p].op = "" <=> p = 1
<1>1. script \in Seq(Seq(Pipelines) \ {<< >>})
  BY ScriptAssumption DEF TypeOK
<1>2. ASSUME NEW s \in DOMAIN script
      PROVE  /\ Len(script[s]) \in Nat \ {0} /\ DOMAIN script[s] = 1 .. Len(script[s])
             /\ \A p \in DOMAIN script[s] : script[s][p].op \in {"", "&&", "||"}
  <2>1. script[s] \in Seq(Pipelines) /\ script[s] # << >>
    BY <1>1, <1>2
  <2>2. \A p \in DOMAIN script[s] : script[s][p] \in Pipelines
    BY <2>1
  <2>3. \A x \in Pipelines : x.op \in {"", "&&", "||"}
    BY DEF Pipelines
  <2>4. Len(script[s]) \in Nat /\ DOMAIN script[s] = 1 .. Len(script[s])
    BY <2>1, LenProperties
  <2>5. Len(script[s]) # 0
    BY <2>1, EmptySeq
  <2> QED  BY <2>2, <2>3, <2>4, <2>5
<1>3. \A s \in DOMAIN script : \A p \in DOMAIN script[s] : script[s][p].op = "" <=> p = 1
  BY ScriptAssumption DEF TypeOK
<1>4. DOMAIN script = 1 .. Len(script) /\ Len(script) \in Nat
  BY <1>1, LenProperties
<1> QED  BY <1>2, <1>3, <1>4

\* What is at hand in a script is numbered.
LEMMA Numbered ==
    ASSUME TypeOK, NEW s \in DOMAIN script, NEW p \in DOMAIN script[s]
    PROVE  s \in Nat /\ s >= 1 /\ p \in Nat /\ p >= 1
<1>1. DOMAIN script = 1 .. Len(script) /\ DOMAIN script[s] = 1 .. Len(script[s])
      /\ Len(script) \in Nat /\ Len(script[s]) \in Nat
  BY ScriptTypes
<1> QED  BY <1>1

\* What a loop over statements or pipelines is at, before its end.
LEMMA InRange ==
    ASSUME TypeOK
    PROVE  /\ st >= 1 /\ st <= Len(script) => st \in DOMAIN script
           /\ st \in DOMAIN script /\ pl >= 1 /\ pl <= Len(script[st]) =>
                 pl \in DOMAIN script[st]
<1>1. st \in Nat /\ pl \in Nat
  BY DEF TypeOK
<1>2. st >= 1 /\ st <= Len(script) => st \in DOMAIN script
  <2>1. DOMAIN script = 1 .. Len(script) /\ Len(script) \in Nat
    BY ScriptTypes
  <2> QED  BY <1>1, <2>1
<1>3. ASSUME st \in DOMAIN script, pl >= 1, pl <= Len(script[st])
      PROVE  pl \in DOMAIN script[st]
  <2>1. DOMAIN script[st] = 1 .. Len(script[st]) /\ Len(script[st]) \in Nat
    BY <1>3, ScriptTypes
  <2> QED  BY <1>1, <1>3, <2>1
<1> QED  BY <1>2, <1>3

\* The pipelines before the p-th have numbers below p.
LEMMA BeforeNumbers ==
    ASSUME NEW s, NEW p \in Nat
    PROVE  RanBefore(s, p) \in SUBSET Nat /\ \A q \in RanBefore(s, p) : q \in 1 .. p - 1
  BY DEF RanBefore

\* What the runner has reached is not judged anew when a pipeline has run.
LEMMA RunsOnce ==
    ASSUME ListInv, NEW o \in Outputs, PipelineReturns(o), pl \in DOMAIN script[st],
           st \in DOMAIN script, pl >= 1,
           NEW s \in DOMAIN script, NEW p \in DOMAIN script[s], Reached(s, p)
    PROVE  /\ RanBefore(s, p)' = RanBefore(s, p)
           /\ Asked(s, p)' <=> Asked(s, p)
<1>1. /\ script' = script /\ DOMAIN codes' = DOMAIN codes \cup {<<st, pl>>}
      /\ \A x \in DOMAIN codes : x # <<st, pl>> => codes'[x] = codes[x]
  BY DEF PipelineReturns, run
<1>2. p \in Nat /\ s \in Nat /\ st \in Nat /\ pl \in Nat
  BY Numbered DEF ListInv, TypeOK
<1>3. \A q \in 1 .. p - 1 : <<s, q>> # <<st, pl>>
  BY <1>2 DEF Reached
<1>4. RanBefore(s, p)' = RanBefore(s, p)
  BY <1>1, <1>3 DEF RanBefore
<1>5. CASE p > 1
  <2>1. PICK q \in RanBefore(s, p) : \A r \in RanBefore(s, p) : r <= q
    BY <1>5 DEF ListInv, LastRan, HasLast
  <2>2. Max(RanBefore(s, p)) = q
    BY <1>2, <2>1, MaxIs, BeforeNumbers
  <2>3. <<s, q>> \in DOMAIN codes /\ codes'[<<s, q>>] = codes[<<s, q>>]
    BY <1>1, <1>3, <2>1 DEF RanBefore
  <2>4. Max(RanBefore(s, p)') = q
    BY <1>4, <2>2
  <2>5. Max(RanBefore(s, p))' = Max(RanBefore(s, p)')
    OBVIOUS
  <2> QED  BY <1>1, <1>4, <2>2, <2>3, <2>4, <2>5 DEF Asked
<1>6. CASE p = 1
  BY <1>4, <1>6 DEF Asked
<1>7. p >= 1
  BY Numbered DEF ListInv
<1> QED  BY <1>2, <1>4, <1>5, <1>6, <1>7

\* A pipeline that is not run is not asked for, and one that is run is.
LEMMA AskedWhenRun ==
    ASSUME ListInv, pc = "pipeline", pl \in DOMAIN script[st]
    PROVE  ShouldRun(Pipeline.op) <=> Asked(st, pl)
<1>1. /\ st \in DOMAIN script /\ pl \in Nat /\ pl >= 1
      /\ script[st][pl].op \in {"", "&&", "||"}
      /\ script[st][pl].op = "" <=> pl = 1
  BY ScriptTypes DEF ListInv, Placed, TypeOK
<1>2. CASE pl = 1
  BY <1>1, <1>2 DEF Asked, ShouldRun, Pipeline
<1>3. CASE pl # 1
  <2>1. pl > 1
    <3>1. pl \in Nat /\ pl >= 1
      BY <1>1
    <3> QED  BY <1>3, <3>1
  <2>2. status.code = codes[<<st, Max(RanBefore(st, pl))>>]
    BY <2>1 DEF ListInv, Judged
  <2> QED  BY <1>1, <1>3, <2>2 DEF Asked, ShouldRun, Pipeline
<1> QED  BY <1>2, <1>3

\* A pipeline that was asked for has run, and its result is judged next.
LEMMA ReturnsList ==
    ASSUME ListInv, NEW o \in Outputs, PipelineReturns(o), TypeOK',
           st \in DOMAIN script, pl \in DOMAIN script[st], Asked(st, pl)
    PROVE  ListInv'
<1>0. PICK a \in Nat, b \in Nat : a = st /\ b = pl /\ b >= 1
  BY Numbered DEF ListInv
<1>1. /\ script' = script /\ st' = a /\ pl' = b + 1 /\ pc' = "pipeline" /\ status' = o
      /\ DOMAIN codes' = DOMAIN codes \cup {<<a, b>>}
      /\ codes'[<<a, b>>] = o.code
  BY <1>0 DEF PipelineReturns, run
<1>2. Placed'
  BY <1>0, <1>1 DEF Placed, Inside
<1>3. ASSUME NEW s \in DOMAIN script, NEW p \in DOMAIN script[s], Reached(s, p)
      PROVE  RanBefore(s, p)' = RanBefore(s, p) /\ (Asked(s, p)' <=> Asked(s, p))
  BY <1>0, <1>3, RunsOnce
<1>4. /\ b \in RanBefore(a, b + 1)' /\ \A r \in RanBefore(a, b + 1)' : r <= b
      /\ RanBefore(a, b + 1)' \in SUBSET Nat
  <2>1. RanBefore(a, b + 1)' = {q \in 1 .. b : <<a, q>> \in DOMAIN codes'}
    BY <1>0 DEF RanBefore
  <2>2. b \in 1 .. b /\ <<a, b>> \in DOMAIN codes'
    BY <1>0, <1>1
  <2>3. \A r \in 1 .. b : r <= b /\ r \in Nat
    BY <1>0
  <2> QED  BY <2>1, <2>2, <2>3
<1>5. LastRan'
  <2> SUFFICES ASSUME NEW s \in DOMAIN script, NEW p \in DOMAIN script[s], p > 1,
                      s < a \/ (s = a /\ p <= b + 1)
               PROVE  \E q \in RanBefore(s, p)' : \A r \in RanBefore(s, p)' : r <= q
    BY <1>1 DEF LastRan, Reached, HasLast
  <2>1. CASE Reached(s, p)
    BY <1>3, <2>1 DEF ListInv, LastRan, HasLast
  <2>2. CASE ~Reached(s, p)
    <3>1. p = b + 1 /\ s = a
      BY <1>0, <2>2, Numbered DEF Reached, ListInv
    <3> QED  BY <1>4, <3>1
  <2> QED  BY <2>1, <2>2
<1>6. Judged'
  <2>1. Max(RanBefore(a, b + 1)') = b
    BY <1>4, MaxIs
  <2>2. RanBefore(st, pl)' = RanBefore(a, b + 1)'
    BY <1>1 DEF RanBefore
  <2> QED  BY <1>1, <2>1, <2>2 DEF Judged
<1>7. ListSemantics'
  <2> SUFFICES ASSUME NEW s \in DOMAIN script, NEW p \in DOMAIN script[s]
               PROVE  <<s, p>> \in DOMAIN codes' <=> Past(s, p)' /\ Asked(s, p)'
    BY <1>1 DEF ListSemantics
  <2>1. s \in Nat /\ p \in Nat
    BY Numbered DEF ListInv
  <2>2. CASE s = a /\ p = b
    <3>1. Asked(s, p)'
      BY <1>0, <1>3, <2>2 DEF Reached
    <3> QED  BY <1>0, <1>1, <2>2, <3>1 DEF Past
  <2>3. CASE ~(s = a /\ p = b)
    <3>1. (<<s, p>> \in DOMAIN codes' <=> <<s, p>> \in DOMAIN codes) /\ (Past(s, p)' <=> Past(s, p))
      BY <1>0, <1>1, <2>1, <2>3 DEF Past
    <3>2. Past(s, p) => (Asked(s, p)' <=> Asked(s, p))
      BY <1>0, <1>3, <2>1 DEF Past, Reached
    <3> QED  BY <3>1, <3>2 DEF ListInv, ListSemantics
  <2> QED  BY <2>2, <2>3
<1>8. \A x \in DOMAIN codes' : Past(x[1], x[2])'
  <2>1. ASSUME NEW x \in DOMAIN codes PROVE Past(x[1], x[2])'
    <3>1. Past(x[1], x[2]) /\ x[2] \in Nat /\ x[1] \in Nat
      BY DEF ListInv, TypeOK
    <3> QED  BY <1>0, <1>1, <3>1 DEF Past
  <2> QED  BY <1>0, <1>1, <2>1 DEF Past
<1> QED  BY <1>2, <1>5, <1>6, <1>7, <1>8 DEF ListInv

\* A step that runs no pipeline and passes none keeps what has run.
LEMMA StaysList ==
    ASSUME ListInv, TypeOK', UNCHANGED <<script, codes, st, pl>>, Placed', Judged'
    PROVE  ListInv'
<1>1. LastRan' /\ ListSemantics' /\ \A x \in DOMAIN codes' : Past(x[1], x[2])'
  BY DEF ListInv, LastRan, ListSemantics, Reached, HasLast, Past, Asked, RanBefore
<1> QED  BY <1>1 DEF ListInv

\* A pipeline that is passed over has not run.
LEMMA SkipsList ==
    ASSUME ListInv, PipelineSkipped, TypeOK'
    PROVE  ListInv'
<1>0. PICK a \in Nat, b \in Nat : a = st /\ b = pl /\ b >= 1
  BY DEF ListInv, TypeOK, Placed, PipelineSkipped
<1>1. /\ UNCHANGED <<script, codes, status>> /\ st' = a /\ pl' = b + 1 /\ pc' = "pipeline"
      /\ pc = "pipeline" /\ a \in DOMAIN script /\ b \in DOMAIN script[a]
  <2>1. b \in DOMAIN script[a] /\ a \in DOMAIN script
    BY <1>0, InRange DEF ListInv, Placed, PipelineSkipped
  <2> QED  BY <1>0, <2>1 DEF PipelineSkipped, run, ghosts
<1>2. ~Asked(a, b) /\ <<a, b>> \notin DOMAIN codes /\ b > 1
  <2>1. ~Asked(a, b)
    BY <1>0, <1>1, AskedWhenRun DEF PipelineSkipped
  <2>2. <<a, b>> \notin DOMAIN codes
    BY <1>1, <2>1 DEF ListInv, ListSemantics
  <2>3. b # 1
    BY <2>1 DEF Asked
  <2> QED  BY <1>0, <2>1, <2>2, <2>3
<1>3. \A s \in DOMAIN script : \A p \in DOMAIN script[s] :
          RanBefore(s, p)' = RanBefore(s, p) /\ (Asked(s, p)' <=> Asked(s, p))
  BY <1>1 DEF RanBefore, Asked
<1>4. RanBefore(a, b + 1) = RanBefore(a, b)
  <2>1. \A q \in Nat : <<a, q>> \in DOMAIN codes => (q \in 1 .. (b + 1) - 1 <=> q \in 1 .. b - 1)
    BY <1>0, <1>2
  <2>2. \A q \in 1 .. (b + 1) - 1 : q \in Nat
    BY <1>0
  <2>3. \A q \in 1 .. b - 1 : q \in Nat
    BY <1>0
  <2> QED  BY <2>1, <2>2, <2>3 DEF RanBefore
<1>5. Placed'
  BY <1>0, <1>1 DEF Placed, Inside
<1>6. LastRan'
  <2> SUFFICES ASSUME NEW s \in DOMAIN script, NEW p \in DOMAIN script[s], p > 1,
                      s < a \/ (s = a /\ p <= b + 1)
               PROVE  HasLast(s, p)
    BY <1>1, <1>3 DEF LastRan, Reached, HasLast
  <2>1. CASE Reached(s, p)
    BY <2>1 DEF ListInv, LastRan
  <2>2. CASE ~Reached(s, p)
    <3>1. p = b + 1 /\ s = a
      BY <1>0, <2>2, Numbered DEF Reached, ListInv
    <3>2. HasLast(a, b)
      BY <1>0, <1>1, <1>2 DEF ListInv, LastRan, Reached
    <3> QED  BY <1>4, <3>1, <3>2 DEF HasLast
  <2> QED  BY <2>1, <2>2
<1>7. Judged'
  <2>1. status.code = codes[<<a, Max(RanBefore(a, b))>>]
    BY <1>0, <1>1, <1>2 DEF ListInv, Judged
  <2>2. RanBefore(st, pl)' = RanBefore(a, b)
    BY <1>1, <1>4 DEF RanBefore
  <2> QED  BY <1>1, <2>1, <2>2 DEF Judged
<1>8. ListSemantics'
  <2> SUFFICES ASSUME NEW s \in DOMAIN script, NEW p \in DOMAIN script[s]
               PROVE  <<s, p>> \in DOMAIN codes <=> Past(s, p)' /\ Asked(s, p)
    BY <1>1, <1>3 DEF ListSemantics
  <2>1. s \in Nat /\ p \in Nat
    BY Numbered DEF ListInv
  <2>2. CASE s = a /\ p = b
    BY <1>2, <2>2
  <2>3. CASE ~(s = a /\ p = b)
    <3>1. Past(s, p)' <=> Past(s, p)
      BY <1>0, <1>1, <2>1, <2>3 DEF Past
    <3> QED  BY <3>1 DEF ListInv, ListSemantics
  <2> QED  BY <2>2, <2>3
<1>9. \A x \in DOMAIN codes' : Past(x[1], x[2])'
  <2>1. ASSUME NEW x \in DOMAIN codes PROVE Past(x[1], x[2])'
    <3>1. Past(x[1], x[2]) /\ x[2] \in Nat /\ x[1] \in Nat
      BY DEF ListInv, TypeOK
    <3> QED  BY <1>0, <1>1, <3>1 DEF Past
  <2> QED  BY <1>1, <2>1
<1> QED  BY <1>5, <1>6, <1>7, <1>8, <1>9 DEF ListInv

\* The loops over statements pass none and run none.
LEMMA LoopsList ==
    ASSUME ListInv, Begin \/ Statement \/ StatementEnds, TypeOK'
    PROVE  ListInv'
<1>0. PICK a \in Nat, b \in Nat : a = st /\ b = pl
  BY DEF ListInv, TypeOK
<1>1. UNCHANGED <<script, codes>>
  BY DEF Begin, Statement, StatementEnds, run, ghosts
<1>2. \A s \in DOMAIN script : \A p \in DOMAIN script[s] :
          RanBefore(s, p)' = RanBefore(s, p) /\ (Asked(s, p)' <=> Asked(s, p))
  BY <1>1 DEF RanBefore, Asked
<1>3. Placed' /\ Judged'
  <2>1. CASE Begin
    BY <2>1 DEF Begin, Placed, Judged, Inside, ListInv
  <2>2. CASE Statement
    <3>1. st \in DOMAIN script /\ st' = st /\ pl' = 1 /\ pc' = "pipeline"
      BY <2>2, InRange DEF Statement, Placed, ListInv
    <3> QED  BY <1>1, <3>1 DEF Placed, Judged, Inside
  <2>3. CASE StatementEnds
    BY <2>3 DEF StatementEnds, Placed, Judged, Inside, ListInv, TypeOK
  <2> QED  BY <2>1, <2>2, <2>3
<1>4. ASSUME NEW s \in DOMAIN script, NEW p \in DOMAIN script[s]
      PROVE  (Past(s, p)' <=> Past(s, p)) /\ (p > 1 /\ Reached(s, p)' => Reached(s, p))
  <2>1. s \in Nat /\ s >= 1 /\ p \in Nat /\ p >= 1
    BY Numbered DEF ListInv
  <2>2. CASE Begin
    BY <2>1, <2>2 DEF Begin, Past, Reached, ListInv, Placed
  <2>3. CASE Statement
    BY <2>1, <2>3 DEF Statement, Past, Reached, ListInv, Placed
  <2>4. CASE StatementEnds
    <3>1. DOMAIN script[s] = 1 .. Len(script[s]) /\ Len(script[s]) \in Nat
      BY ScriptTypes DEF ListInv
    <3>2. p <= Len(script[s])
      BY <3>1
    <3>3. st' = a + 1 /\ pl' = 0 /\ (s = a => p < b)
      BY <1>0, <2>1, <2>4, <3>1, <3>2 DEF StatementEnds
    <3> QED  BY <1>0, <2>1, <3>3 DEF Past, Reached
  <2> QED  BY <2>2, <2>3, <2>4
<1>5. LastRan' /\ ListSemantics'
  BY <1>1, <1>2, <1>4 DEF ListInv, LastRan, ListSemantics, HasLast
<1>6. \A x \in DOMAIN codes' : Past(x[1], x[2])'
  <2>1. ASSUME NEW x \in DOMAIN codes PROVE Past(x[1], x[2])'
    <3>1. Past(x[1], x[2]) /\ x[2] \in Nat /\ x[1] \in Nat
      BY DEF ListInv, TypeOK
    <3>2. CASE Begin
      BY <1>0, <3>1, <3>2 DEF Begin, Past, ListInv, Placed
    <3>3. CASE Statement
      BY <1>0, <3>1, <3>3 DEF Statement, Past, ListInv, Placed
    <3>4. CASE StatementEnds
      BY <1>0, <3>1, <3>4 DEF StatementEnds, Past
    <3> QED  BY <3>2, <3>3, <3>4
  <2> QED  BY <1>1, <2>1
<1> QED  BY <1>3, <1>5, <1>6 DEF ListInv

\* Every step keeps the inductive invariant.
LEMMA NextList == ListInv /\ [Next]_vars => ListInv'
<1> SUFFICES ASSUME ListInv, [Next]_vars PROVE ListInv'
  OBVIOUS
<1>0. TypeOK /\ TypeOK' /\ Placed
  BY NextType DEF ListInv
<1>1. CASE Begin \/ Statement \/ StatementEnds
  BY <1>0, <1>1, LoopsList
<1>2. CASE PipelineSkipped
  BY <1>0, <1>2, SkipsList
<1>3. CASE ContextDone \/ Stop \/ UNCHANGED vars
  <2>1. UNCHANGED <<script, codes, st, pl, pc, status>>
    BY <1>3 DEF ContextDone, Stop, vars, run, position, ghosts
  <2>2. Placed' /\ Judged'
    BY <2>1 DEF ListInv, Placed, Judged, Inside, Asked, RanBefore
  <2> QED  BY <1>0, <2>1, <2>2, StaysList
<1>4. CASE BeginRefused \/ ScriptEnds \/ ScriptInterrupted
  <2>1. UNCHANGED <<script, codes, st, pl>> /\ pc' = "returned"
    BY <1>4 DEF BeginRefused, ScriptEnds, ScriptInterrupted, Return, run, position, ghosts
  <2>2. Placed' /\ Judged'
    BY <2>1 DEF Placed, Judged, Inside
  <2> QED  BY <1>0, <2>1, <2>2, StaysList
<1>5. CASE PipelineBegins
  <2>1. UNCHANGED <<script, codes, st, pl>> /\ pc' = "stage" /\ pc = "pipeline"
    BY <1>5 DEF PipelineBegins, run, ghosts
  <2>2. st \in DOMAIN script /\ pl \in DOMAIN script[st] /\ pl >= 1
    BY <1>0, <1>5, InRange DEF PipelineBegins, Placed
  <2>3. Asked(st, pl)
    BY <1>5, <2>1, <2>2, AskedWhenRun DEF PipelineBegins
  <2>4. Placed' /\ Judged'
    BY <2>1, <2>2, <2>3 DEF Placed, Judged, Inside, Asked, RanBefore
  <2> QED  BY <1>0, <2>1, <2>4, StaysList
<1>6. ASSUME UNCHANGED <<script, codes, st, pl>>, pc \in Inside, pc' \in Inside
      PROVE  ListInv'
  <2>1. Placed' /\ Judged'
    BY <1>0, <1>6 DEF Placed, Judged, Inside, Asked, RanBefore
  <2> QED  BY <1>0, <1>6, <2>1, StaysList
<1>7. CASE StageRuns \/ RedirectNull \/ Redirect \/ StageEnds
  BY <1>6, <1>7 DEF StageRuns, RedirectNull, Redirect, Redirecting, StageEnds, Inside,
                    run, position, ghosts
<1>8. ASSUME NEW o \in Outputs, PipelineReturns(o), pc \in Inside
      PROVE  ListInv'
  BY <1>0, <1>8, ReturnsList DEF Placed
<1>9. CASE PipelineTooDeep
  <2>1. st \in DOMAIN script /\ pl \in DOMAIN script[st] /\ pc = "pipeline"
    BY <1>0, <1>9, InRange DEF PipelineTooDeep, Placed
  <2>2. Asked(st, pl)
    BY <1>9, <2>1, AskedWhenRun DEF PipelineTooDeep
  <2> QED  BY <1>0, <1>9, <2>1, <2>2, ReturnsList, ResultTypes DEF PipelineTooDeep
<1>10. CASE PipelineEnds \/ StageInterrupted
  <2>1. Output(current, stderr, 0) \in Outputs
    BY <1>0, ResultTypes DEF TypeOK
  <2> QED  BY <1>8, <1>10, <2>1, ResultTypes DEF PipelineEnds, StageInterrupted, Inside
<1>11. CASE StageRefused \/ RedirectFails \/ StageFails
  <2>1. Output(Message, stderr, 1) \in Outputs
    BY <1>0, ResultTypes, TextTypes DEF TypeOK
  <2> QED  BY <1>8, <1>11, <2>1 DEF StageRefused, RedirectFails, Redirecting, StageFails, Inside
<1>12. ASSUME NEW o \in Returned(Command.kind, Stage),
             CommandFails(o) \/ CommandRefused(o) \/ CommandEnds(o)
      PROVE  ListInv'
  <2>1. PICK e \in Outputs : e = enforceOutputLimit(o)
    BY <1>0, PrintedTypes, LimitTypes DEF TypeOK
  <2>2. /\ Output(e.stdout, AppendText(stderr, e.stderr), 1) \in Outputs
        /\ Output(Message, AppendText(stderr, e.stderr), 1) \in Outputs
    BY <1>0, <2>1, TextTypes, ResultTypes DEF Outputs, TypeOK
  <2>3. CASE CommandFails(o)
    BY <1>8, <2>1, <2>2, <2>3 DEF CommandFails, Inside
  <2>4. CASE CommandRefused(o)
    BY <1>8, <2>1, <2>2, <2>4 DEF CommandRefused, Inside
  <2>5. CASE CommandEnds(o)
    BY <1>6, <2>5 DEF CommandEnds, Inside, run
  <2> QED  BY <1>12, <2>3, <2>4, <2>5
<1>13. CASE OutputTooLong
  <2>1. Output(PassedOn, stderr, 1) \in Outputs
    BY <1>0, ResultTypes, TextTypes DEF PassedOn, TypeOK
  <2>2. policy.maxOutputBytes \in Nat
    <3>1. AppendText(PassedOn, stderr).size \in Nat
      BY <1>0, TextTypes DEF PassedOn, TypeOK
    <3> QED  BY <1>0, <1>13, <3>1, PolicyTypes DEF OutputTooLong, OutputAllowed, LimitExceeded, TypeOK
  <2>3. truncateExecOutput(Output(PassedOn, stderr, 1), policy.maxOutputBytes) \in Outputs
    BY <2>1, <2>2, TruncateTypes
  <2> QED  BY <1>8, <1>13, <2>3 DEF OutputTooLong, Inside
<1> QED  BY <1>1, <1>2, <1>3, <1>4, <1>5, <1>7, <1>9, <1>10, <1>11, <1>12, <1>13 DEF Next

\* Nothing has run at the start.
LEMMA InitList == Init => ListInv
<1> SUFFICES ASSUME Init PROVE ListInv
  OBVIOUS
<1>1. TypeOK /\ pc = "script" /\ st = 0 /\ pl = 0 /\ DOMAIN codes = {}
  BY InitType DEF Init
<1>2. ASSUME NEW s \in DOMAIN script, NEW p \in DOMAIN script[s]
      PROVE  ~Past(s, p) /\ ~Reached(s, p)
  BY <1>1, <1>2, Numbered DEF Past, Reached
<1> QED  BY <1>1, <1>2 DEF ListInv, Placed, Inside, LastRan, Judged, ListSemantics

\* The pipelines that have run are those that && and || ask for.
THEOREM ListsHold == Spec => []ListSemantics
<1>1. ListInv => ListSemantics
  BY DEF ListInv
<1> QED  BY <1>1, InitList, NextList, PTL DEF Spec

-----------------------------------------------------------------------------
(***************************************************************************)
(* What a stage is given, and what is left of what it printed.             *)
(***************************************************************************)

RedirsOf(s, p, g) == OutputRedirs(script[s][p].commands[g])

\* The runner is past this stage.
Earlier(b) ==
    \/ b[1] < st
    \/ b[1] = st /\ b[2] < pl
    \/ b[1] = st /\ b[2] = pl /\ pc \in Inside /\ b[3] < sg

\* Where the runner is in the script, the statement and the pipeline.
Within ==
    /\ pc = "statement" => st <= Len(script) + 1
    /\ pc = "pipeline" => pl <= Len(script[st]) + 1
    /\ pc \in Inside => sg >= 1
    /\ pc = "stage" => sg <= Len(Pipeline.commands) + 1
    /\ pc \in {"command", "output"} => sg <= Len(Pipeline.commands)
    /\ pc = "output" => rd >= 1 /\ rd <= Len(OutputRedirs(Command)) + 1

\* What the last stage that ran leaves to the next.
Handed ==
    /\ pc = "command" /\ InputRedirs(Command) = << >> =>
          input = IF sg = 1 THEN NoInput ELSE current
    /\ pc = "output" => outputs # << >> /\ Last(outputs) = current /\ current.by = Stage
    /\ pc \in {"stage", "command"} /\ sg > 1 =>
          /\ outputs # << >> /\ Last(outputs).by = <<st, pl, sg - 1>>
          /\ current = IF RedirsOf(st, pl, sg - 1) = << >> THEN Last(outputs) ELSE Empty

\* Stages print, and write their files, in the order of the script.
InOrder ==
    /\ \A t \in Range(outputs) :
          /\ t.by \in Stages
          /\ pc # "returned" => Earlier(t.by) \/ (pc = "output" /\ t = current)
    /\ \A p \in Paths : \A u \in Range(files[p]) :
          /\ u.by \in Stages
          /\ pc # "returned" => Earlier(u.by) \/ (pc = "output" /\ u.by = Stage)

\* What is being written is not over the limit.
Checked == pc = "output" => ~PayloadRefused(current)

\* Holds, when the first n targets have been written.
Left(stage, redirs, i, n) ==
    LET Path(j) == At[dir][redirs[j].target]
    IN  redirs[i].target # Null =>
            IF i = Len(redirs)
            THEN /\ Last(files[Path(i)]).by = stage
                 /\ Last(files[Path(i)]) \in Range(outputs)
            ELSE /\ redirs[i].kind = "write"
                 /\ \A j \in i + 1 .. n : redirs[j].target # Null => Path(j) # Path(i)
                 => files[Path(i)] = <<[Empty EXCEPT !.by = stage]>>

Printers(s, p, n) == \A h \in 1 .. n : \E t \in Range(outputs) : t.by = <<s, p, h>>

\* What stage g printed is in its targets.
Filled(s, p, g) ==
    LET redirs == RedirsOf(s, p, g)
    IN  \A i \in 1 .. Len(redirs) : Left(<<s, p, g>>, redirs, i, Len(redirs))

\* The pipeline has run to its end, and this is its result.
Complete(s, p, o) ==
    LET g == Len(script[s][p].commands)
    IN  /\ codes[<<s, p>>] = 0
        /\ Printers(s, p, g)
        /\ IF RedirsOf(s, p, g) = << >>
           THEN o.stdout \in Range(outputs) /\ o.stdout.by = <<s, p, g>>
           ELSE Filled(s, p, g)

\* Of the first pipelines of statement s the last that ran is complete, if o,
\* the result so far, says so.
Settled(s, n, o) ==
    o.code = 0 =>
        \E q \in RanBefore(s, n) :
            /\ \A r \in RanBefore(s, n) : r <= q
            /\ Complete(s, q, o)

\* Success comes from a pipeline that is complete.
Done ==
    /\ pc \in Inside => Printers(st, pl, sg - 1)
    /\ pc = "output" =>
          \A i \in 1 .. rd - 1 : Left(Stage, OutputRedirs(Command), i, rd - 1)
    /\ pc = "stage" /\ sg > 1 => Filled(st, pl, sg - 1)
    /\ pc = "pipeline" /\ pl > 1 => Settled(st, pl, status)
    /\ pc = "statement" /\ st > 1 => Settled(st - 1, Len(script[st - 1]) + 1, last)
    /\ pc = "returned" /\ result.code = 0 /\ script # << >> =>
          /\ st = Len(script) + 1
          /\ Settled(Len(script), Len(script[Len(script)]) + 1, result)

PipesInv == ListInv /\ Within /\ Handed /\ InOrder /\ Checked /\ LimitedAtomic /\ Done

\* The outputs that a sequence gains, and its last.
LEMMA Appended ==
    ASSUME NEW S, NEW s \in Seq(S), NEW e \in S
    PROVE  /\ Range(Append(s, e)) = Range(s) \cup {e}
           /\ Last(Append(s, e)) = e /\ Append(s, e) # << >>
<1>1. /\ Len(Append(s, e)) = Len(s) + 1 /\ Len(s) \in Nat
      /\ DOMAIN s = 1 .. Len(s) /\ DOMAIN Append(s, e) = 1 .. Len(s) + 1
      /\ \A i \in 1 .. Len(s) : Append(s, e)[i] = s[i]
      /\ Append(s, e)[Len(s) + 1] = e
  BY AppendProperties, LenProperties
<1>2. Last(Append(s, e)) = e
  BY <1>1 DEF Last
<1>3. Append(s, e) # << >>
  BY AppendProperties
<1>4. ASSUME NEW x PROVE x \in Range(Append(s, e)) <=> x \in Range(s) \cup {e}
  <2>1. x \in Range(Append(s, e)) <=> \E i \in 1 .. Len(s) + 1 : x = Append(s, e)[i]
    BY <1>1 DEF Range
  <2>2. x \in Range(s) <=> \E i \in 1 .. Len(s) : x = s[i]
    BY <1>1 DEF Range
  <2>3. 1 .. Len(s) + 1 = (1 .. Len(s)) \cup {Len(s) + 1}
    BY <1>1
  <2> QED  BY <1>1, <2>1, <2>2, <2>3
<1> QED  BY <1>2, <1>3, <1>4

\* What a sequence with one element has.
LEMMA Single ==
    ASSUME NEW e
    PROVE  Range(<<e>>) = {e} /\ Last(<<e>>) = e /\ <<e>> # << >>
<1>1. DOMAIN <<e>> = {1} /\ <<e>>[1] = e /\ Len(<<e>>) = 1
  OBVIOUS
<1> QED  BY <1>1 DEF Range, Last

\* What a command that succeeds has printed is all there, and its stage's.
LEMMA PrintedBy ==
    ASSUME TypeOK, NEW o \in Returned(Command.kind, Stage), enforceOutputLimit(o).code = 0
    PROVE  /\ enforceOutputLimit(o).stdout \in Texts
           /\ enforceOutputLimit(o).stdout.by = Stage
<1>1. o \in Outputs /\ policy \in RunPolicies
  BY PrintedTypes DEF TypeOK
<1>2. enforceOutputLimit(o) = o
  BY <1>1, LimitTypes
<1>3. o.stdout \in Printed(Stage)
  BY DEF Returned
<1>4. \A t \in Printed(Stage) : t.by = Stage
  BY DEF Printed, Empty
<1> QED  BY <1>1, <1>2, <1>3, <1>4 DEF Outputs

\* The parts of the script that the runner is in.
LEMMA AtHand ==
    ASSUME TypeOK, NEW s \in DOMAIN script, NEW p \in DOMAIN script[s]
    PROVE  LET commands == script[s][p].commands
           IN  /\ Len(commands) \in Nat /\ Len(commands) >= 1
               /\ DOMAIN commands = 1 .. Len(commands)
               /\ \A g \in DOMAIN commands :
                     /\ OutputRedirs(commands[g]) \in Seq(Redirections)
                     /\ Len(OutputRedirs(commands[g])) \in Nat
                     /\ DOMAIN OutputRedirs(commands[g]) = 1 .. Len(OutputRedirs(commands[g]))
                     /\ OutputRedirs(commands[g]) = << >>
                           <=> Len(OutputRedirs(commands[g])) = 0
<1>1. script \in Scripts /\ script \in Seq(Seq(Pipelines) \ {<< >>})
  BY ScriptAssumption DEF TypeOK
<1>2. script[s] \in Seq(Pipelines)
  BY <1>1
<1>3. script[s][p] \in Pipelines
  BY <1>2
<1>4. PICK commands : commands = script[s][p].commands
  OBVIOUS
<1>5. commands \in Seq(Commands) /\ commands # << >>
  BY <1>3, <1>4 DEF Pipelines
<1>6. Len(commands) \in Nat /\ DOMAIN commands = 1 .. Len(commands) /\ Len(commands) # 0
  BY <1>5, LenProperties, EmptySeq
<1>7. ASSUME NEW g \in DOMAIN commands
      PROVE  OutputRedirs(commands[g]) \in Seq(Redirections)
  <2>1. commands[g] \in Range(commands)
    BY DEF Range
  <2> QED  BY <1>1, <1>4, <2>1, SelectAssumption
<1>8. \A g \in DOMAIN commands :
         /\ Len(OutputRedirs(commands[g])) \in Nat
         /\ DOMAIN OutputRedirs(commands[g]) = 1 .. Len(OutputRedirs(commands[g]))
         /\ OutputRedirs(commands[g]) = << >> <=> Len(OutputRedirs(commands[g])) = 0
  BY <1>7, LenProperties, EmptySeq
<1> QED  BY <1>4, <1>6, <1>7, <1>8

\* Where the runner is, in the types of the script.
LEMMA Here ==
    ASSUME PipesInv, pc \in Inside
    PROVE  /\ st \in DOMAIN script /\ pl \in DOMAIN script[st] /\ Pipeline = script[st][pl]
           /\ sg \in Nat /\ sg >= 1 /\ st \in Nat /\ pl \in Nat /\ rd \in Nat
           /\ Len(Pipeline.commands) \in Nat /\ Len(Pipeline.commands) >= 1
           /\ sg <= Len(Pipeline.commands) =>
                 /\ Len(OutputRedirs(Command)) \in Nat
                 /\ OutputRedirs(Command) = << >> <=> Len(OutputRedirs(Command)) = 0
                 /\ OutputRedirs(Command) = RedirsOf(st, pl, sg)
<1>1. TypeOK /\ Placed /\ Within
  BY DEF PipesInv, ListInv
<1>2. st \in DOMAIN script /\ pl \in DOMAIN script[st]
  BY <1>1 DEF Placed
<1>3. sg \in Nat /\ sg >= 1 /\ st \in Nat /\ pl \in Nat /\ rd \in Nat
  BY <1>1 DEF TypeOK, Within
<1>4. /\ Len(Pipeline.commands) \in Nat /\ Len(Pipeline.commands) >= 1
      /\ DOMAIN Pipeline.commands = 1 .. Len(Pipeline.commands)
      /\ \A g \in DOMAIN Pipeline.commands :
            /\ Len(OutputRedirs(Pipeline.commands[g])) \in Nat
            /\ OutputRedirs(Pipeline.commands[g]) = << >>
                  <=> Len(OutputRedirs(Pipeline.commands[g])) = 0
  BY <1>1, <1>2, AtHand DEF Pipeline
<1>5. sg <= Len(Pipeline.commands) => sg \in DOMAIN Pipeline.commands
  BY <1>3, <1>4
<1> QED  BY <1>2, <1>3, <1>4, <1>5 DEF Pipeline, Command, RedirsOf

-----------------------------------------------------------------------------
(***************************************************************************)
(* The steps, by what they do to the pipelines.                            *)
(***************************************************************************)
\* All that the invariant is about stays.
Still ==
    UNCHANGED <<script, policy, dir, files, pc, st, pl, sg, rd, status, last, input,
                current, result, codes, outputs>>

\* The execution returns.
Leaves ==
    /\ pc' = "returned"
    /\ UNCHANGED <<script, policy, dir, files, st, pl, sg, rd, status, last, codes, outputs>>
    /\ \/ result'.code # 0
       \/ script = << >>
       \/ pc = "statement" /\ st > Len(script) /\ result' = last

\* The command has printed this.
Prints(t) == t \in Texts /\ t.by = Stage /\ outputs' = Append(outputs, t)

\* The pipeline fails, at most after the command of this stage has succeeded.
Fails ==
    /\ pc \in Inside \/ (pc = "pipeline" /\ pl <= Len(script[st]))
    /\ \E o \in Outputs : o.code # 0 /\ PipelineReturns(o)
    /\ UNCHANGED files
    /\ outputs' = outputs \/ (pc = "command" /\ \E t \in Texts : Prints(t))

\* The command succeeds.
Succeeds ==
    /\ pc = "command" /\ pc' = "output" /\ rd' = 1
    /\ Prints(current') /\ ~PayloadRefused(current')
    /\ UNCHANGED <<script, policy, files, st, pl, sg, status, last, result, codes>>

\* These are all steps.
LEMMA StepKinds ==
    ASSUME TypeOK, [Next]_vars
    PROVE  \/ Still \/ Leaves \/ Begin \/ Statement \/ StatementEnds
           \/ PipelineSkipped \/ PipelineBegins \/ PipelineEnds \/ Fails
           \/ StageRuns \/ Succeeds \/ RedirectNull \/ Redirect \/ StageEnds
<1> USE DEF run, position, pipe, ghosts
<1>1. CASE ContextDone \/ Stop \/ UNCHANGED vars
  BY <1>1 DEF ContextDone, Stop, vars, Still
<1>2. CASE BeginRefused \/ ScriptEnds \/ ScriptInterrupted
  <2>1. Failure.code = 1
    BY DEF Failure, Output
  <2> QED  BY <1>2, <2>1 DEF BeginRefused, ScriptEnds, ScriptInterrupted, Return, Leaves
<1>3. CASE PipelineTooDeep \/ StageInterrupted
  <2>1. Failure \in Outputs /\ Failure.code = 1
    BY ResultTypes DEF Failure, Output
  <2>2. UNCHANGED <<files, outputs>> /\ PipelineReturns(Failure)
    BY <1>3 DEF PipelineTooDeep, StageInterrupted
  <2> QED  BY <1>3, <2>1, <2>2 DEF PipelineTooDeep, StageInterrupted, Fails, Inside
<1>4. CASE StageRefused \/ RedirectFails \/ StageFails
  <2>1. PICK o \in Outputs : o = Output(Message, stderr, 1)
    BY ResultTypes, TextTypes DEF TypeOK
  <2>2. o.code = 1
    BY <2>1 DEF Output
  <2>3. PipelineReturns(o) /\ pc \in Inside /\ UNCHANGED <<files, outputs>>
    BY <1>4, <2>1 DEF StageRefused, RedirectFails, Redirecting, StageFails, Inside
  <2> QED  BY <2>2, <2>3 DEF Fails
<1>5. ASSUME NEW o \in Returned(Command.kind, Stage),
             CommandFails(o) \/ CommandRefused(o) \/ CommandEnds(o)
      PROVE  Fails \/ Succeeds
  <2>1. PICK e \in Outputs : e = enforceOutputLimit(o)
    BY PrintedTypes, LimitTypes DEF TypeOK
  <2>2. e.code = 0 => e.stdout \in Texts /\ e.stdout.by = Stage
    BY <2>1, PrintedBy
  <2>3. AppendText(stderr, e.stderr) \in Texts /\ e.stdout \in Texts
    BY <2>1, TextTypes DEF Outputs, TypeOK
  <2>4. CASE CommandFails(o)
    <3>1. PICK r \in Outputs : r = Output(e.stdout, AppendText(stderr, e.stderr), 1)
      BY <2>3, ResultTypes
    <3>2. r.code = 1
      BY <3>1 DEF Output
    <3>3. PipelineReturns(r) /\ pc = "command" /\ UNCHANGED <<files, outputs>>
      BY <2>1, <2>4, <3>1 DEF CommandFails
    <3> QED  BY <3>2, <3>3 DEF Fails, Inside
  <2>5. CASE CommandRefused(o)
    <3>1. PICK r \in Outputs : r = Output(Message, AppendText(stderr, e.stderr), 1)
      BY <2>3, ResultTypes, TextTypes
    <3>2. r.code = 1
      BY <3>1 DEF Output
    <3>3. /\ PipelineReturns(r) /\ pc = "command" /\ UNCHANGED files
          /\ outputs' = Append(outputs, e.stdout) /\ e.code = 0
      BY <2>1, <2>5, <3>1 DEF CommandRefused
    <3> QED  BY <2>2, <3>2, <3>3 DEF Fails, Inside, Prints
  <2>6. CASE CommandEnds(o)
    <3>1. /\ pc = "command" /\ pc' = "output" /\ rd' = 1 /\ e.code = 0
          /\ current' = e.stdout /\ outputs' = Append(outputs, e.stdout)
          /\ ~PayloadRefused(e.stdout)
          /\ UNCHANGED <<script, policy, files, st, pl, sg, status, last, result, codes>>
      BY <2>1, <2>6 DEF CommandEnds
    <3> QED  BY <2>2, <3>1 DEF Succeeds, Prints
  <2> QED  BY <1>5, <2>4, <2>5, <2>6
<1>6. CASE OutputTooLong
  <2>1. PICK r \in Outputs : r = Output(PassedOn, stderr, 1)
    BY ResultTypes, TextTypes DEF PassedOn, TypeOK
  <2>2. policy.maxOutputBytes \in Nat
    <3>1. AppendText(PassedOn, stderr).size \in Nat
      BY TextTypes DEF PassedOn, TypeOK
    <3> QED  BY <1>6, <3>1, PolicyTypes DEF OutputTooLong, OutputAllowed, LimitExceeded, TypeOK
  <2>3. PICK t \in Outputs : t = truncateExecOutput(r, policy.maxOutputBytes) /\ t.code = 1
    <3>1. r.code = 1
      BY <2>1 DEF Output
    <3> QED  BY <2>2, <3>1, TruncateTypes
  <2>4. PipelineReturns(t) /\ pc = "output" /\ UNCHANGED <<files, outputs>>
    BY <1>6, <2>1, <2>3 DEF OutputTooLong
  <2> QED  BY <2>3, <2>4 DEF Fails, Inside
<1> QED  BY <1>1, <1>2, <1>3, <1>4, <1>5, <1>6 DEF Next

\* After the end of a pipeline the runner is at the next.
LEMMA Returning ==
    ASSUME PipesInv, NEW o, PipelineReturns(o),
           pc \in Inside \/ (pc = "pipeline" /\ pl <= Len(script[st]))
    PROVE  /\ st \in DOMAIN script /\ pl \in DOMAIN script[st] /\ st \in Nat /\ pl \in Nat
           /\ pl >= 1 /\ pl <= Len(script[st])
           /\ pc' = "pipeline" /\ pl' = pl + 1 /\ status' = o
           /\ UNCHANGED <<script, policy, st, sg, rd, last, result>>
           /\ DOMAIN codes' = DOMAIN codes \cup {<<st, pl>>}
           /\ codes'[<<st, pl>>] = o.code
<1>1. TypeOK /\ Placed /\ st \in Nat /\ pl \in Nat
  BY DEF PipesInv, ListInv, TypeOK
<1>2. st \in DOMAIN script /\ pl \in DOMAIN script[st]
  BY <1>1, InRange DEF Placed
<1>3. pl >= 1 /\ pl <= Len(script[st])
  <2>1. DOMAIN script[st] = 1 .. Len(script[st]) /\ Len(script[st]) \in Nat
    BY <1>1, <1>2, ScriptTypes
  <2> QED  BY <1>2, <2>1
<1> QED  BY <1>1, <1>2, <1>3 DEF PipelineReturns, run

\* The runner stays within the script.
LEMMA NextWithin == PipesInv /\ [Next]_vars => Within'
<1> SUFFICES ASSUME PipesInv, [Next]_vars PROVE Within'
  OBVIOUS
<1>0. TypeOK /\ Within /\ Placed /\ st \in Nat /\ pl \in Nat
  BY DEF PipesInv, ListInv, TypeOK
<1>s. DOMAIN script = 1 .. Len(script) /\ Len(script) \in Nat
  BY <1>0, ScriptTypes
<1>1. CASE Still
  BY <1>0, <1>1 DEF Still, Within, Pipeline, Command, Inside
<1>2. CASE Leaves
  BY <1>2 DEF Leaves, Within, Inside
<1>3. CASE Begin
  <2>1. pc' = "statement" /\ st' = 1 /\ script' = script /\ Len(script) >= 1
    BY <1>3, <1>s DEF Begin, run
  <2> QED  BY <1>s, <2>1 DEF Within, Inside
<1>4. CASE Statement
  <2>1. pc' = "pipeline" /\ pl' = 1 /\ st' = st /\ script' = script
    BY <1>4 DEF Statement, run
  <2>2. st \in DOMAIN script
    BY <1>0, <1>4, InRange DEF Statement, Placed
  <2>3. Len(script[st]) \in Nat
    BY <1>0, <2>2, ScriptTypes
  <2> QED  BY <2>1, <2>3 DEF Within, Inside
<1>5. CASE StatementEnds
  <2>1. pc' = "statement" /\ st' = st + 1 /\ script' = script
    BY <1>5 DEF StatementEnds, run
  <2>2. st \in DOMAIN script
    BY <1>0, <1>5 DEF StatementEnds, Placed
  <2> QED  BY <1>0, <1>s, <2>1, <2>2 DEF Within, Inside
<1>6. CASE PipelineSkipped
  <2>1. pc' = "pipeline" /\ pl' = pl + 1 /\ st' = st /\ script' = script /\ pl <= Len(script[st])
    BY <1>6 DEF PipelineSkipped, run
  <2>2. st \in DOMAIN script
    BY <1>0, <1>6 DEF PipelineSkipped, Placed
  <2>3. Len(script[st]) \in Nat
    BY <1>0, <2>2, ScriptTypes
  <2> QED  BY <1>0, <2>1, <2>3 DEF Within, Inside
<1>7. CASE PipelineBegins
  <2>1. pc' = "stage" /\ sg' = 1 /\ pl' = pl /\ st' = st /\ script' = script /\ pc = "pipeline"
    BY <1>7 DEF PipelineBegins, run
  <2>2. st \in DOMAIN script /\ pl \in DOMAIN script[st]
    BY <1>0, <1>7, InRange DEF PipelineBegins, Placed
  <2>3. Len(script[st][pl].commands) \in Nat
    BY <1>0, <2>2, AtHand
  <2> QED  BY <2>1, <2>3 DEF Within, Inside, Pipeline
<1>8. ASSUME NEW o, PipelineReturns(o),
             pc \in Inside \/ (pc = "pipeline" /\ pl <= Len(script[st]))
      PROVE  Within'
  <2>1. /\ st \in DOMAIN script /\ pl <= Len(script[st])
        /\ pc' = "pipeline" /\ pl' = pl + 1 /\ UNCHANGED <<script, st>>
    BY <1>8, Returning
  <2>2. Len(script[st]) \in Nat
    BY <1>0, <2>1, ScriptTypes
  <2> QED  BY <1>0, <2>1, <2>2 DEF Within, Inside
<1>9. CASE PipelineEnds \/ Fails
  BY <1>8, <1>9 DEF PipelineEnds, Fails, Inside
<1>10. CASE StageRuns \/ Succeeds \/ RedirectNull \/ Redirect \/ StageEnds
  <2>1. pc \in Inside /\ pc' \in Inside /\ UNCHANGED <<script, st, pl>>
    BY <1>10 DEF StageRuns, Succeeds, RedirectNull, Redirect, Redirecting, StageEnds, Inside,
                 run, position
  <2>2. /\ sg \in Nat /\ sg >= 1 /\ rd \in Nat /\ Len(Pipeline.commands) \in Nat
        /\ UNCHANGED Pipeline
        /\ sg <= Len(Pipeline.commands) => Len(OutputRedirs(Command)) \in Nat
    BY <2>1, Here DEF Pipeline
  <2>3. CASE StageRuns
    BY <2>2, <2>3 DEF StageRuns, position, Within, Inside
  <2>4. CASE Succeeds
    BY <1>0, <2>2, <2>4 DEF Succeeds, Within, Inside, Command
  <2>5. CASE RedirectNull \/ Redirect
    BY <1>0, <2>2, <2>5 DEF RedirectNull, Redirect, Redirecting, Within, Inside, Command
  <2>6. CASE StageEnds
    BY <1>0, <2>2, <2>6 DEF StageEnds, Within, Inside
  <2> QED  BY <1>10, <2>3, <2>4, <2>5, <2>6
<1> QED  BY <1>0, <1>1, <1>2, <1>3, <1>4, <1>5, <1>6, <1>7, <1>9, <1>10, StepKinds

\* What a stage leaves reaches the next.
LEMMA NextHanded == PipesInv /\ [Next]_vars => Handed'
<1> SUFFICES ASSUME PipesInv, [Next]_vars PROVE Handed'
  OBVIOUS
<1>0. TypeOK /\ Handed
  BY DEF PipesInv, ListInv
<1>1. CASE Still
  BY <1>0, <1>1 DEF Still, Handed, Pipeline, Command, Stage, RedirsOf
<1>2. CASE Leaves \/ Begin \/ Statement \/ StatementEnds \/ PipelineSkipped
           \/ PipelineEnds \/ Fails
  BY <1>2 DEF Leaves, Begin, Statement, StatementEnds, PipelineSkipped, PipelineEnds, Fails,
              PipelineReturns, Handed
<1>3. CASE PipelineBegins
  BY <1>3 DEF PipelineBegins, Handed
<1>4. CASE StageRuns
  <2>1. /\ pc = "stage" /\ pc' = "command" /\ input' = InputOf(Command)
        /\ UNCHANGED <<script, st, pl, sg, current, outputs>>
    BY <1>4 DEF StageRuns, run, position, ghosts
  <2>2. UNCHANGED <<Command, Pipeline>>
    BY <2>1 DEF Command, Pipeline
  <2> QED  BY <1>0, <2>1, <2>2 DEF Handed, InputOf, RedirsOf
<1>5. CASE Succeeds
  <2>1. /\ outputs' = Append(outputs, current') /\ current' \in Texts /\ current'.by = Stage
        /\ pc' = "output" /\ UNCHANGED <<script, st, pl, sg>>
    BY <1>5 DEF Succeeds, Prints
  <2>2. outputs' # << >> /\ Last(outputs') = current'
    BY <1>0, <2>1, Appended DEF TypeOK
  <2> QED  BY <2>1, <2>2 DEF Handed, Stage
<1>6. CASE RedirectNull \/ Redirect
  <2>1. pc = "output" /\ pc' = "output" /\ UNCHANGED <<script, st, pl, sg, current, outputs>>
    BY <1>6 DEF RedirectNull, Redirect, Redirecting, run, pipe, ghosts
  <2> QED  BY <1>0, <2>1 DEF Handed, Stage
<1>7. CASE StageEnds
  <2>1. /\ pc = "output" /\ pc' = "stage" /\ sg' = sg + 1 /\ current' = PassedOn
        /\ UNCHANGED <<script, st, pl, outputs>>
    BY <1>7 DEF StageEnds, run, ghosts
  <2>2. /\ sg \in Nat /\ sg <= Len(Pipeline.commands)
        /\ OutputRedirs(Command) = RedirsOf(st, pl, sg)
    BY <2>1, Here DEF PipesInv, Within, Inside
  <2>3. (sg + 1) - 1 = sg
    BY <2>2
  <2>4. Last(outputs) = current /\ outputs # << >> /\ current.by = <<st, pl, sg>>
    BY <1>0, <2>1 DEF Handed, Stage
  <2>5. (<<st, pl, sg - 1>>)' = <<st, pl, sg>> /\ RedirsOf(st, pl, sg - 1)' = RedirsOf(st, pl, sg)
    BY <2>1, <2>3 DEF RedirsOf
  <2>6. current' = IF RedirsOf(st, pl, sg) = << >> THEN Last(outputs) ELSE Empty
    BY <2>1, <2>2, <2>4 DEF PassedOn
  <2> QED  BY <2>1, <2>4, <2>5, <2>6 DEF Handed
<1> QED  BY <1>0, <1>1, <1>2, <1>3, <1>4, <1>5, <1>6, <1>7, StepKinds

-----------------------------------------------------------------------------
\* Advancing in the script leaves what was passed behind.
LEMMA StaysEarlier ==
    ASSUME PipesInv, [Next]_vars, pc' # "returned", NEW b \in Stages, Earlier(b)
    PROVE  Earlier(b)'
<1>0. /\ TypeOK /\ b[1] \in Nat /\ b[2] \in Nat /\ b[3] \in Nat
      /\ st \in Nat /\ pl \in Nat /\ sg \in Nat /\ Placed
  BY DEF PipesInv, ListInv, TypeOK, Stages
<1>1. CASE Still
  BY <1>1 DEF Still, Earlier
<1>2. CASE Begin \/ Statement \/ StatementEnds \/ PipelineSkipped \/ PipelineBegins
  BY <1>0, <1>2 DEF Begin, Statement, StatementEnds, PipelineSkipped, PipelineBegins,
                    Earlier, Inside, Placed
<1>3. CASE PipelineEnds \/ Fails
  BY <1>0, <1>3 DEF PipelineEnds, Fails, PipelineReturns, Earlier
<1>4. CASE StageRuns \/ Succeeds \/ RedirectNull \/ Redirect \/ StageEnds
  BY <1>0, <1>4 DEF StageRuns, Succeeds, RedirectNull, Redirect, Redirecting, StageEnds,
                    Earlier, Inside, position
<1> QED  BY <1>0, <1>1, <1>2, <1>3, <1>4, StepKinds DEF Leaves

\* The stage that the runner is at is passed when its pipeline or it ends.
LEMMA Passed ==
    ASSUME PipesInv, pc \in Inside, NEW b, b = Stage
    PROVE  /\ b \in Stages /\ ~Earlier(b)
           /\ PipelineEnds \/ Fails \/ StageEnds => Earlier(b)'
<1>0. st \in Nat /\ pl \in Nat /\ sg \in Nat
  BY DEF PipesInv, ListInv, TypeOK
<1>1. b \in Stages /\ ~Earlier(b) /\ b[1] = st /\ b[2] = pl /\ b[3] = sg
  BY <1>0 DEF Stage, Stages, Earlier
<1>2. CASE PipelineEnds \/ Fails
  <2>1. st' = st /\ pl' = pl + 1
    BY <1>2 DEF PipelineEnds, Fails, PipelineReturns
  <2> QED  BY <1>0, <1>1, <2>1 DEF Earlier
<1>3. CASE StageEnds
  BY <1>0, <1>1, <1>3 DEF StageEnds, Earlier, Inside
<1> QED  BY <1>1, <1>2, <1>3

\* Stages print and write in the order of the script, and nothing is written
\* for a stage whose output is over the limit.
LEMMA NextInOrder == PipesInv /\ [Next]_vars => InOrder' /\ Checked' /\ LimitedAtomic'
<1> SUFFICES ASSUME PipesInv, [Next]_vars PROVE InOrder' /\ Checked' /\ LimitedAtomic'
  OBVIOUS
<1>0. /\ TypeOK /\ InOrder /\ Checked /\ LimitedAtomic /\ Handed
      /\ outputs \in Seq(Texts) /\ \A p \in Paths : files[p] \in Seq(Texts)
  BY DEF PipesInv, ListInv, TypeOK
<1>1. CASE Still
  BY <1>0, <1>1
  DEF Still, InOrder, Checked, LimitedAtomic, Earlier, Pipeline, Command, Stage, TooLong,
      PayloadRefused
<1>2. CASE Leaves
  BY <1>0, <1>2 DEF Leaves, InOrder, Checked, LimitedAtomic, TooLong
<1>3. CASE Begin \/ Statement \/ StatementEnds \/ PipelineSkipped \/ PipelineBegins \/ StageRuns
  <2>1. /\ pc' \notin {"returned", "output"} /\ pc \notin {"returned", "output"}
        /\ UNCHANGED <<script, policy, files, outputs>>
    BY <1>3 DEF Begin, Statement, StatementEnds, PipelineSkipped, PipelineBegins, StageRuns,
                run, ghosts
  <2>2. InOrder'
    BY <1>0, <2>1, StaysEarlier DEF InOrder
  <2> QED  BY <1>0, <2>1, <2>2 DEF Checked, LimitedAtomic, TooLong
<1>4. ASSUME pc \in Inside, PipelineEnds \/ Fails \/ StageEnds,
             UNCHANGED <<script, policy, files, outputs>>, pc' \notin {"returned", "output"}
      PROVE  InOrder' /\ Checked' /\ LimitedAtomic'
  <2>1. \A b \in Stages : Earlier(b) \/ b = Stage => Earlier(b)'
    BY <1>4, Passed, StaysEarlier
  <2>2. ASSUME NEW t \in Range(outputs) PROVE t.by \in Stages /\ Earlier(t.by)'
    <3>1. t.by \in Stages /\ (Earlier(t.by) \/ (pc = "output" /\ t = current))
      BY <1>0, <1>4 DEF InOrder, Inside
    <3>2. pc = "output" => current.by = Stage
      BY <1>0 DEF Handed
    <3> QED  BY <2>1, <3>1, <3>2
  <2>3. ASSUME NEW p \in Paths, NEW u \in Range(files[p]) PROVE u.by \in Stages /\ Earlier(u.by)'
    <3>1. u.by \in Stages /\ (Earlier(u.by) \/ u.by = Stage)
      BY <1>0, <1>4 DEF InOrder, Inside
    <3> QED  BY <2>1, <3>1
  <2>4. InOrder'
    BY <1>4, <2>2, <2>3 DEF InOrder
  <2> QED  BY <1>0, <1>4, <2>4 DEF Checked, LimitedAtomic, TooLong
<1>5. CASE PipelineEnds \/ StageEnds
  BY <1>4, <1>5 DEF PipelineEnds, StageEnds, PipelineReturns, Inside, run, ghosts
<1>6. CASE Fails /\ outputs' = outputs
  <2>1. UNCHANGED <<script, policy, files, outputs>> /\ pc' = "pipeline"
    BY <1>6 DEF Fails, PipelineReturns, run
  <2>2. CASE pc \in Inside
    BY <1>4, <1>6, <2>1, <2>2
  <2>3. CASE pc = "pipeline"
    <3>1. InOrder'
      BY <1>0, <2>1, <2>3, StaysEarlier DEF InOrder
    <3> QED  BY <1>0, <2>1, <3>1 DEF Checked, LimitedAtomic, TooLong
  <2> QED  BY <1>6, <2>2, <2>3 DEF Fails
<1>7. ASSUME pc = "command", NEW t \in Texts, Prints(t), pc' # "returned",
             UNCHANGED <<script, policy, files>>
      PROVE  LimitedAtomic' /\ Range(outputs') = Range(outputs) \cup {t}
  <2>1. Range(outputs') = Range(outputs) \cup {t} /\ t.by = Stage
    BY <1>0, <1>7, Appended DEF Prints
  <2>2. \A p \in Paths : \A u \in Range(files[p]) : u.by # Stage
    BY <1>0, <1>7, Passed DEF InOrder, Inside
  <2> QED  BY <1>0, <1>7, <2>1, <2>2 DEF LimitedAtomic, TooLong
<1>8. CASE Fails /\ outputs' # outputs
  <2>1. PICK t \in Texts : pc = "command" /\ Prints(t)
    BY <1>8 DEF Fails
  <2>2. UNCHANGED <<script, policy, files>> /\ pc' = "pipeline"
    BY <1>8 DEF Fails, PipelineReturns, run
  <2>3. LimitedAtomic' /\ Range(outputs') = Range(outputs) \cup {t} /\ t.by = Stage
    BY <1>7, <2>1, <2>2 DEF Prints
  <2>4. \A b \in Stages : Earlier(b) \/ b = Stage => Earlier(b)'
    BY <1>8, <2>1, <2>2, Passed, StaysEarlier DEF Inside
  <2>5. Stage \in Stages
    BY <2>1, Passed DEF Inside
  <2>6. InOrder'
    BY <1>0, <2>1, <2>2, <2>3, <2>4, <2>5 DEF InOrder
  <2> QED  BY <2>2, <2>3, <2>6 DEF Checked
<1>9. CASE Succeeds
  <2>1. /\ pc = "command" /\ Prints(current') /\ pc' = "output" /\ ~PayloadRefused(current')
        /\ UNCHANGED <<script, policy, files, st, pl, sg>> /\ current' \in Texts
    BY <1>9 DEF Succeeds, Prints
  <2>2. /\ LimitedAtomic' /\ Range(outputs') = Range(outputs) \cup {current'}
        /\ current'.by = Stage
    BY <1>7, <2>1 DEF Prints
  <2>3. Stage \in Stages /\ Stage' = Stage
    BY <2>1, Passed DEF Inside, Stage
  <2>4. InOrder'
    BY <1>0, <2>1, <2>2, <2>3, StaysEarlier DEF InOrder
  <2>5. Checked'
    BY <2>1 DEF Checked, PayloadRefused, TooLong, Command, Pipeline
  <2> QED  BY <2>2, <2>4, <2>5
<1>10. CASE RedirectNull
  <2>1. /\ pc = "output" /\ pc' = "output"
        /\ UNCHANGED <<script, policy, files, outputs, st, pl, sg, current>>
    BY <1>10 DEF RedirectNull, Redirecting, run, pipe, ghosts
  <2> QED  BY <1>0, <2>1
  DEF InOrder, Checked, LimitedAtomic, Earlier, Pipeline, Command, Stage, TooLong,
      PayloadRefused
<1>11. CASE Redirect
  <2>1. /\ pc = "output" /\ pc' = "output"
        /\ UNCHANGED <<script, policy, outputs, st, pl, sg, current>>
    BY <1>11 DEF Redirect, Redirecting, run, pipe, ghosts
  <2>2. /\ UNCHANGED <<Stage, Command>> /\ Stage \in Stages /\ ~Earlier(Stage)
        /\ \A b : Earlier(b)' <=> Earlier(b)
    BY <2>1, Passed DEF Inside, Stage, Command, Pipeline, Earlier
  <2>3. Payload.by = Stage
    BY <1>0, <2>1 DEF Payload, Handed, Empty
  <2>4. Payload \in Texts
    BY <1>0, <2>2 DEF Payload, TypeOK, Empty, Texts
  <2>5. ASSUME NEW p \in Paths, NEW u \in Range(files'[p])
        PROVE  u \in Range(files[p]) \/ u = Payload
    <3>1. files'[p] \in {files[p], <<Payload>>, Append(files[p], Payload)}
      BY <1>0, <1>11 DEF Redirect, TypeOK
    <3>2. Range(<<Payload>>) = {Payload}
      BY Single
    <3>3. Range(Append(files[p], Payload)) = Range(files[p]) \cup {Payload}
      BY <1>0, <2>4, Appended
    <3>4. CASE files'[p] = files[p]
      BY <2>5, <3>4
    <3>5. CASE files'[p] = <<Payload>>
      <4>1. Range(files'[p]) = {Payload}
        BY <3>2, <3>5
      <4> QED  BY <2>5, <4>1
    <3>6. CASE files'[p] = Append(files[p], Payload)
      <4>1. Range(files'[p]) = Range(files[p]) \cup {Payload}
        BY <3>3, <3>6
      <4> QED  BY <2>5, <4>1
    <3> QED  BY <3>1, <3>4, <3>5, <3>6
  <2>6. InOrder'
    BY <1>0, <2>1, <2>2, <2>3, <2>5 DEF InOrder
  <2>7. ASSUME NEW t \in Range(outputs), t.by = Stage
        PROVE  LET redirs == OutputRedirs(script[t.by[1]][t.by[2]].commands[t.by[3]])
               IN  ~(redirs # << >> /\ Last(redirs).target # Null /\ TooLong(t))
    <3>1. t = current
      BY <1>0, <2>1, <2>2, <2>7 DEF InOrder
    <3>2. Command = script[t.by[1]][t.by[2]].commands[t.by[3]]
      BY <2>7 DEF Stage, Command, Pipeline
    <3> QED  BY <1>0, <2>1, <3>1, <3>2 DEF Checked, PayloadRefused
  <2>8. LimitedAtomic'
    BY <1>0, <2>1, <2>3, <2>5, <2>7 DEF LimitedAtomic, TooLong
  <2> QED  BY <1>0, <2>1, <2>2, <2>6, <2>8 DEF Checked, PayloadRefused, TooLong
<1> QED  BY <1>0, <1>1, <1>2, <1>3, <1>5, <1>6, <1>8, <1>9, <1>10, <1>11, StepKinds

-----------------------------------------------------------------------------
\* A pipeline stays complete while nothing that it rests on changes.
LEMMA StaysComplete ==
    ASSUME UNCHANGED <<script, dir, files, outputs>>, NEW s, NEW p, NEW o,
           codes'[<<s, p>>] = codes[<<s, p>>], Complete(s, p, o)
    PROVE  Complete(s, p, o)'
  BY DEF Complete, Filled, Left, RedirsOf, Printers

\* And so does a result, while no pipeline runs.
LEMMA StaysSettled ==
    ASSUME UNCHANGED <<script, dir, files, outputs, codes>>, NEW s, NEW n, NEW o, Settled(s, n, o)
    PROVE  Settled(s, n, o)'
<1>1. RanBefore(s, n)' = RanBefore(s, n)
  BY DEF RanBefore
<1>2. \A q : Complete(s, q, o) => Complete(s, q, o)'
  BY StaysComplete
<1> QED  BY <1>1, <1>2 DEF Settled

\* A pipeline that was passed over has not run, so the result stays that of the
\* one before.
LEMMA SkippedSettled ==
    ASSUME PipesInv, pc = "pipeline", pl > 1, Settled(st, pl, status)
    PROVE  Settled(st, pl + 1, status)
<1>0. st \in Nat /\ pl \in Nat
  BY DEF PipesInv, ListInv, TypeOK
<1>1. <<st, pl>> \notin DOMAIN codes
  <2>1. ASSUME <<st, pl>> \in DOMAIN codes PROVE FALSE
    <3>1. Past(<<st, pl>>[1], <<st, pl>>[2])
      BY <2>1 DEF PipesInv, ListInv
    <3> QED  BY <1>0, <3>1 DEF Past
  <2> QED  BY <2>1
<1>2. RanBefore(st, pl + 1) = RanBefore(st, pl)
  <2>1. (pl + 1) - 1 = pl /\ 1 .. pl = (1 .. pl - 1) \cup {pl}
    BY <1>0
  <2> QED  BY <1>1, <2>1 DEF RanBefore
<1> QED  BY <1>2 DEF Settled

\* The last pipeline of a statement that ran is complete, if it succeeded.
LEMMA EndSettled ==
    ASSUME PipesInv, pc = "pipeline", pl > Len(script[st])
    PROVE  Settled(st, Len(script[st]) + 1, status) /\ st \in DOMAIN script
<1>0. st \in Nat /\ pl \in Nat /\ st \in DOMAIN script /\ pl <= Len(script[st]) + 1
  BY DEF PipesInv, ListInv, TypeOK, Placed, Within
<1>1. Len(script[st]) \in Nat /\ Len(script[st]) # 0
  BY <1>0, ScriptTypes DEF PipesInv, ListInv
<1>2. pl = Len(script[st]) + 1 /\ pl > 1
  BY <1>0, <1>1
<1> QED  BY <1>0, <1>2 DEF PipesInv, Done

\* A pipeline that has run to its end is complete.
LEMMA EndsComplete ==
    ASSUME PipesInv, PipelineEnds
    PROVE  Settled(st, pl, status)'
<1>1. /\ pc = "stage" /\ sg > Len(Pipeline.commands)
      /\ PipelineReturns(Output(current, stderr, 0))
      /\ UNCHANGED <<dir, files, outputs>>
  BY DEF PipelineEnds
<1>2. /\ st \in DOMAIN script /\ pl \in DOMAIN script[st] /\ st \in Nat /\ pl \in Nat /\ pl >= 1
      /\ pl' = pl + 1 /\ status' = Output(current, stderr, 0)
      /\ UNCHANGED <<script, st>>
      /\ DOMAIN codes' = DOMAIN codes \cup {<<st, pl>>}
      /\ codes'[<<st, pl>>] = Output(current, stderr, 0).code
  BY <1>1, Returning DEF Inside
<1>3. PICK s, p, g, redirs, o :
          /\ s = st /\ p = pl /\ g = Len(Pipeline.commands) /\ redirs = RedirsOf(s, p, g)
          /\ o = Output(current, stderr, 0)
  OBVIOUS
<1>4. /\ g \in Nat /\ g >= 1 /\ sg = g + 1 /\ g = Len(script[s][p].commands)
  BY <1>1, <1>3, Here DEF PipesInv, Within, Inside, Pipeline
<1>5. /\ outputs # << >> /\ Last(outputs).by = <<s, p, g>>
      /\ current = IF redirs = << >> THEN Last(outputs) ELSE Empty
      /\ Printers(s, p, g)
      /\ Filled(s, p, g)
  <2>1. sg - 1 = g /\ sg > 1
    BY <1>4
  <2> QED  BY <1>1, <1>3, <2>1 DEF PipesInv, Handed, Done, Inside
<1>6. Last(outputs) \in Range(outputs)
  <2>1. outputs \in Seq(Texts)
    BY DEF PipesInv, ListInv, TypeOK
  <2>2. Len(outputs) \in DOMAIN outputs
    BY <1>5, <2>1, LenProperties, EmptySeq
  <2> QED  BY <2>2 DEF Last, Range
<1>7. Complete(s, p, o)'
  <2>1. o.stdout = current /\ codes'[<<s, p>>] = 0
    BY <1>2, <1>3 DEF Output
  <2>2. RedirsOf(s, p, g)' = redirs /\ Printers(s, p, g)'
    BY <1>1, <1>2, <1>3, <1>5 DEF RedirsOf, Printers
  <2>3. Filled(s, p, g)'
    BY <1>1, <1>2, <1>5 DEF Filled, Left, RedirsOf
  <2>4. Len(script'[s][p].commands) = g
    BY <1>2, <1>4
  <2>5. IF redirs = << >> THEN o.stdout \in Range(outputs') /\ o.stdout.by = <<s, p, g>>
        ELSE Filled(s, p, g)'
    BY <1>1, <1>5, <1>6, <2>1, <2>3
  <2> QED  BY <2>1, <2>2, <2>4, <2>5 DEF Complete
<1>8. p \in RanBefore(s, p + 1)' /\ \A r \in RanBefore(s, p + 1)' : r <= p
  <2>1. p + 1 - 1 = p /\ p \in 1 .. p /\ \A r \in 1 .. p : r <= p
    BY <1>2, <1>3
  <2> QED  BY <1>2, <1>3, <2>1 DEF RanBefore
<1>9. Settled(s, p + 1, o)'
  BY <1>7, <1>8 DEF Settled
<1>10. st' = s /\ pl' = p + 1 /\ status' = o
  BY <1>2, <1>3
<1> QED  BY <1>9, <1>10 DEF Settled, Complete

\* One more target is written, and what the earlier ones hold stays.
LEMMA TargetWritten ==
    ASSUME PipesInv, RedirectNull \/ Redirect,
           NEW i \in 1 .. rd, NEW redirs, redirs = OutputRedirs(Command), NEW b, b = Stage,
           NEW n, n = rd
    PROVE  Left(b, redirs, i, n)'
<1>0. /\ TypeOK /\ pc = "output" /\ n \in Nat /\ i \in Nat /\ i >= 1 /\ n >= 1 /\ n <= Len(redirs)
      /\ Len(redirs) \in Nat
      /\ UNCHANGED <<dir, outputs>>
  BY Here DEF PipesInv, ListInv, Within, RedirectNull, Redirect, Redirecting, Inside, ghosts
<1>1. i < n => Left(b, redirs, i, n - 1)
  BY <1>0 DEF PipesInv, Done
<1>2. i < n => i # Len(redirs) /\ n \in i + 1 .. n
               /\ \A j : j \in i + 1 .. n - 1 => j \in i + 1 .. n
  BY <1>0
<1>3. CASE RedirectNull
  <2>1. redirs[n].target = Null /\ files' = files
    BY <1>3 DEF RedirectNull, Redir
  <2>2. CASE i < n
    BY <1>0, <1>1, <1>2, <2>1, <2>2 DEF Left
  <2>3. CASE i = n
    BY <2>1, <2>3 DEF Left
  <2> QED  BY <1>0, <2>2, <2>3
<1>4. CASE Redirect
  <2>1. PICK path \in Paths :
           /\ path = At[dir][redirs[n].target] /\ redirs[n].target # Null
           /\ files' = [files EXCEPT ![path] =
                  IF redirs[n].kind = "append" THEN Append(files[path], Payload) ELSE <<Payload>>]
    <3>1. At[dir][redirs[n].target] \in Paths
      BY <1>4, ScriptAssumption DEF Redirect, Supported, Redir
    <3> QED  BY <1>4, <3>1 DEF Redirect, Redir
  <2>2. files \in [Paths -> Seq(Texts)]
    BY <1>0 DEF TypeOK
  <2>3. CASE i < n
    <3>1. \A p \in Paths : p # path => files'[p] = files[p]
      BY <2>1, <2>2
    <3>2. ASSUME redirs[i].kind = "write", redirs[i].target # Null,
                 \A j \in i + 1 .. n : redirs[j].target # Null =>
                     At[dir][redirs[j].target] # At[dir][redirs[i].target]
          PROVE  files'[At[dir][redirs[i].target]] = <<[Empty EXCEPT !.by = b]>>
      <4>1. At[dir][redirs[i].target] # path
        BY <1>2, <2>1, <2>3, <3>2
      <4>2. files[At[dir][redirs[i].target]] = <<[Empty EXCEPT !.by = b]>>
        BY <1>1, <1>2, <2>3, <3>2 DEF Left
      <4> QED  BY <2>1, <4>1, <4>2
    <3> QED  BY <1>0, <1>2, <2>3, <3>2 DEF Left
  <2>4. CASE i = n /\ n = Len(redirs)
    <3>1. /\ Payload = current /\ current.by = b /\ current = Last(outputs) /\ outputs # << >>
      BY <1>0, <2>4 DEF PipesInv, Handed, Payload
    <3>2. current \in Range(outputs) /\ current \in Texts
      <4>1. outputs \in Seq(Texts) /\ current \in Texts
        BY <1>0 DEF TypeOK
      <4>2. Len(outputs) \in DOMAIN outputs
        BY <3>1, <4>1, LenProperties, EmptySeq
      <4> QED  BY <3>1, <4>1, <4>2 DEF Last, Range
    <3>3. Last(files'[path]) = current
      <4>1. CASE redirs[n].kind = "append"
        BY <2>1, <2>2, <3>1, <3>2, <4>1, Appended
      <4>2. CASE redirs[n].kind # "append"
        BY <2>1, <2>2, <3>1, <4>2, Single
      <4> QED  BY <4>1, <4>2
    <3> QED  BY <1>0, <2>1, <2>4, <3>1, <3>2, <3>3 DEF Left
  <2>5. CASE i = n /\ n # Len(redirs)
    <3>1. Payload = [Empty EXCEPT !.by = b]
      BY <2>5 DEF Payload
    <3>2. redirs[n].kind = "write" => files'[path] = <<Payload>>
      BY <2>1, <2>2
    <3> QED  BY <1>0, <2>1, <2>5, <3>1, <3>2 DEF Left
  <2> QED  BY <1>0, <2>3, <2>4, <2>5
<1> QED  BY <1>3, <1>4

\* Success comes from pipelines that are complete.
LEMMA NextDone == PipesInv /\ [Next]_vars => Done'
<1> SUFFICES ASSUME PipesInv, [Next]_vars PROVE Done'
  OBVIOUS
<1>0. /\ TypeOK /\ Placed /\ Within /\ Done /\ outputs \in Seq(Texts)
      /\ st \in Nat /\ pl \in Nat /\ sg \in Nat /\ rd \in Nat
  BY DEF PipesInv, ListInv, TypeOK
<1>1. CASE Still
  <2>1. /\ UNCHANGED <<pc, st, pl, sg, rd, script, dir, files, codes, outputs>>
        /\ UNCHANGED <<status, last, result>>
    BY <1>1 DEF Still
  <2>3. (pc \in Inside => Printers(st, pl, sg - 1))'
    BY <1>0, <2>1 DEF Done, Printers
  <2>4. (pc = "output" =>
            \A i \in 1 .. rd - 1 : Left(Stage, OutputRedirs(Command), i, rd - 1))'
    BY <1>0, <2>1 DEF Done, Left, Stage, Command, Pipeline
  <2>5. (pc = "stage" /\ sg > 1 => Filled(st, pl, sg - 1))'
    <3>1. PICK s, p, g : s = st /\ p = pl /\ g = sg - 1
      OBVIOUS
    <3>2. Filled(s, p, g) => Filled(s, p, g)'
      BY <2>1 DEF Filled, Left, RedirsOf
    <3>3. st' = s /\ pl' = p /\ (sg - 1)' = g
      BY <2>1, <3>1
    <3>4. Filled(s, p, g)' => Filled(st, pl, sg - 1)'
      BY <3>3 DEF Filled, RedirsOf
    <3> QED  BY <1>0, <2>1, <3>1, <3>2, <3>4 DEF Done
  <2>7. (pc = "pipeline" /\ pl > 1 => Settled(st, pl, status))'
    <3>1. PICK s, n, o : s = st /\ n = pl /\ o = status
      OBVIOUS
    <3>2. Settled(s, n, o) => Settled(s, n, o)'
      BY <2>1, StaysSettled
    <3>3. st' = s /\ pl' = n /\ status' = o
      BY <2>1, <3>1
    <3>4. Settled(s, n, o)' => Settled(st, pl, status)'
      BY <3>3 DEF Settled, Complete
    <3> QED  BY <1>0, <2>1, <3>1, <3>2, <3>4 DEF Done
  <2>8. (pc = "statement" /\ st > 1 => Settled(st - 1, Len(script[st - 1]) + 1, last))'
    <3>1. PICK s, n, o : s = st - 1 /\ n = Len(script[st - 1]) + 1 /\ o = last
      OBVIOUS
    <3>2. Settled(s, n, o) => Settled(s, n, o)'
      BY <2>1, StaysSettled
    <3>3. (st - 1)' = s /\ (Len(script[st - 1]) + 1)' = n /\ last' = o
      BY <2>1, <3>1
    <3>4. Settled(s, n, o)' => Settled(st - 1, Len(script[st - 1]) + 1, last)'
      BY <3>3 DEF Settled, Complete
    <3> QED  BY <1>0, <2>1, <3>1, <3>2, <3>4 DEF Done
  <2>9. (pc = "returned" /\ result.code = 0 /\ script # << >> =>
            Settled(Len(script), Len(script[Len(script)]) + 1, result))'
    <3>1. PICK s, n, o : s = Len(script) /\ n = Len(script[Len(script)]) + 1 /\ o = result
      OBVIOUS
    <3>2. Settled(s, n, o) => Settled(s, n, o)'
      BY <2>1, StaysSettled
    <3>3. (Len(script))' = s /\ (Len(script[Len(script)]) + 1)' = n /\ result' = o
      BY <2>1, <3>1
    <3>4. Settled(s, n, o)' => Settled(Len(script), Len(script[Len(script)]) + 1, result)'
      BY <3>3 DEF Settled, Complete
    <3> QED  BY <1>0, <2>1, <3>1, <3>2, <3>4 DEF Done
  <2>10. (pc = "returned" /\ result.code = 0 /\ script # << >> => st = Len(script) + 1)'
    BY <1>0, <2>1 DEF Done
  <2> QED  BY <2>3, <2>4, <2>5, <2>7, <2>8, <2>9, <2>10 DEF Done
<1>2. CASE Leaves
  <2>1. /\ pc' = "returned"
        /\ UNCHANGED <<script, dir, files, st, codes, outputs>>
    BY <1>2 DEF Leaves
  <2>2. ASSUME result'.code = 0, script # << >>
        PROVE  st = Len(script) + 1
               /\ Settled(Len(script), Len(script[Len(script)]) + 1, result)'
    <3>1. pc = "statement" /\ st > Len(script) /\ result' = last
      BY <1>2, <2>2 DEF Leaves
    <3>2. Len(script) \in Nat /\ Len(script) # 0
      <4>1. script \in Seq(Seq(Pipelines) \ {<< >>})
        BY <1>0, ScriptAssumption DEF TypeOK
      <4> QED  BY <2>2, <4>1, LenProperties, EmptySeq
    <3>3. st = Len(script) + 1 /\ st > 1 /\ st - 1 = Len(script)
      BY <1>0, <3>1, <3>2 DEF Within
    <3>4. PICK s, n, o : s = Len(script) /\ n = Len(script[Len(script)]) + 1 /\ o = last
      OBVIOUS
    <3>5. Settled(s, n, o)
      BY <1>0, <3>1, <3>3, <3>4 DEF Done
    <3>6. Settled(s, n, o)'
      BY <2>1, <3>5, StaysSettled
    <3>7. (Len(script))' = s /\ (Len(script[Len(script)]) + 1)' = n /\ result' = o
      BY <2>1, <3>1, <3>4
    <3> QED  BY <3>3, <3>6, <3>7 DEF Settled, Complete
  <2> QED  BY <2>1, <2>2 DEF Done, Inside
<1>3. CASE Begin
  BY <1>3 DEF Begin, Done, Inside
<1>4. CASE Statement
  BY <1>4 DEF Statement, Done, Inside
<1>5. CASE StatementEnds
  <2>1. /\ pc' = "statement" /\ st' = st + 1 /\ last' = status
        /\ UNCHANGED <<script, dir, files, codes, outputs>>
    BY <1>5 DEF StatementEnds, run, ghosts
  <2>2. PICK s, n, o : s = st /\ n = Len(script[st]) + 1 /\ o = status
    OBVIOUS
  <2>3. Settled(s, n, o)
    BY <1>5, <2>2, EndSettled DEF StatementEnds
  <2>4. Settled(s, n, o)'
    BY <2>1, <2>3, StaysSettled
  <2>5. (st - 1)' = s /\ (Len(script[st - 1]) + 1)' = n /\ last' = o
    BY <1>0, <2>1, <2>2
  <2>6. Settled(st - 1, Len(script[st - 1]) + 1, last)'
    BY <2>4, <2>5 DEF Settled, Complete
  <2> QED  BY <2>1, <2>6 DEF Done, Inside
<1>6. CASE PipelineSkipped
  <2>1. /\ pc' = "pipeline" /\ pl' = pl + 1 /\ pc = "pipeline"
        /\ UNCHANGED <<script, dir, files, codes, outputs, st, status>>
    BY <1>6 DEF PipelineSkipped, run, ghosts
  <2>2. st \in DOMAIN script /\ pl \in DOMAIN script[st] /\ pl >= 1
    BY <1>0, <1>6, InRange DEF PipelineSkipped, Placed
  <2>3. pl # 1
    BY <1>6, <2>2, AskedWhenRun DEF PipelineSkipped, PipesInv, Asked
  <2>4. PICK s, n, o : s = st /\ n = pl + 1 /\ o = status
    OBVIOUS
  <2>5. Settled(s, n, o)
    BY <1>0, <2>1, <2>2, <2>3, <2>4, SkippedSettled DEF Done
  <2>6. Settled(s, n, o)'
    BY <2>1, <2>5, StaysSettled
  <2>7. Settled(st, pl, status)'
    BY <2>1, <2>4, <2>6 DEF Settled, Complete
  <2> QED  BY <2>1, <2>7 DEF Done, Inside
<1>7. CASE PipelineBegins
  BY <1>0, <1>7 DEF PipelineBegins, Done, Inside, Printers
<1>8. CASE PipelineEnds
  <2>1. pc' = "pipeline"
    BY <1>8 DEF PipelineEnds, PipelineReturns
  <2> QED  BY <1>8, <2>1, EndsComplete DEF Done, Inside
<1>9. CASE Fails
  <2>1. pc' = "pipeline" /\ status'.code # 0
    BY <1>9 DEF Fails, PipelineReturns
  <2> QED  BY <2>1 DEF Done, Inside, Settled
<1>10. CASE StageRuns
  <2>1. pc = "stage" /\ pc' = "command" /\ UNCHANGED <<script, st, pl, sg, outputs>>
    BY <1>10 DEF StageRuns, run, position, ghosts
  <2> QED  BY <1>0, <2>1 DEF Done, Inside, Printers
<1>11. CASE Succeeds
  <2>1. /\ pc = "command" /\ pc' = "output" /\ rd' = 1 /\ Prints(current')
        /\ UNCHANGED <<script, st, pl, sg>> /\ current' \in Texts
    BY <1>11 DEF Succeeds, Prints
  <2>2. Range(outputs') = Range(outputs) \cup {current'}
    BY <1>0, <2>1, Appended DEF Prints
  <2>3. Printers(st, pl, sg - 1)'
    BY <1>0, <2>1, <2>2 DEF Done, Inside, Printers
  <2> QED  BY <2>1, <2>3 DEF Done, Inside
<1>12. CASE RedirectNull \/ Redirect
  <2>1. /\ pc = "output" /\ pc' = "output" /\ rd' = rd + 1
        /\ UNCHANGED <<script, st, pl, sg, outputs>>
    BY <1>12 DEF RedirectNull, Redirect, Redirecting, run, ghosts
  <2>2. PICK redirs, b, n : redirs = OutputRedirs(Command) /\ b = Stage /\ n = rd
    OBVIOUS
  <2>3. \A i \in 1 .. n : Left(b, redirs, i, n)'
    BY <1>12, <2>2, TargetWritten
  <2>4. OutputRedirs(Command)' = redirs /\ Stage' = b /\ (rd - 1)' = n
    BY <1>0, <2>1, <2>2 DEF Command, Pipeline, Stage
  <2>5. (\A i \in 1 .. rd - 1 : Left(Stage, OutputRedirs(Command), i, rd - 1))'
    BY <2>3, <2>4 DEF Left
  <2>6. Printers(st, pl, sg - 1)'
    BY <1>0, <2>1 DEF Done, Inside, Printers
  <2> QED  BY <2>1, <2>5, <2>6 DEF Done
<1>13. CASE StageEnds
  <2>1. /\ pc = "output" /\ pc' = "stage" /\ sg' = sg + 1 /\ rd > Len(OutputRedirs(Command))
        /\ UNCHANGED <<script, dir, files, st, pl, outputs>>
    BY <1>13 DEF StageEnds, run, ghosts
  <2>2. /\ rd <= Len(OutputRedirs(Command)) + 1 /\ Len(OutputRedirs(Command)) \in Nat
        /\ OutputRedirs(Command) = RedirsOf(st, pl, sg)
    BY <1>0, <2>1, Here DEF Within, Inside
  <2>3. PICK s, p, g, redirs : s = st /\ p = pl /\ g = sg /\ redirs = RedirsOf(st, pl, sg)
    OBVIOUS
  <2>4. rd - 1 = Len(redirs)
    BY <1>0, <2>1, <2>2, <2>3
  <2>5. \A i \in 1 .. Len(redirs) : Left(<<s, p, g>>, redirs, i, Len(redirs))
    BY <1>0, <2>1, <2>2, <2>3, <2>4 DEF Done, Stage
  <2>6. \A i \in 1 .. Len(redirs) : Left(<<s, p, g>>, redirs, i, Len(redirs))'
    BY <2>1, <2>5 DEF Left
  <2>7. st' = s /\ pl' = p /\ (sg - 1)' = g /\ RedirsOf(st, pl, sg - 1)' = redirs
    BY <1>0, <2>1, <2>3 DEF RedirsOf
  <2>8. Printers(st, pl, sg - 1)'
    <3>1. Last(outputs) \in Range(outputs) /\ Last(outputs).by = <<s, p, g>>
      <4>1. outputs # << >> /\ Last(outputs).by = Stage
        BY <2>1 DEF PipesInv, Handed
      <4>2. Len(outputs) \in DOMAIN outputs
        BY <1>0, <4>1, LenProperties, EmptySeq
      <4> QED  BY <2>3, <4>1, <4>2 DEF Last, Range, Stage
    <3>2. \A h \in 1 .. g - 1 : \E t \in Range(outputs) : t.by = <<s, p, h>>
      BY <1>0, <2>1, <2>3 DEF Done, Inside, Printers
    <3>3. \A h \in 1 .. g : h \in 1 .. g - 1 \/ h = g
      BY <1>0, <2>3
    <3> QED  BY <2>1, <2>7, <3>1, <3>2, <3>3 DEF Printers
  <2>9. Filled(st, pl, sg - 1)'
    BY <2>6, <2>7 DEF Filled
  <2> QED  BY <2>1, <2>8, <2>9 DEF Done, Inside
<1> QED  BY <1>0, <1>1, <1>2, <1>3, <1>4, <1>5, <1>6, <1>7, <1>8, <1>9, <1>10, <1>11, <1>12, <1>13, StepKinds

\* The inductive invariant.
LEMMA NextPipes == PipesInv /\ [Next]_vars => PipesInv'
  BY NextList, NextWithin, NextHanded, NextInOrder, NextDone DEF PipesInv

\* Nothing has been printed at the start.
LEMMA InitPipes == Init => PipesInv
<1> SUFFICES ASSUME Init PROVE PipesInv
  OBVIOUS
<1>1. /\ ListInv /\ pc = "script" /\ outputs = << >>
      /\ \A p \in Paths : files[p] = << >>
  BY InitList DEF Init
<1>2. Range(<< >>) = {}
  BY DEF Range
<1> QED  BY <1>1, <1>2
  DEF PipesInv, Within, Handed, InOrder, Checked, LimitedAtomic, Done, Inside

\* PipesInv holds throughout.
LEMMA AlwaysPipes == Spec => []PipesInv
  BY InitPipes, NextPipes, PTL DEF Spec

\* script_runner.go:84: a stage reads what the stage before it in its pipeline
\* printed, all of it, or nothing if that was redirected.
THEOREM PipesHold == Spec => []PipesFaithful
<1>1. PipesInv => PipesFaithful
  <2> SUFFICES ASSUME PipesInv, pc = "command", InputRedirs(Command) = << >>
               PROVE  IF sg = 1 THEN input = NoInput
                      ELSE /\ outputs # << >> /\ Last(outputs).by = <<st, pl, sg - 1>>
                           /\ input = IF OutputRedirs(Pipeline.commands[sg - 1]) = << >>
                                      THEN Last(outputs) ELSE Empty
    BY DEF PipesFaithful
  <2>1. sg \in Nat /\ sg >= 1
    BY Here DEF Inside
  <2> QED  BY <2>1 DEF PipesInv, Handed, RedirsOf, Pipeline
<1> QED  BY <1>1, AlwaysPipes, PTL

\* docs/notes-kernel-execution-backlog.md, "does not leave partial filesystem side
\* effects": output that is over the write limit touches none of its targets.
THEOREM LimitsAtomic == Spec => []LimitedAtomic
<1>1. PipesInv => LimitedAtomic
  BY DEF PipesInv
<1> QED  BY <1>1, AlwaysPipes, PTL

\* script_runner.go:27: a script that returns 0 has run to its end, and what its
\* last pipeline printed is the result, or in the files it names.
THEOREM SuccessesComplete == Spec => []SuccessIsComplete
<1>1. PipesInv => SuccessIsComplete
  <2> SUFFICES ASSUME PipesInv, pc = "returned", result.code = 0, script # << >>
               PROVE  SuccessIsComplete
    BY DEF SuccessIsComplete
  <2>1. PICK s : s = Len(script)
    OBVIOUS
  <2>2. TypeOK /\ st = s + 1 /\ Settled(s, Len(script[s]) + 1, result)
    BY <2>1 DEF PipesInv, ListInv, Done
  <2>3. s \in DOMAIN script /\ s \in Nat
    <3>1. script \in Seq(Seq(Pipelines) \ {<< >>})
      BY <2>2, ScriptAssumption DEF TypeOK
    <3> QED  BY <2>1, <3>1, LenProperties, EmptySeq
  <2>4. Len(script[s]) \in Nat /\ DOMAIN script[s] = 1 .. Len(script[s])
    BY <2>2, <2>3, ScriptTypes
  <2>5. PICK q \in RanBefore(s, Len(script[s]) + 1) :
           /\ \A r \in RanBefore(s, Len(script[s]) + 1) : r <= q
           /\ Complete(s, q, result)
    BY <2>2 DEF Settled
  <2>6. Max(RanBefore(s, Len(script[s]) + 1)) = q
    BY <2>4, <2>5, MaxIs, BeforeNumbers
  <2>7. q \in DOMAIN script[s]
    BY <2>4, <2>5 DEF RanBefore
  <2>8. PICK g, redirs : g = Len(script[s][q].commands) /\ redirs = RedirsOf(s, q, g)
    OBVIOUS
  <2>9. DOMAIN redirs = 1 .. Len(redirs) /\ Len(redirs) \in Nat
    <3>1. g \in DOMAIN script[s][q].commands
      BY <2>2, <2>3, <2>7, <2>8, AtHand
    <3> QED  BY <2>2, <2>3, <2>7, <2>8, <3>1, AtHand DEF RedirsOf
  <2>10. ASSUME NEW i \in DOMAIN redirs, Left(<<s, q, g>>, redirs, i, Len(redirs))
         PROVE  Holds(<<s, q, g>>, redirs, i)
    <3>1. CASE redirs[i].target = Null
      BY <3>1 DEF Holds
    <3>2. CASE redirs[i].target # Null /\ i = Len(redirs)
      BY <2>10, <3>2 DEF Left, Holds
    <3>3. CASE redirs[i].target # Null /\ i # Len(redirs)
      BY <2>10, <3>3 DEF Left, Holds
    <3> QED  BY <3>1, <3>2, <3>3
  <2>11. /\ codes[<<s, q>>] = 0 /\ \A h \in 1 .. g : \E t \in Range(outputs) : t.by = <<s, q, h>>
         /\ IF redirs = << >> THEN result.stdout \in Range(outputs)
                                   /\ result.stdout.by = <<s, q, g>>
            ELSE \A i \in DOMAIN redirs : Holds(<<s, q, g>>, redirs, i)
    BY <2>5, <2>8, <2>9, <2>10 DEF Complete, Filled, Printers
  <2>12. st > s
    BY <2>2, <2>3
  <2> QED  BY <2>1, <2>6, <2>8, <2>11, <2>12 DEF SuccessIsComplete, RedirsOf
<1> QED  BY <1>1, AlwaysPipes, PTL
=============================================================================
