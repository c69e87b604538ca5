# TLA+ models of simsh

simsh is a virtual shell for agents: sessions execute command lines against a
virtual filesystem made of mounts, under policies, and return structured results
and traces. This directory holds TLA+ modules translated from its Go source, the
TLC configurations that check them, and proofs for TLAPS.

    tlc -config sessions.cfg MCSessionManager.tla
    tlapm SessionProofs.tla

## Inventory of the system

| Component | State | Operations | Hard behaviour | What makes it correct |
|---|---|---|---|---|
| Session manager (`pkg/engine/runtime`) | the map of sessions; per session a snapshot, a checkpoint, a runtime, adapter mounts, the live execution, two kinds of lock | Create, Get, Cancel, Execute, Checkpoint, Resume, Close | goroutines that interleave between lock operations, commands that run without `m.mu`, adapter hooks that run with it, failures after the command has run | the live slot is true; Cancel hits what it was given; nothing live is checkpointed; state survives from call to call; the ceiling holds |
| Execution policy (`pkg/contract/safety_policy.go`) | none | inherit, compare with the ceiling, check a size | zero means two things, negative numbers a third | an admitted request permits nothing the ceiling forbids |
| Prepared operations (`pkg/engine/orchestrator.go`) | a cache of prepared operations, each with a mutable working directory | Prepare, ExecuteResult, ResetMutableState | executions that share a preparation | an execution runs on callbacks with its own key; bootstrap state is private |
| Dispatch and aliases (`orchestrator.go`, `orchestrator_bootstrap.go`, `op_path_discovery.go`) | registry, aliases, the nesting of commands | read rc files, expand, resolve, dispatch, find -exec | loops, two depth limits, a dozen ways to end, code that repeats the resolution | expansion is substitution and ends; what which says is what runs; the profile holds; audit and trace agree |
| Script parser and runner (`script_parser_v2.go`, `script_ir.go`, `script_runner.go`) | last exit code, pipes, redirections | tokenize, parse, run a list, a pipeline, a stage | here documents, quoting, short-circuit lists, limits, truncated output, interruption anywhere | the parser reads the grammar; a script's outcome is that of the reference semantics |
| Filesystem bridge and router (`virtualfs_*.go`, `orchestrator_path_policy.go`) | the mounts that are there | route an operation, split a batch, list, search, describe | batches over several mounts, mounts that come and go | a batch is not split; every way to look at the tree agrees |
| Trace collector (`trace_collector.go`) | the records of one execution | wrap the operations, snapshot | answers of a mount matched by position, failures half-way | the trace says what was done |
| Mount dispatch (`pkg/contract/mount_*.go`) | none | profiles, CLI classes, budgets, optional interfaces | fallbacks, refreshes seen afterwards | a projection is not written; a fallback does what the interface would |
| File builtins (`pkg/builtin/op_*.go`) | none | mv, cp, rm, mkdir, rmdir, touch, tee, edit, mounts refresh, ls | sequences of calls that fail in between, another execution on the same tree | a failed move loses nothing; listings are true |
| Agent and local filesystem (`pkg/adapter/agentfs`, `localfs`, `internal/pathguard`) | a host tree | read, write, list, describe, a batch | links, paths at the edge of a zone, torn writes | writes stay in writable zones; what is described as read only is |
| Reference adapter (`pkg/adapter/reference`) | documents, resources, skills, curated memory, workflows, control-plane events | the session hooks, every call of the control plane | changes between the lock sections of one projection, state that goes through JSON | a projection is current; selection explains itself; observations are kept |
| HTTP service (`pkg/service/httpapi`) | none of its own | session endpoints, execute | requests that interleave, clients that hang up, metadata collected after the session was released | answers and metadata are true; the policy in force is the request's; every request is answered |
| Text builtins | none | grep, sed, sort, json, frontmatter | none that interleaves | |
| Resource-set adapter, `pkg/fs`, `pkg/sh`, `pkg/mount` | fixed trees | compose options, serve files | | |
| Command line, TUI, benchmarks | | | | |

The HTTP service, the TUI and embedding programs call the session manager; it
builds a runtime (`runtime.New`) from the session's options, the session's state
and the mounts its adapters returned, runs the command on it, and lets the
adapters observe the result. The runtime is the engine over the filesystem
bridge; the engine parses and dispatches, builtins call the bridge, which calls
mounts and a host filesystem, and the trace collector wraps these calls.

## Modules

| Module | Content |
|---|---|
| `Policy` | `safety_policy.go` as operators, and one operator for each place in the engine that consults a limit |
| `SessionManager` | the session manager, with its properties |
| `SessionLifecycle` | abstract specification: what those who watch a session with Get may see |
| `PreparedCache` | several goroutines on one engine: its cache of prepared operations and the working directory each preparation owns |
| `ScriptParser` | the tokenizer, the parser and the two other readers of words, letter by letter |
| `ScriptRunner` | one execution of a parsed script: statements, lists, pipelines, redirections, limits |
| `Dispatch` | one command line: rc files, aliases, lookup, profiles, external commands, find -exec, audit and trace |
| `MountContract` | what a mount's profile lets the engine ask of it |
| `HostZones` | the two host filesystem adapters over a tree with links |
| `VirtualFS` | router and bridge: one tree out of a host filesystem and mounts |
| `TraceCollector` | what the trace records of the calls to that tree |
| `FileCommands` | the file builtins as sequences of these calls, two executions at a time |
| `Listing` | ls and the metadata of paths as functions of the tree |
| `HttpApi` | the endpoints over sessions, tree and policies |
| `ReferenceAdapter` | the control plane and the session hooks of the reference adapter |
| `MC*` | definitions for TLC |
| `SessionManagerProofs` | types and critical sections; what one client's step leaves alone for the others |
| `SessionProofs` | the live slot, Cancel, checkpoints; SessionManager implements SessionLifecycle; projections, the state a session keeps, the policy ceiling |
| `PreparedCacheProofs` | types and the properties of PreparedCache |
| `ScriptRunnerProofs` | types, output that is cut at a limit, which pipelines of a list run, pipes, the write limit, what a zero exit code means |
| `DispatchProofs` | lookup, profile, audit and trace, the expansion of aliases, find -exec |
| `FileCommandsProofs` | what the builtins may change, what stays read only, batches and refreshes, what their traces tell, that a move loses nothing |
| `HttpApiProofs` | answers, metadata and the rows of listings, the policy in force |
| `ReferenceAdapterProofs` | the selection of skills, projections and the moments of their views, what a session never forgets |

`SessionManager` and `ScriptRunner` extend `Policy`. `SessionManager` instantiates
`SessionLifecycle` with a refinement mapping (`phase` is `life`, `shown` and
`status` are the fields of the snapshot, `issued` counts executions). `HostZones`
extends `MountContract`, `VirtualFS` extends `HostZones`, and over `VirtualFS` stand
`TraceCollector` with `FileCommands` on one side and `Listing` with `HttpApi` on the
other. `HttpApi` composes the tree with `Policy` and with the actions of
`SessionLifecycle`, which the refinement shows to be what sessions do.

### SessionManager and the code

The variables are the fields of the Go structs, one function over sessions for
each field of `managedSession`, and `mu`, `executeMu` for the mutexes (which
client holds them). `active` and `runtime == nil` are in `life` and `runtime`.
A client is a goroutine; `pc` says between which two points of a method it is,
`call` holds its arguments, `exec`, `narrowed` and `scratch` its local variables.

An action is what a goroutine does between two points where another goroutine
could tell the difference:

| Method | Actions |
|---|---|
| `Create` | `Create`: the record is known to nobody before `m.sessions[id] = record` |
| `Get` | `Get`, which clears a finished slot |
| `Cancel` | `CancelCall`, then `CancelRefused`, `CancelAgain` or `CancelMark` (under `m.mu`), then `CancelFire` (after unlocking) |
| `Execute` | `LookupManaged`, `ExecuteRefused` or `ExecuteAdmitted` (`executeMu`), `ExecuteInstall` (`m.mu`), `ExecuteFinish` (the command, then `close(done)`), then `ExecuteSettle`, or with adapters `ExecuteObserve` and `ExecuteObserved` (`m.mu` held across the hook) |
| `Checkpoint`, `Close` | `LookupManaged`, `StoreRefused` or `StoreAdmitted`, then `Store`, or with adapters `StoreHook` and `StoreHooked` |
| `Resume` | `LookupManaged`, `ResumeOpen` or `ResumeClosed`, `ResumeRebuild` (hook and `New`, without `m.mu`), `ResumeStore` |

Three choices are left open, because the code they stand for is elsewhere: the
directory a command leaves its runtime in, whether an adapter hook fails (and
whether it had already built its projection then), and whether `New` fails when
it builds from a session's state.

What is abstracted: of the runtime state only the working directory is kept
(aliases and environment travel with it in `mergeSessionState`); a projection is
the number of the hook call that built it, in the opaque state and in the mounts
alike; times, command lines and results are left out, except whether a result is
returned. Adapters are assumed to return opaque state on every call. Ids are
unique, as `NextExecutionID` and the session counter make them; an embedding
program may pass id functions that repeat. `m.sessions` never loses an entry, so
the `!ok` branches after the lookup do not occur. `record.snapshot` is read by
Execute, Resume and `runtimeOptionsForSession` without `m.mu`: those reads
happen under `executeMu` with the slot empty, when no other goroutine writes the
snapshot (the invariants `SlotTruthful` and `CriticalSections` say why).

### PreparedCache and the code

`PreparedCache` is about an `Engine` that several goroutines call, as
`pkg/service` and `pkg/sh` do. It is not composed with `SessionManager`: the
runtime of a session has an engine and a preparation of its own, and `executeMu`
lets one execution use them at a time.

`cacheValid`, `cacheKey` and `cacheResult` are the fields of `Engine`. `prepared`
lists what each call of `PrepareOps` compiled, and `cwd` holds, for each of them,
the `workingDirState` its callbacks are closed over. A client is a goroutine in
`ExecuteResult`; `using` is the preparation its execution runs on.

| Code | Actions |
|---|---|
| `ExecuteResult` begins, decides whether there is a key | `Execute` |
| `loadPreparedFromCache` (`cacheMu` read-locked) | `LoadHit`, `LoadMiss` |
| `PrepareOps` | `Prepare`, `PrepareFails` |
| `ResetMutableState` | `ResetMutableState` |
| `storePreparedInCache` (`cacheMu` locked) | `Store` |
| a command resolves a path | `UsePath` |
| `ChangeWorkingDir`: resolve and ask `IsDirPath`, then set | `ChangeDir`, `ChangeDirRefused`, then `SetDir` |
| `ExecuteResult` returns | `Finish` |

The callbacks of `Ops` are abstracted to identities: `Bases` stands for those the
key is computed from, `Extras` for the others. A path is absolute, or relative
and made of at most one `..` and some names; cleaning is what `path.Join` does to
it. The directories that exist do not change while executions run. The ghosts
`home`, `seen` and `meant` follow a script from its own point of view: the
directory it went to by its own `cd`s, and what its last path resolved to in the
engine and in that directory. The aliases and environment of the mutable state are
reset like the directory, and only operations that are never cached have them;
they are not variables of the model.

### ScriptRunner and the code

A behaviour is one call of `runScript` after parsing. `script` is what the parser
returns (`script_ir.go`): statements, their pipelines with `&&` and `||`, their
commands with redirections; parse errors, where nothing runs, are left to
`ScriptParser`. `st`,
`pl`, `sg` and `rd` are the loop variables, `status` and `last` are
`statementResult` and `lastResult` of `executeStatements`, and `input`, `current`
and `stderr` the locals of `executePipeline`.

| Code | Actions |
|---|---|
| the context is cancelled or times out | `ContextDone`, at any moment |
| `runScript`, `executeStatements` begin | `Begin`, `BeginRefused` |
| the loops over statements and pipelines | `Statement`, `StatementEnds`, `ScriptEnds`, `ScriptInterrupted`, `PipelineSkipped` |
| `executePipeline` | `PipelineTooDeep`, `PipelineBegins`, `PipelineEnds`, `StageInterrupted` |
| `applyInputRedirections`, `preflightOutputRedirections` | `StageRefused`, `StageRuns` |
| `runCommand` with `enforceOutputLimit`, then `preflightOutputRedirectionPayload` | `CommandFails`, `CommandRefused`, `CommandEnds` |
| `applyOutputRedirections`, one target at a time | `RedirectNull`, `Redirect`, `RedirectFails` |
| the output limit of the pipeline | `StageEnds`, `StageFails`, `OutputTooLong` |

A text is its length, whether it ends in a newline, whether all of it is there and
which stage printed it; `truncateUTF8String` is taken for text of one byte a rune,
and `TrimSpace` for text that is not only white space. All messages of the runner,
and all contents that are read, are one text of length 1. All exit codes that are
not 0 are 1. A command is any output and any code; only `cd` moves the directory,
only external commands print to stderr. `files` follows what redirections write,
not what commands write; a write that fails leaves the file as it was, and reading
any file may fail. Of the trace only `OutputTruncated` is kept. The ghosts `codes`
and `outputs` record which pipelines ran with which exit code, and what commands
that succeeded printed.

### ScriptParser and the code

A text is a sequence of letters and a behaviour parses one. Every function of
`script_parser_v2.go` is an operator that returns where it stopped and whether it
failed: `ReadShellWord`, `ReadHereDocs`, `TokenizeScript`, then the recursive
descent from the script to the command. `ParseAliasExpansion` is the reader of
aliases and `SplitShellWords` that of the HTTP service. The reference is a grammar
without a parser: `StatementPieces`, `PipelinePieces` and `CommandPieces` cut the
tokens at the places of the operators. Messages are left out.

### Dispatch and the code

A behaviour is one command line on a prepared engine. `pc` is where the engine is:
reading rc files (`boot`), expanding an alias (`alias`), deciding and beginning a
command (`run`), waiting for an external command, returning (`back`) to the find
below or, at the bottom, done. `stack` holds the builtins that are running: a
`find -exec` dispatches its commands, which may be aliases of finds, through
`dispatchFromOps` with a depth of its own. `audit`, `executed` and `outcomes` are the
events and the two lists of the trace. The context may end at any moment
(`Cancel`). What cat, date and ls print is one of `PlainResults`; what the host
answers to an external command is one of `Replies`: no answer, codes below zero, a
timeout, a provider's failure. Outputs are sizes.

### The virtual tree and the code

A host tree is a function from paths, sequences of names, to folders, files and
links. `HostZones` gives every operation of the two adapters as an operator from a
tree to an error class and a tree, with the link resolution of `pathguard`
(`Resolve`) where the code calls it. A write may be torn and any call may fail.
`VirtualFS` is the router (`Match`, `IsSyntheticDir`, `SyntheticChildren`) and the
bridge (`DescribePath`, `ListChildren`, `CollectFilesUnder`, `SearchContent`,
`ApplyMutations` and the single calls) over a world: host, data of the mounts, the
mounts that are there, adapter, policy. A mount is the tree it holds, its profile
and the optional interfaces it implements; what a mutator answers is a
nondeterministic choice that includes records with a status and no error.
An error is its class, since classes are all the callers look at. A call of the host
that fails hands up the host's own error, and for the trace, which reads the words of
an error, these words, or those of the path in it, may say "permission denied" or
"read-only file system": the class `worded`, which every caller takes for a plain
failure and the trace for a denial (`Worded`, `FsResults`). Errors of calls that only
read keep the class of simsh's own message.

`FileCommands` runs a builtin as the program of the calls it makes, one action per
kind of call (`DoRequire` to `DoRefresh`), so that another execution, a failing
call or a mount that comes or goes (`Flip`) falls between any two. A refresh may fail,
and what the mount reports as effective, refreshed and refused are three choices. The
ghost `hidden` keeps what was done of a batch whose error only reads as a denial. The
trace is updated by `TraceCollector` with every call. `Listing` is `ls`, `ls -R` and `ls -l`
over the tree of one moment, with the fallbacks the code has when a mount
describes nothing.

### HttpApi and the code

A connection carries a request at a time; its handler goes through the stages
decode, look up or create, wait for the session (`Acquire`), admit under the policy
in force, run, finish, release, and describe the paths named in the command, one
after another. `Call` is the command's write, or a look-up of metadata, `Hangup` the client that leaves, whose
context ends. Errors map to statuses as in `statusForSessionError`. Sessions of
the service have no adapters, so that no hook runs under the manager's lock and the
status for a deadline is out of reach.

A word that cannot be described is looked for with the script `ls -al --fmt json`
followed by the word as it stands, unquoted (`execute_endpoint.go:450`), on the runtime
the command ran on. `executeMu` was released before, so other requests may run on the
session meanwhile, or have closed it. For a word that is a path this is a look-up
(`DescribePathMetaViaLS`). `Scripts` says which words are more than that, and what such
a script writes: `DescribeViaLS` then applies that write or not, under the policy of the
runtime (`HostsOfScript`), and the row it prints for its own word claims any access and
capabilities (`Claims`). Left out is that such a script may move the working directory
of the session's runtime between two commands: `HttpApi` keeps no directories, and
`SessionManager` has the calls of the manager only.

### ReferenceAdapter and the code

Every exported call of the control plane is one action, because it holds `a.mu` from
beginning to end (`UpsertEntry`, `ChangeEntry`, `UpsertSkill`, `UpdateSkill`,
`RemoveSkill`, `ChangeCurated`, `UpsertWorkflow`, `SetWorkflowStatus`,
`SetProjectionError`). A hook takes the lock once for each view, so it is a list of
steps (`Plan`): `curatedRecords` and `workflowViews` of `stateFromSession`, once or
twice, those of `ObserveExecution`, `beginProjectionBuild`, and the records and mounts
of `buildProjection`. Names are numbers in the order of the paths, a content is the
number of the change that wrote it, lists without repetition are sets. The hook's
result is kept by the session or lost, when another adapter or `New` fails. What
`json.Unmarshal` does to records that are there already is modelled
(`UnmarshalCurated`); the Markdown views and the counters are left out, and so is
that evidence of workflows is matched by string prefixes: names are taken not to be
prefixes of one another.

## Runs

| Run | Instance | Result |
|---|---|---|
| `sessions` | 3 clients, 2 sessions (one with adapters), 2 directories, 5 calls, clients symmetric | the seven invariants hold in 1,269,278 states |
| `liveness` | 2 clients, 1 session with adapters, 4 calls, fair | `CancelEnds`, `ControlReturns`, `Lifecycle` hold |
| `dropped` | 1 client, 3 calls | violates `StateNeverDropped` |
| `cache` | 2 clients, 3 executions, 2 different sets of callbacks, an existing and a missing start, 2 commands in a script, clients symmetric | `KeyFaithful`, `BootstrapNotShared` hold in 368,267 states |
| `shared_cwd` | 2 clients, 2 executions | violates `OwnDirectory` |
| `scripts` | 7 scripts (up to 3 pipelines in a statement, 3 stages, 2 targets), 3 policies, outputs of length 0 to 3 | the five invariants hold in 400,247 states |
| `parser` | every text of 4 letters out of 10, every script of 5 pieces out of 8, texts with two here documents, texts of 5 letters that make paths | `ParsesGrammar`, `WordsReadAlike` hold in 132,280 states |
| `dispatch` | 27 command lines, 4 builtins (one outside the profile), 6 configured aliases and 3 rc files, external commands with 9 replies, alias depth 4, dispatch depth 2 | the four invariants, `AliasIsSubstitution` and `Terminates` hold in 969 states |
| `files` | 2 executions, 40 commands for the first and a move for the second, 2 zones with links, 4 mounts, one fault, one mount that comes or goes, both adapters | the six invariants and `ReadOnlyHolds` hold in 84,975 states |
| `transfer` | the same without faults | violates `SplitMoveKeepsContent` |
| `http` | 2 connections with 2 requests each, 2 sessions, 2 zones, 3 mounts, one word that is a script, one runtime that cannot be built | the three invariants, `PolicyInForce` and `Answered` hold in 180,101 states |
| `reference` | 1 session, 3 hooks, 2 changes out of 14, 2 traces | `SelectionExplained`, `ProjectionCurrent`, `ObservationsKept` hold in 1,526,556 states |

Properties, in the order of the runs:

- `SlotTruthful`, `CheckpointInert`, `CancelIsPrecise`, `ClosedIsQuiet`, `ProjectionsAgree`,
  `StatePreserved`, `ConfinedToCeiling`: the live slot names what runs; nothing live is
  checkpointed; Cancel ends what it was given; a closed session is quiet; the
  adapters' opaque state and the mounts of a session are of one projection; where
  a command left a session, there its runtime or its checkpoint is, and its snapshot,
  from which a narrowed run starts, but for two failures (below); no command is wider than its ceiling.
- `CancelEnds`, `ControlReturns`: a cancelled execution leaves its slot, and Cancel
  does not wait for a command. `Lifecycle` is the refinement.
- `KeyFaithful`, `BootstrapNotShared`: see `PreparedCache`.
- `ListSemantics`, `PipesFaithful`, `CutIsHonest`, `LimitedAtomic`, `SuccessIsComplete`:
  lists, pipes and limits mean what they should, and a zero exit code means that all
  was done, however the script was interrupted.
- `ParsesGrammar` (with `StatementsParsed` and `HereDocsInOrder`), `WordsReadAlike` (with
  `QuotingIsExact`, `AliasReadsLikeAScript`, `MetaPathsAreTheWords`).
- `AliasIsSubstitution`, `LookupMatchesRun`, `AuditFaithful`, `ProfileHolds`, `FindRunsAll`,
  `Terminates`.
- `Confined`, `ProjectionsKept`, `MoveKeepsContent`, `BoundariesKept` (batches and narrow
  refreshes), `TraceTruthful` (every change of a command that exits 0 is told; what is
  reported denied outside mounts was not changed, unless the change is told as well or
  the denial is only in the words of a host error), `LookingAgrees` (find, ls, search and single reads tell
  of one tree), `ReadOnlyHolds`.
- `AnswersAreTrue`; `MetaIsTrue`: no row offers a write the policy forbids, but for the
  row of a word that is a script; `ListingsTrue`; `PolicyInForce`: the host changes only
  by a command or by such a word, and by both only where the policy of the request and
  the ceiling of the session let it; `Answered`.
- `SelectionExplained`: of every scope the best eligible skill is selected, every loser
  names it, and as long as no skill changes its scope the audit is a chain.
  `ProjectionCurrent`: each view of a projection is what the adapter held at some
  moment of the hook, the views in the order of these moments, and index and files
  agree when nothing changed meanwhile. `ObservationsKept`: what a session observed,
  it keeps through every hook.

Bounds. `MaxCalls` bounds the calls made in all; every execution is a call, so it
bounds ids as well. Five calls by three goroutines are enough for a Create, an
Execute, a Cancel that is decided on it, a Get that clears its slot and a second
Execute or a Close that overtakes the Cancel; or for Create, Execute, Close,
Resume and Execute. Two sessions let executions of different sessions be mixed
up, and `m.mu` be held by one while the other is used. Two directories tell an
old state from a new one. Limits 0, 1 and 2 are "unset", the least limit and a
larger one, judged on the sizes 0 to 3; limits are inherited and compared each on
its own, so requests that set one are enough. In `liveness` one directory and one
session suffice: the properties concern one session's executions, which differ by
id. Three executions of `PreparedCache` let a third replace the cached entry while
one runs on it and another has just looked it up; two commands in a script are a
`cd` and a path that shows where it led. The scripts of `scripts` are chosen so that
each construct meets each other: connectives over pipes and redirections, an append
to a file just written, `/dev/null` as the first or the last target, a here-document,
a pipeline deeper than the limit, a `cd` with redirections, more statements than
the bound. Lengths 0 to 3 lie on both sides of the write limit 1 and the output
limits 2 and 3, and two outputs of 1 or 2 are over a limit only together. Five pieces
of `parser` make every connective follow every other, with a redirection or a here
document; `MaxHereDoc` and `MaxStatements` are small enough to be passed. In
`dispatch` the aliases chain, loop, shadow a builtin and call themselves through
find, so that both depth limits are met. In `files` the commands name every pair of
places: two files of a zone, through a link, out of the zone, zone and mount, one
mount, two mounts, a mount that does not allow it. One fault and one change of the
mounts (`MaxFaults`, `MaxFlips`) can fall anywhere. In `http` two requests of each of
two connections make a close, a resume, a cancel or a second command fall into
another command and its metadata; one word that is a script removes a file; `Depth` 3 is the depth of the tree. In `reference`
two changes fall into one hook or between hooks, and three hooks are a create, an
observation and what follows it. One session is used there: two sessions share only
the counter of projections, which the properties use as an order within one, and the
theorems are for any number of them. Symmetry
is used only in `sessions` and `cache`, which have no temporal property.

When the bound on calls is reached and all have returned, `AllReturned` (`Stop` in
`PreparedCache` and `ScriptRunner`) stutters, so that deadlock checking stays on
there: a state in which a client waits for good is an error. It is off where the
bounds let the system stop: a text that is parsed, a command line that is done, all
requests sent, all hooks begun.

Fairness. In `SessionManager` (`Fairness`) a goroutine inside a call goes on, and gets
a mutex that becomes free again and again, since Go's mutexes hand over to the
longest waiter after a millisecond (strong fairness of `CallStep`). Adapter hooks
return. A command is not assumed to end unless its context is cancelled (weak
fairness of `EndCancelledCommand`): a policy may set no timeout. In `Dispatch` the one
goroutine goes on (weak fairness of `Step`); the builtins and the host return. In
`HttpApi` a handler goes on (weak fairness of `Handle`), which is enough for
`executeMu` because a connection has a bounded number of requests; a command and a
call on the tree come to an end (`InCall`), the first by the timeout of its policy.

### What the violations show

- `dropped`: an Execute under a narrower policy runs the command on a temporary
  runtime. When rebuilding the session's own runtime fails afterwards
  (`session_manager.go:300`, and 288 and 293 with adapters), where the command
  left the session is lost. Under the ceiling policy the same failure keeps it in the
  session's runtime, where the next such command goes on, but not in the snapshot: a
  narrowed Execute that follows is built from the snapshot (244, 441), starts in the
  old directory, and what it leaves overwrites the newer one, until a Checkpoint or a
  Close stores the session. `StatePreserved` is the property with these two exceptions
  (the ghosts `dropped` and `behind`), and it holds.
- `shared_cwd`: two goroutines whose operations have the same key get the same
  preparation, and one `workingDirState` (`orchestrator.go:122`): a `cd` of one, or
  the reset at its start, moves the other, although `README.md:156` calls the
  working directory session-local. Sessions are not concerned.
- `transfer`: a mount whose budget allows one operation per batch makes mv write and
  remove one by one (`op_move.go:82`), and the bridge takes a record with status
  conflict and no error for a write (`virtualfs_bridge.go:287`): the file is lost
  with exit code 0. `MoveKeepsContent` is the property without such mounts: a move that
  no other execution meets, once it has read its file, has the text at the source or
  at the destination, unless these are one place of the host. A mount that goes away
  may show the host's file of that name below it, so the source is looked for in both
  (`AtSource`).

Other places where code and documents differ, met while modelling and not run:

- A negative limit is not "unset", exceeds no ceiling and is no limit for the engine
  (`safety_policy.go:104`, `execution_result.go:46`). The theorem on ceilings assumes
  that no request sets one.
- Checkpoint keeps the new mounts of the adapters in the record but not in the
  runtime (`session_manager.go:334`), so that commands see the old projection until
  the runtime is built again. `ProjectionsAgree` says what does hold.
- The key of the cache leaves out `ListEntries`, `EnumeratePaths`, `ReadMany`,
  `SearchContent` and `ApplyMutations` (`orchestrator.go:194`), so operations that
  differ only there run on the callbacks of the execution that was cached, which
  `TestExecuteCacheIsolationAcrossOpsInstances` (`engine_test.go:1303`) says they
  do not.
- The targets of a command are resolved and checked before it runs
  (`script_runner.go:200`) and resolved again when they are written (254). After a
  `cd` they are other paths; and the check asks for `PathOpWrite` also where the
  target will be appended to. So `cd m > b > a` may empty the first target and be
  refused at the second, although `docs/notes-kernel-optimization-plan.md:118` says
  that composite mutations fail before they begin when the preflight should reject
  them. `LimitedAtomic` is the part of this that holds.
- In single quotes the parser takes a backslash as an escape, the service's splitter
  (`execute_endpoint.go:497`) does not; the splitter also ends words at parentheses.
  `MetaPathsAreTheWords` leaves both out.
- The service describes at most 50 paths and stops there without saying so.
- The event of a skill that follows another before a projection is built names a
  generation one too late (`adapter_skills.go:199`): the audit of the next projection
  calls it pending although it is in force there, where
  `docs/architecture-platform-adapter-contract.md` has it take effect on the next
  rebuild. A skill that moves to another scope leaves no event for the scope it left.
- A curated entry that was kept without a summary may come back with that of another
  entry, because it is decoded over the record in its place (`adapter.go:552`).
  `curated.json` shows the entries of the moment, `status.json` also those that were
  removed. When an observe hook fails, what the execution did is never observed.
- The trace tells denials by the words of an error (`trace_collector.go:549`), and hosts
  use the same words. When `rm a b` has removed `a` and the host refuses `b` with
  "permission denied", the trace reports both as denied and no removal
  (`trace_collector.go:226`). `TraceTruthful` excepts what such an error hid (`hidden`).
- `mounts refresh` exits with 0 when the mount refused targets (`op_mounts.go:221`).
- Metadata of a request runs a word of the command that is no path as a script, after
  the session was released (`execute_endpoint.go:450`), and believes the row it prints:
  see `HttpApi` above.
- One child that cannot be described fails the listing of its directory
  (`op_listing.go:178`).
- A mount whose entries state read-write access is listed as writable by `ls -l` of its
  directory also under a policy that forbids writes, where describe and `ls -ld` call the
  same path read only: the rows of a listing do not look at the policy
  (`op_listing.go:227`), and only `DescribePath` is wrapped by it
  (`orchestrator_path_policy.go:10`). The mounts of the repository state read only.
  `StatesAccess` names the exception in `RowsTrue`.

## Proofs

The theorems about sessions are for any sets of clients, sessions, directories,
ceilings and requests, and any bound on calls, under `SessionsAssumption` (the
constants have the right types, `Free` is no client) and `NilAssumption` (`Nil` is
no runtime). Those about the cache are for any clients, callbacks, directories and
paths, under `CacheAssumption` (types, and the root exists).

- `Typing`, `SectionsHold` (`SessionManagerProofs`). `TypeOK` is not inductive:
  a step reads the runtime of its session, which is there only because the
  session is still open, which is what `CriticalSections` says. So `Base` is
  proved: types, critical sections, what a call's local variables are at each
  `pc`, and that a session has a runtime exactly when it is open. The argument is
  rely/guarantee: `StepFrame` shows what a step of one client leaves alone
  (`Frame`), `OthersSection` that this is all the others rely on, `OwnSection`
  that the client establishes what it relies on next.
- `SlotsHold`, `CancelsPrecise`, `CheckpointsInert`, `ClosedStaysQuiet`
  (`SessionProofs`) from `IInv`: `Base`, the uniqueness of execution ids
  (`Ids`), the properties themselves, and `Marked`: from the moment Cancel marks an
  execution until it calls the cancel function, the execution is shown as
  canceling wherever it is shown. `Effects` classifies the steps by what they do
  to slots: nothing, empty one, or one of four (mark, cancel, install, end).
  `IInv` was checked by TLC on the `sessions` instance first.
- `ProjectionsHold`, `StateHolds` (`SessionProofs`) from `StateInv`. What a
  session's record says may be out of date while a call carries the newer state in
  local variables, so `ProjectionsAgree` and `StatePreserved` are not inductive:
  `Carries` says what a call between two critical sections carries (after a command,
  the directory it left; while a session is reopened, the checkpoint's directory and
  a projection between the one in the record and the last one built), and `Kept`
  excuses a session whose Execute has not returned. A plain run starts in the directory
  of the runtime and a narrowed one in that of the snapshot (`Starts`), which are one
  unless a failure has left the snapshot behind. That no other call overwrites
  what is carried comes from the critical sections of `Base`.
- `CeilingHolds` (`SessionProofs`) from `CInv`: `ConfinedToCeiling`, assuming that
  no request holds a negative limit. It rests on `AdmittedNoWider`, the same fact
  about `safety_policy.go` alone, for all policies. A request with a negative
  timeout shows that the assumption is needed.
- `Refinement` (`SessionProofs`): every step of SessionManager is a step
  of SessionLifecycle or changes nothing that is shown.
- `CacheTyping`, `CacheKeysHold`, `BootstrapStaysPrivate`, `SoleCallerOwnsDirectory`
  (`PreparedCacheProofs`). `KeyFaithful` needs `Keyed`: the entry in the cache was
  prepared from operations with its key. `BootstrapNotShared` needs `CachePlain`,
  that the entry and what a cacheable execution uses have no bootstrap state, and
  `Private`, that a preparation with bootstrap state has one user, whose script is
  where the preparation is. `SoleCallerOwnsDirectory` proves `OwnDirectory` when
  there is one client: by `SoleInv` the directory of the preparation in use is the
  script's own. `shared_cwd` shows that this assumption is needed.
- `RunnerTyping`, `CutStaysHonest`, `ListsHold` (`ScriptRunnerProofs`), for any
  scripts, policies, paths and lengths, under `ScriptAssumption` (types; the first
  pipeline of a statement has no connective, the others have one). The first is
  inductive. The next follows from `CutInv`: every text a stage may still use (`current`, `stderr`,
  `input`, the files) is all there, and a result on its way to the caller
  (`status`, `last`) that is not has a failing code and `truncated` set (`Owned`). `ListsHold` needs `ListInv`: a pipeline that
  is being run was asked for (`Placed`), the exit code that the next connective
  is judged on is that of the pipeline that ran last (`Judged`), and there is one
  (`LastRan`). Skipping a pipeline keeps both, although the connective after it
  looks past it.
- `PipesHold`, `LimitsAtomic`, `SuccessesComplete` (`ScriptRunnerProofs`) from `PipesInv`,
  which adds to `ListInv`: where the runner may be (`Within`); what a stage that has
  ended hands to the next, and that stages print and write in the order of the script
  (`Handed`, `InOrder`), so that whatever a file or a pipe holds is of an earlier
  stage; that a text being written has passed the limit (`Checked`); and `Done`, that
  a status of 0 belongs to a pipeline of which every stage has printed and every
  target been filled, at each point between two targets, two stages, two pipelines
  and two statements. `SelectAssumption` says that filtering the redirections of a
  command gives redirections, which the provers cannot compute; TLC evaluates it.
- `LookupsTell`, `ProfilesHold` (`DispatchProofs`), for any registry, profile, aliases,
  rc files, tree and replies, under `PathRefAssumption` (what a path-like word denotes
  is well-typed). `LookupInv` says that no alias has the
  empty name or the name of a path (`NamesValid`), and that an expansion starts with
  what was typed and goes on only over aliases (`Expansion`): the arguments are still
  what was typed, or its head is an alias. `ProfileInv` says that every builtin on the
  stack of nested commands, or about to run, is a registered one the profile allows,
  and that an external outcome with a builtin's name was asked for by its path.
- `AuditHolds`, `ExpansionSubstitutes`, `FindsRunAll` (`DispatchProofs`), for any aliases, rc files, tree,
  commands, replies and limits. `WordsInv` types what the audit and the arguments are
  made of. `AuditInv` adds that the audit nests: `OpenedAfter` shows what one more event
  does to what is open. With it the steps of `TraceMatchesAudit` can be counted: an
  ending adds one to the endings and one to either the steps of builtins or the
  outcomes (`ExternalTold`, `EndTold`). `ExpansionInv` says that the arguments are those
  typed after as many substitutions as there are names seen, and that these are the
  heads met on the way; a name met twice comes round forever (`LoopsStay`), so that an
  expansion that repeats a name has no end under any limit. `FindInv` follows the finds
  that run: each has its start in the audit, under which nothing but its commands lies
  one deeper (`WithinIn`); it has left the end of what it had to do (`Left`), and the
  endings under its start are the commands before that, in order and all of them good
  (`Progress`), with one more while an answer is on its way (`Heard`). After a failure
  nothing is claimed, because then the find fails as well (`CutFails`: no output limit
  turns a failure into a success). `EndsLonger` keeps the words of a command through
  its aliases. A find of the host has no commands in the audit: it is told by its
  outcome, so the property is about the builtin. Words are counted and put
  together by functions defined by recursion; `Recursion` shows that such a function,
  up to a bound, exists, is the only one, and has the values its definition says.
  `WordsAssumption` says that command lines are words and not empty
  (`orchestrator.go:416`), `RepliesAssumption` that a host that fails does not call it
  success (`orchestrator.go:682`).
- `FilesConfined`, `ProjectionsStay`, `BoundariesHold` (`FileCommandsProofs`) from
  `FilesInv` (`FilesInvHolds`), for any trees, zones, mounts, commands, failing or torn
  calls and mounts that come and go. An execution has found out, at the call it has
  come to, whatever the calls before it ask (`ExecInv`): that writing is allowed, that
  no path of a batch is a directory towards a mount, that what comes after a batch is
  of one mount; these facts are about the command and the profiles, which nothing
  changes, so they stay true while others run. `ProgramLaid` shows that the program of
  each builtin asks before it does (`Fitting`), whatever it has read. Of the world,
  `Confined` is not inductive: a link made later, or a zone whose base is gone, could
  turn a path that passes the check into one outside. `LinksKept` (every link is one
  of the beginning) and `RootsKept` (the bases, and the directories towards them, are
  directories) make it so. The hardest leaf is rmdir: a path below the base may resolve
  to the base itself through a link, and then the base holds that link and is not
  empty (`RmdirWithin`). `CommandsAssumption` is what the parsing of arguments lets
  pass (`op_move.go:33`). `TreesAssumption` says that every mount has a tree and that
  host roots are there (`filespace_core.go:92`) under their real names: the check
  resolves the links of the root as well (`pathguard.go:23`), the model starts behind
  them.
- `TracesTrue` (`FileCommandsProofs`) from `TraceInv` (`TraceInvHolds`), which adds two facts
  to `FilesInv`. `Accounted`: what an execution has changed is in the lists of effects of
  its trace, or its path is one of the operations of the file-system batch that it has
  made so far (`InHand`), of which the trace tells only when the batch ends, or it was
  hidden by an error of the host that reads as a denial. A batch that a rule of simsh
  denies half-way would show as denied what it has already changed; `Admitted` excludes
  that: once `preflightPathChecks` has let the paths of a batch pass, each lies
  under a base that may be written, also with its links resolved (`Admits`). Other
  executions may remove and write nodes meanwhile, but make no link, and on a path
  there is one link at most (`OneLink`), so that it leads where it led or to itself
  (`ResolveStays`), and all a call meets there are failures of the tree, which no rule
  makes (`AdmittedErr`); that their words are the host's is why `hidden` is needed. `TreesAssumption` says for this that no node of the host lies
  below a link, as in any tree of a host. A mount that refuses its batch as unsupported
  has changed nothing (`FallbackKeeps`), so the calls that follow it start from an
  empty hand. The root is never recorded; it is never seen to change either
  (`RootSeenSame`).
- `MovesKeepContent` (`FileCommandsProofs`) from `MoveInv` (`MoveInvHolds`), for any trees,
  mounts, texts and failing or torn calls. `MoveKeepsContent` is not inductive: after a
  torn write of the target only the source still has the text, and the removal that
  follows is safe only if nothing is torn. `MoveKept` therefore says of every call of
  the move what has been written before it: at the batch the text is at the source; at
  the second operation of a batch of the file system, and at the removal of a move made
  one by one, the target has been written whole and does not lie below what will be
  removed (`Copied`); at the write of a move made one by one, both paths are the file
  system's, or the write is refused, because a mount that refused the batch of write and
  removal, though its budget allows two operations, refuses the write alone
  (`Unwritable`). A batch that a mount has taken leaves the tree that its operations
  leave one after the other (`Applied`), so the target there holds the text and the
  removal leaves it. Since mounts come and go between any two calls (`Flip`), a path that
  was a mount's becomes the host's, and the reverse; the calls go by the mount table,
  which does not change, so the path is looked at where the call went. `Alone` says that
  who has been alone is alone still, and `MountsLinkless` that no call makes a link in a
  mount. `FilesInv` gives the links of the host. `LinksAssumption`, which only this proof
  uses, says that links lead to places without links and that mounts have none: a link
  to a link is resolved by the code step by step, by the model once. The batch of a
  mount (`Applied`) and its size (`BatchSize`) are recursive functions, of which at most
  two values are ever needed here.

- `ReadOnlyKept` (`FileCommandsProofs`): `ReadOnlyHolds` from `FilesInv`, for zones that
  are apart (`ZonesApart`): the base of a read-only zone is reached through no link and
  lies neither above nor below the base of a writable one. Without it the property is
  false, and the code does not exclude it: of two zones over one host directory one
  writes what the other describes as read only. That the path itself does not change is
  not enough, since what it shows is looked up through a link and only then read.
  `Confined` leaves alone whatever lies under no writable base, and that is the node and,
  because a path that passes the check stays under the base with its links resolved
  (`CheckedUnder`), also the way to it (`ReadOnlyWay`): a link there is one of the beginning
  and still the same (`SeenUntouched`). The roots of writable zones are directories and
  stay so; the local file system describes nothing as read only where writing is allowed
  (`LocalNotReadOnly`). A directory towards a mount is described by the router and not by
  the file system; `SaysReadOnly` leaves it out. `TreesAssumption` says for this that the
  nodes of the host are at paths.
- `AnswersHold`, `MetaHolds`, `PolicyHolds` (`HttpApiProofs`) from `HttpInv` (`HttpHolds`):
  a handler that holds `executeMu` is its holder (`Holds`), a session that runs shows
  the execution of the handler whose command runs (`Shows`), so that a cancel that was
  answered stopped what it named (`Stops`, `Canceled`); the policy a handler has taken
  was narrowed for its request and its session (`Bounded`), and each row of metadata
  collected so far was made under it or printed by a script (`Shown`, `Bears`), although
  mounts, files and the session may have changed between two rows. A script that a word
  is writes only where the policy of its handler allows it, so `Bounded` gives
  `PolicyHolds` for it as for the command. `ScriptsAssumption` says that such a word is a
  path of the model and its write one of the kinds of calls there are.
  `RequestsAssumption` says that paths are paths, that a request that carries no command
  is blank, and that the constants for "nobody" and "no session" are no connection and
  no session.
- `RowsHold` (`HttpApiProofs`): `RowsTrue`, the half of `ListingsTrue` about rows, for any
  tree, zones, mounts and policies. What is described has lost already what the policy
  takes back, so that filling it in again, as each place that shows a path does, changes
  nothing (`FilledIs`); an entry that the router gives was not described but is of a path
  the router answers for itself (`RoutedBelow`), a mount's or a directory's towards one,
  and states the access that is then shown (`StatedIs`); in `HttpApi` every mount is there
  all the time (`AllActive`). `OffersAreAllowed` goes through
  both adapters: a row offers a write where the check of the adapter lets it through.

- `SelectionExplainedHolds`, `ProjectionCurrentHolds`, `ObservationsKeptHolds`
  (`ReferenceAdapterProofs`) from `AdapterInv` (`AdapterInvHolds`), for any documents,
  skills, curated entries, workflows, changes, traces and sessions, and any bounds.
  `RecordsExplain` shows of any skills that their index explains itself: `Precedes` is a
  strict order with a least member in every set (`FirstIs`, by well-foundedness of the
  numbers), which is what the sort of `selectSkillWinner` yields. The audit is a chain
  because its last event of a scope names the winner of the moment (`Current`), which a
  change of another scope leaves alone (`OtherScopes`). A hook is judged by the section
  it has come to (`At`, a place in `Plan`; `PlanOk` says that no section is left out).
  `HookOk`: from the third section on the state in the making has all that the session
  kept, after the fifth what the execution did, after the sixth a generation above the
  one kept. `ViewsOk`: the views collected so far are those of moments in order, of
  which the last is now, so that a change may fall before the next (`ViewsOutlive`), a
  section adds a view of this moment (`ViewCollected`), and a publication closes the
  interval (`ShownOk`). `SortedIs` shows that the records of a map have all its ids and
  no other, so that a merge has those of both sides (`MergedIs`) and decoding drops
  none (`UnmarshaledIs`). `OptionsAssumption` says that names are numbers above 0, that
  the skills `New` starts from are normalized, as `New` makes them (`adapter.go:270`),
  and that the ids of the curated entries are finitely many numbers.

TLC checked each inductive invariant on the instance of the run before it was
proved: `StateInv` in the 1,269,278 states of `sessions`, `PipesInv` in the 400,247 of
`scripts`, `HttpInv` in the 180,101 of `http`, `FilesInv`, `TraceInv` and `MoveInv` in the 84,975 of `files`,
`AdapterInv` in the 1,526,556 of `reference`, `WordsInv`, `ExpansionInv` and `FindInv` in
the 969 of `dispatch`.

Only model-checked:

- The liveness properties `CancelEnds`, `ControlReturns`, `Terminates`, `Answered`: liveness
  under fairness is out of the prover's reach.
- `ParsesGrammar`, `WordsReadAlike`: the operators of the parser are recursive, and a
  proof would be an induction over the text.
- `LookingAgrees` and `RecursionTrue`, the half of `ListingsTrue` about `ls -R`: the ways
  to look at the tree build their answers with folds, and the two are true of the layout
  of the runs, not of every layout. A mount inside a zone makes a directory of the zone
  a directory towards a mount, in which find sees the files of mounts only; a tree deeper
  than `Depth` is not listed to its end by the model. `RowsHold` proves the other half.

## Plan

The session manager and the prepared operations came first, as the state that
goroutines share; then the script runner, which all commands go through; then the
parser, dispatch, the virtual tree with its builtins, the HTTP service and the
reference adapter. What is left, in this order:

1. Two sessions on one reference adapter, with larger bounds than a run of a few
   minutes allows; workflows with evidence matched by prefixes.
2. The resource-set adapter, as a third instance of what the session manager assumes
   of its adapters.

## Not modelled

The text builtins (grep, sed, sort, json, frontmatter and the like) are pure functions
on text that unit tests reach well. Option composition (`pkg/fs`, `pkg/sh`,
`pkg/service`), the static mounts, the resource-set adapter, the TUI, flag parsing and
the benchmarks hold no state of interest to a model. A failing stage's result carries
the stderr of the stages before it, which is not cut again (`script_runner.go:115`),
so a result may be longer than `MaxOutputBytes`; no property says otherwise. touch
asks whether a file exists and then writes an empty one (`op_touch.go:61`); another
execution may write it in between, in the code and in the model, and no lock is
promised to two executions of one engine. Permissions of the host, special files and
links to links are left out of the trees; of a link that names no file the check of
the existing prefix is modelled. Methods of HTTP requests, and with them status 405,
are left out. A panic inside a command, which would leave `activeExecution` set
(`session_manager.go:267`), is not modelled: which commands can panic is not known
here. The filesystem is not part of the session model, so a working directory that
has been removed, after which a session cannot be resumed (`session_manager.go:356`),
appears only as a failing `New`.
