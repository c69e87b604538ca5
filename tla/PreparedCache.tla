--------------------------- MODULE PreparedCache ---------------------------
(***************************************************************************)
(* One Engine that several goroutines call: pkg/engine/orchestrator.go     *)
(* (ExecuteResult, PrepareOps and the one-entry cache of prepared          *)
(* operations) and pkg/engine/path_resolution.go (the working directory a  *)
(* preparation owns).  pkg/service.ExecutorService and pkg/sh.Runtime call *)
(* their engine this way; a runtime stack keeps one preparation instead.   *)
(*                                                                         *)
(* PrepareOps closes the callbacks it wraps over a workingDirState.  The   *)
(* cache hands the same preparation, and so the same working directory, to *)
(* every execution whose operations have the key of the cached entry; each *)
(* execution resets the directory before it starts its script.  A script   *)
(* is a sequence of commands that resolve paths and of cd commands.  The   *)
(* directories that exist do not change.                                   *)
(***************************************************************************)
EXTENDS Naturals, Sequences, SequencesExt

CONSTANTS
    Clients,     \* goroutines
    Bases,       \* identities of the callbacks and settings that are in the key
    Extras,      \* identities of the callbacks that are not: ListEntries,
                 \* EnumeratePaths, ReadMany, SearchContent, ApplyMutations
    Names,       \* path segments
    Dirs,        \* the directories that exist, as sequences of segments
    Starts,      \* what callers pass as Ops.WorkingDir, resolved against the root
    Targets,     \* paths that scripts name
    MaxCalls,    \* bound: executions in all
    MaxSteps     \* bound: commands of one script

Root == << >>

ASSUME CacheAssumption ==
    /\ Dirs \subseteq Seq(Names) /\ Root \in Dirs
    /\ Starts \subseteq Seq(Names)
    /\ Targets \subseteq [rooted : BOOLEAN, up : BOOLEAN, names : Seq(Names)]
    /\ MaxCalls \in Nat /\ MaxSteps \in Nat

VARIABLES
    cacheValid, cacheKey, cacheResult,   \* e.cacheValid, e.cacheKey, e.cacheResult
    prepared,    \* what each preparation was compiled from, in order of PrepareOps
    cwd,         \* per preparation: workingDirState.cwd
    calls,       \* executions started
    pc, ops,     \* per client: where it is, and the Ops it passed
    using,       \* per client: the preparation its execution runs on
    target,      \* per client: the directory a cd is about to set
    steps,       \* per client: commands its script has run
    home,        \* ghost, per client: the directory its own script is in
    seen, meant  \* ghost, per client: what its last path resolved to, and what
                 \* it resolves to in the script's own directory

cache   == <<cacheValid, cacheKey, cacheResult>>
engine  == <<prepared, cwd>>
script  == <<target, steps, home, seen, meant>>
vars    == <<cache, engine, calls, pc, ops, using, script>>
-----------------------------------------------------------------------------
\* contract.Ops: what is in the key, what is not, the working directory asked
\* for, and whether it comes without aliases, environment, rc files and mounts.
Ops == [base : Bases, extra : Extras, start : Starts, plain : BOOLEAN]

Keys == [base : Bases, start : Starts]

\* buildPreparedCacheKey, when it returns true.
Key(o) == [base |-> o.base, start |-> o.start]

\* Broken: bootstrap state does not keep operations out of the cache.
Broken_Cacheable(o) == TRUE

\* buildPreparedCacheKey returns false for operations with bootstrap state.
Cacheable(o) == o.plain

\* Broken: the entry is served whatever its key.
Broken_CacheHolds(o) == cacheValid

\* loadPreparedFromCache finds the entry.
CacheHolds(o) == cacheValid /\ cacheKey = Key(o)

Locations == {"idle", "lookup", "prepare", "resetHit", "resetNew", "store",
              "run", "cd"}

\* The executions that have a preparation, and those past their reset.
Holding == {c \in Clients : pc[c] \in {"resetHit", "resetNew", "store", "run", "cd"}}
Scripting == {c \in Clients : pc[c] \in {"run", "cd"}}

Parent(dir) == IF dir = Root THEN Root ELSE Front(dir)

\* resolvePath: an absolute path stands, a relative one is joined to the
\* working directory and cleaned ("..", at most once here, goes up).
Resolve(dir, t) ==
    IF t.rooted THEN t.names
    ELSE (IF t.up THEN Parent(dir) ELSE dir) \o t.names

TypeOK ==
    /\ cacheValid \in BOOLEAN
    /\ cacheKey \in Keys \cup {<< >>}
    /\ cacheResult \in 0 .. Len(prepared)
    /\ prepared \in Seq(Ops)
    /\ cwd \in Seq(Seq(Names)) /\ Len(cwd) = Len(prepared)
    /\ calls \in Nat
    /\ pc \in [Clients -> Locations]
    /\ ops \in [Clients -> Ops \cup {<< >>}]
    /\ using \in [Clients -> 0 .. Len(prepared)]
    /\ target \in [Clients -> Seq(Names)]
    /\ steps \in [Clients -> Nat]
    /\ home \in [Clients -> Seq(Names)]
    /\ seen \in [Clients -> Seq(Names)] /\ meant \in [Clients -> Seq(Names)]
    /\ \A c \in Clients : pc[c] # "idle" => ops[c] \in Ops
    /\ \A c \in Holding : using[c] \in 1 .. Len(prepared)
    /\ cacheValid => cacheResult \in 1 .. Len(prepared)

\* New: an empty cache.
Init ==
    /\ cacheValid = FALSE /\ cacheKey = << >> /\ cacheResult = 0
    /\ prepared = << >> /\ cwd = << >>
    /\ calls = 0
    /\ pc = [c \in Clients |-> "idle"]
    /\ ops = [c \in Clients |-> << >>]
    /\ using = [c \in Clients |-> 0]
    /\ target = [c \in Clients |-> Root]
    /\ steps = [c \in Clients |-> 0]
    /\ home = [c \in Clients |-> Root]
    /\ seen = [c \in Clients |-> Root]
    /\ meant = [c \in Clients |-> Root]
-----------------------------------------------------------------------------
Goto(c, where) == pc' = [pc EXCEPT ![c] = where]

\* ExecuteResult begins: operations without a key skip the cache.
Execute(c, o) ==
    /\ pc[c] = "idle" /\ calls < MaxCalls
    /\ calls' = calls + 1
    /\ ops' = [ops EXCEPT ![c] = o]
    /\ steps' = [steps EXCEPT ![c] = 0]
    /\ seen' = [seen EXCEPT ![c] = Root] /\ meant' = [meant EXCEPT ![c] = Root]
    /\ Goto(c, IF Cacheable(o) THEN "lookup" ELSE "prepare")
    /\ UNCHANGED <<cache, engine, using, target, home>>

\* loadPreparedFromCache, under cacheMu held for reading.
LoadHit(c) ==
    /\ pc[c] = "lookup" /\ CacheHolds(ops[c])
    /\ using' = [using EXCEPT ![c] = cacheResult]
    /\ Goto(c, "resetHit")
    /\ UNCHANGED <<cache, engine, calls, ops, script>>

LoadMiss(c) ==
    /\ pc[c] = "lookup" /\ ~CacheHolds(ops[c])
    /\ Goto(c, "prepare")
    /\ UNCHANGED <<cache, engine, calls, ops, using, script>>

\* PrepareOps: the callbacks are closed over a new working directory, which
\* must exist (resolveInitialWorkingDir).
Prepare(c) ==
    /\ pc[c] = "prepare" /\ ops[c].start \in Dirs
    /\ prepared' = Append(prepared, ops[c])
    /\ cwd' = Append(cwd, ops[c].start)
    /\ using' = [using EXCEPT ![c] = Len(prepared) + 1]
    /\ Goto(c, "resetNew")
    /\ UNCHANGED <<cache, calls, ops, script>>

\* PrepareOps fails: no such working directory, or, for operations with
\* bootstrap state, a mount point or an rc file that it refuses.
PrepareFails(c) ==
    /\ pc[c] = "prepare" /\ (ops[c].start \notin Dirs \/ ~ops[c].plain)
    /\ Goto(c, "idle")
    /\ UNCHANGED <<cache, engine, calls, ops, using, script>>

\* workingDirState.Set(initialWorkingDir).
ResetDir(p) == cwd' = [cwd EXCEPT ![p] = prepared[p].start]

\* ResetMutableState, then the script or, after a miss, the store.
ResetMutableState(c) ==
    /\ pc[c] \in {"resetHit", "resetNew"}
    /\ ResetDir(using[c])
    /\ home' = [home EXCEPT ![c] = prepared[using[c]].start]
    /\ Goto(c, IF pc[c] = "resetNew" /\ Cacheable(ops[c]) THEN "store" ELSE "run")
    /\ UNCHANGED <<cache, prepared, calls, ops, using, target, steps, seen, meant>>

\* storePreparedInCache, under cacheMu held for writing.
Store(c) ==
    /\ pc[c] = "store"
    /\ cacheKey' = Key(ops[c]) /\ cacheResult' = using[c] /\ cacheValid' = TRUE
    /\ Goto(c, "run")
    /\ UNCHANGED <<engine, calls, ops, using, script>>
-----------------------------------------------------------------------------
\* The script names path t: what the engine makes of it, and what it is from
\* where the script itself went.
Name(c, t) ==
    /\ pc[c] = "run" /\ steps[c] < MaxSteps
    /\ steps' = [steps EXCEPT ![c] = @ + 1]
    /\ seen' = [seen EXCEPT ![c] = Resolve(cwd[using[c]], t)]
    /\ meant' = [meant EXCEPT ![c] = Resolve(home[c], t)]

\* A command other than cd uses a path.
UsePath(c, t) ==
    /\ Name(c, t)
    /\ UNCHANGED <<cache, engine, calls, pc, ops, using, target, home>>

\* ChangeWorkingDir has resolved its target, to a directory (the directory is
\* set once IsDirPath has answered) ...
ChangeDir(c, t) ==
    /\ Name(c, t)
    /\ Resolve(cwd[using[c]], t) \in Dirs
    /\ target' = [target EXCEPT ![c] = Resolve(cwd[using[c]], t)]
    /\ Goto(c, "cd")
    /\ UNCHANGED <<cache, engine, calls, ops, using, home>>

\* ... or to none, and leaves the directory alone.
ChangeDirRefused(c, t) ==
    /\ Name(c, t)
    /\ Resolve(cwd[using[c]], t) \notin Dirs
    /\ UNCHANGED <<cache, engine, calls, pc, ops, using, target, home>>

\* workingDirState.Set.
SetDir(c) ==
    /\ pc[c] = "cd"
    /\ cwd' = [cwd EXCEPT ![using[c]] = target[c]]
    /\ home' = [home EXCEPT ![c] = target[c]]
    /\ Goto(c, "run")
    /\ UNCHANGED <<cache, prepared, calls, ops, using, target, steps, seen, meant>>

Finish(c) ==
    /\ pc[c] = "run"
    /\ Goto(c, "idle")
    /\ UNCHANGED <<cache, engine, calls, ops, using, script>>

\* Every execution that was allowed has ended.
Stop ==
    /\ calls = MaxCalls /\ \A c \in Clients : pc[c] = "idle"
    /\ UNCHANGED vars

Next ==
    \/ \E c \in Clients :
          \/ \E o \in Ops : Execute(c, o)
          \/ LoadHit(c) \/ LoadMiss(c)
          \/ Prepare(c) \/ PrepareFails(c)
          \/ ResetMutableState(c) \/ Store(c)
          \/ \E t \in Targets : UsePath(c, t) \/ ChangeDir(c, t) \/ ChangeDirRefused(c, t)
          \/ SetDir(c) \/ Finish(c)
    \/ Stop

Spec == Init /\ [][Next]_vars
-----------------------------------------------------------------------------
\* An execution runs on a preparation made from operations with the key of its
\* own, whoever prepared it and whatever was cached in between: the key and the
\* result are read together, and stored together, under cacheMu.
KeyFaithful ==
    \A c \in Holding : Key(prepared[using[c]]) = Key(ops[c])

\* Operations with aliases, environment, rc files or mounts are compiled for one
\* execution only: it runs on exactly what it passed, and its paths resolve in
\* its own directory however many executions run beside it.
BootstrapNotShared ==
    \A c \in Holding :
        ~ops[c].plain => prepared[using[c]] = ops[c] /\ seen[c] = meant[c]

\* Paths resolve in the directory the script itself is in (README.md, "cwd is
\* session-local").  One caller at a time: the reset undoes what the execution
\* before did.  Several callers: refuted, a preparation has one directory for
\* all of them.
OwnDirectory == \A c \in Scripting : seen[c] = meant[c]
=============================================================================
