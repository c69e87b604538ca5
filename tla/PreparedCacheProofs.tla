------------------------ MODULE PreparedCacheProofs ------------------------
(***************************************************************************)
(* Theorems about the prepared-operations cache: the state is well-typed,  *)
(* an execution runs on a preparation with the key of its own operations,  *)
(* and operations with bootstrap state are compiled for one execution.     *)
(***************************************************************************)
EXTENDS PreparedCache, SequenceTheorems, TLAPS

\* The directory that a path resolves to is a sequence of segments.
LEMMA ResolveType ==
    ASSUME NEW dir \in Seq(Names), NEW t \in Targets
    PROVE  Resolve(dir, t) \in Seq(Names)
<1>1. Parent(dir) \in Seq(Names)
  <2>1. CASE dir = Root
    BY <2>1 DEF Parent
  <2>2. CASE dir # Root
    <3>1. Len(dir) \in Nat /\ \A i \in 1 .. Len(dir) - 1 : dir[i] \in Names
      BY LenProperties, ElementOfSeq
    <3>2. SubSeq(dir, 1, Len(dir) - 1) \in Seq(Names)
      BY <3>1, SubSeqProperties
    <3> QED  BY <2>2, <3>2 DEF Parent, Front
  <2> QED  BY <2>1, <2>2
<1>2. t.names \in Seq(Names)
  BY CacheAssumption
<1>3. dir \o t.names \in Seq(Names) /\ Parent(dir) \o t.names \in Seq(Names)
  BY <1>1, <1>2, ConcatProperties
<1> QED  BY <1>2, <1>3 DEF Resolve

\* The directories and the starts are sequences of segments.
LEMMA DirTypes ==
    /\ \A d \in Dirs : d \in Seq(Names)
    /\ Root \in Seq(Names)
    /\ \A o \in Ops : /\ o.start \in Seq(Names)
                      /\ Key(o) \in Keys
  BY CacheAssumption DEF Ops, Key, Keys

\* A state of the right types stays one when a preparation is appended.
LEMMA PrepareType ==
    ASSUME TypeOK, NEW c \in Clients, Prepare(c)
    PROVE  /\ prepared' \in Seq(Ops) /\ cwd' \in Seq(Seq(Names))
           /\ Len(prepared') = Len(prepared) + 1 /\ Len(cwd') = Len(prepared')
           /\ \A p \in 1 .. Len(prepared) : prepared'[p] = prepared[p] /\ cwd'[p] = cwd[p]
           /\ prepared'[Len(prepared) + 1] = ops[c]
           /\ cwd'[Len(prepared) + 1] = ops[c].start
           /\ Len(prepared) \in Nat
<1>1. ops[c] \in Ops /\ prepared \in Seq(Ops) /\ cwd \in Seq(Seq(Names))
      /\ Len(cwd) = Len(prepared)
  BY DEF TypeOK, Prepare
<1>2. ops[c].start \in Seq(Names)
  BY <1>1, DirTypes
<1>3. prepared' = Append(prepared, ops[c]) /\ cwd' = Append(cwd, ops[c].start)
  BY DEF Prepare
<1> QED  BY <1>1, <1>2, <1>3, AppendProperties, LenProperties

\* A state of the right types stays one when a working directory is set.
LEMMA SetType ==
    ASSUME TypeOK, NEW p \in 1 .. Len(prepared), NEW d \in Seq(Names),
           cwd' = [cwd EXCEPT ![p] = d]
    PROVE  /\ cwd' \in Seq(Seq(Names)) /\ Len(cwd') = Len(prepared)
           /\ cwd'[p] = d
           /\ \A q \in 1 .. Len(prepared) : q # p => cwd'[q] = cwd[q]
<1>1. cwd \in Seq(Seq(Names)) /\ Len(cwd) = Len(prepared)
  BY DEF TypeOK
<1> QED  BY <1>1, ExceptSeq
-----------------------------------------------------------------------------
\* TypeOK holds at first.
LEMMA InitType == Init => TypeOK
<1> SUFFICES ASSUME Init PROVE TypeOK
  OBVIOUS
<1>1. Root \in Seq(Names) /\ << >> \in Seq(Ops) /\ << >> \in Seq(Seq(Names)) /\ Len(<< >>) = 0
  BY EmptySeq DEF Root
<1>2. Len(prepared) = 0 /\ Len(cwd) = 0 /\ prepared \in Seq(Ops) /\ cwd \in Seq(Seq(Names))
  BY <1>1 DEF Init
<1>3. /\ \A c \in Clients : pc[c] = "idle"
      /\ pc \in [Clients -> Locations]
  BY DEF Init, Locations
<1>4. /\ ops \in [Clients -> Ops \cup {<< >>}] /\ using \in [Clients -> 0 .. 0]
      /\ target \in [Clients -> Seq(Names)] /\ home \in [Clients -> Seq(Names)]
      /\ seen \in [Clients -> Seq(Names)] /\ meant \in [Clients -> Seq(Names)]
      /\ steps \in [Clients -> Nat] /\ calls \in Nat
  BY <1>1 DEF Init
<1>5. cacheValid \in BOOLEAN /\ ~cacheValid /\ cacheKey \in Keys \cup {<< >>} /\ cacheResult = 0
  BY DEF Init
<1>6. 0 .. Len(prepared) = 0 .. 0 /\ Holding = {} /\ 0 \in 0 .. Len(prepared)
  BY <1>2, <1>3 DEF Holding
<1> QED  BY <1>2, <1>3, <1>4, <1>5, <1>6 DEF TypeOK

\* Every step keeps the types.
LEMMA NextType == TypeOK /\ [Next]_vars => TypeOK'
<1> SUFFICES ASSUME TypeOK, [Next]_vars PROVE TypeOK'
  OBVIOUS
<1>0. Len(prepared) \in Nat /\ Root \in Seq(Names)
  BY LenProperties, DirTypes DEF TypeOK
<1>1. ASSUME NEW c \in Clients, NEW o \in Ops, Execute(c, o) PROVE TypeOK'
  BY <1>0, <1>1 DEF Execute, Goto, TypeOK, Holding, Locations, cache, engine
<1>2. ASSUME NEW c \in Clients, LoadHit(c) PROVE TypeOK'
  BY <1>0, <1>2 DEF LoadHit, CacheHolds, Goto, TypeOK, Holding, Locations, cache, engine, script
<1>3. ASSUME NEW c \in Clients, LoadMiss(c) PROVE TypeOK'
  BY <1>0, <1>3 DEF LoadMiss, Goto, TypeOK, Holding, Locations, cache, engine, script
<1>4. ASSUME NEW c \in Clients, Prepare(c) PROVE TypeOK'
  <2>1. prepared' \in Seq(Ops) /\ cwd' \in Seq(Seq(Names)) /\ Len(prepared') = Len(prepared) + 1
        /\ Len(cwd') = Len(prepared')
    BY <1>4, PrepareType
  <2>2. using' \in [Clients -> 0 .. Len(prepared')]
        /\ using'[c] = Len(prepared') /\ \A d \in Clients \ {c} : using'[d] = using[d]
    BY <1>0, <1>4, <2>1 DEF Prepare, TypeOK
  <2>3. pc' \in [Clients -> Locations] /\ \A d \in Clients \ {c} : pc'[d] = pc[d]
    BY <1>4 DEF Prepare, Goto, TypeOK, Locations
  <2>4. \A d \in Clients : /\ pc'[d] # "idle" => ops'[d] \in Ops
                           /\ d \in Holding' => using'[d] \in 1 .. Len(prepared')
    BY <1>0, <1>4, <2>1, <2>2, <2>3 DEF Prepare, TypeOK, Holding
  <2> QED  BY <1>0, <1>4, <2>1, <2>2, <2>3, <2>4 DEF Prepare, TypeOK, cache, script, Holding
<1>5. ASSUME NEW c \in Clients, PrepareFails(c) PROVE TypeOK'
  BY <1>0, <1>5 DEF PrepareFails, Goto, TypeOK, Holding, Locations, cache, engine, script
<1>6. ASSUME NEW c \in Clients, ResetMutableState(c) PROVE TypeOK'
  <2>1. using[c] \in 1 .. Len(prepared) /\ prepared[using[c]] \in Ops
    BY <1>6, ElementOfSeq DEF ResetMutableState, TypeOK, Holding
  <2>2. prepared[using[c]].start \in Seq(Names)
    BY <2>1, DirTypes
  <2>3. cwd' \in Seq(Seq(Names)) /\ Len(cwd') = Len(prepared)
    BY <1>6, <2>1, <2>2, SetType DEF ResetMutableState, ResetDir
  <2> QED  BY <1>0, <1>6, <2>2, <2>3
           DEF ResetMutableState, Goto, TypeOK, Holding, Locations, cache
<1>7. ASSUME NEW c \in Clients, Store(c) PROVE TypeOK'
  <2>1. using[c] \in 1 .. Len(prepared) /\ Key(ops[c]) \in Keys
    BY <1>7, DirTypes DEF Store, TypeOK, Holding
  <2> QED  BY <1>0, <1>7, <2>1 DEF Store, Goto, TypeOK, Holding, Locations, engine, script
<1>8. ASSUME NEW c \in Clients, NEW t \in Targets, Name(c, t)
      PROVE  /\ seen' \in [Clients -> Seq(Names)] /\ meant' \in [Clients -> Seq(Names)]
             /\ steps' \in [Clients -> Nat]
             /\ Resolve(cwd[using[c]], t) \in Seq(Names)
  <2>1. using[c] \in 1 .. Len(cwd) /\ cwd \in Seq(Seq(Names))
    BY <1>8 DEF Name, TypeOK, Holding
  <2>2. cwd[using[c]] \in Seq(Names) /\ home[c] \in Seq(Names)
    BY <2>1, ElementOfSeq DEF TypeOK
  <2>3. Resolve(cwd[using[c]], t) \in Seq(Names) /\ Resolve(home[c], t) \in Seq(Names)
    BY <2>2, ResolveType
  <2> QED  BY <1>8, <2>3 DEF Name, TypeOK
<1>9. ASSUME NEW c \in Clients, NEW t \in Targets, UsePath(c, t) PROVE TypeOK'
  <2>1. Name(c, t)
    BY <1>9 DEF UsePath
  <2> QED  BY <1>8, <1>9, <2>1 DEF UsePath, TypeOK, Holding, cache, engine
<1>10. ASSUME NEW c \in Clients, NEW t \in Targets, ChangeDir(c, t) PROVE TypeOK'
  <2>1. Name(c, t) /\ pc[c] = "run"
    BY <1>10 DEF ChangeDir, Name
  <2> QED  BY <1>8, <1>10, <2>1 DEF ChangeDir, Goto, TypeOK, Holding, Locations, cache, engine
<1>11. ASSUME NEW c \in Clients, NEW t \in Targets, ChangeDirRefused(c, t) PROVE TypeOK'
  <2>1. Name(c, t)
    BY <1>11 DEF ChangeDirRefused
  <2> QED  BY <1>8, <1>11, <2>1 DEF ChangeDirRefused, TypeOK, Holding, cache, engine
<1>12. ASSUME NEW c \in Clients, SetDir(c) PROVE TypeOK'
  <2>1. using[c] \in 1 .. Len(prepared) /\ target[c] \in Seq(Names)
    BY <1>12 DEF SetDir, TypeOK, Holding
  <2>2. cwd' \in Seq(Seq(Names)) /\ Len(cwd') = Len(prepared)
    BY <1>12, <2>1, SetType DEF SetDir
  <2> QED  BY <1>0, <1>12, <2>1, <2>2 DEF SetDir, Goto, TypeOK, Holding, Locations, cache
<1>13. ASSUME NEW c \in Clients, Finish(c) PROVE TypeOK'
  BY <1>0, <1>13 DEF Finish, Goto, TypeOK, Holding, Locations, cache, engine, script
<1>14. CASE UNCHANGED vars
  BY <1>14 DEF vars, cache, engine, script, TypeOK, Holding
<1> QED
  BY <1>1, <1>2, <1>3, <1>4, <1>5, <1>6, <1>7, <1>9, <1>10, <1>11, <1>12, <1>13, <1>14
  DEF Next, Stop

\* The state of an engine is well-typed, whatever its callers pass and however
\* many they are.
THEOREM CacheTyping == Spec => []TypeOK
  BY InitType, NextType, PTL DEF Spec
-----------------------------------------------------------------------------
(***************************************************************************)
(* KeyFaithful: inductive with the key of the entry.                       *)
(***************************************************************************)

\* The entry's key is the key of the operations that the entry is made from.
Keyed == cacheValid => Key(prepared[cacheResult]) = cacheKey

KeyInv == TypeOK /\ Keyed /\ KeyFaithful

\* A step that neither appends a preparation nor gives a client one, and
\* leaves the entry alone.
LEMMA KeyUnmoved ==
    ASSUME KeyInv, UNCHANGED <<cache, prepared, using>>,
           \A d \in Clients : d \in Holding' => d \in Holding /\ ops'[d] = ops[d]
    PROVE  Keyed' /\ KeyFaithful'
  BY DEF KeyInv, Keyed, KeyFaithful, Key, Holding, cache

\* Every step keeps the keys.
LEMMA NextKey == KeyInv /\ [Next]_vars => KeyInv'
<1> SUFFICES ASSUME KeyInv, [Next]_vars PROVE KeyInv'
  OBVIOUS
<1>0. TypeOK /\ TypeOK'
  BY NextType DEF KeyInv
<1>1. ASSUME NEW c \in Clients, NEW o \in Ops, Execute(c, o) PROVE Keyed' /\ KeyFaithful'
  <2>1. \A d \in Clients : d \in Holding' => d \in Holding /\ ops'[d] = ops[d]
    BY <1>0, <1>1 DEF Execute, Goto, TypeOK, Holding
  <2> QED  BY <1>1, <2>1, KeyUnmoved DEF Execute, engine
<1>2. ASSUME NEW c \in Clients, LoadHit(c) PROVE Keyed' /\ KeyFaithful'
  <2>1. /\ using'[c] = cacheResult /\ Key(prepared[cacheResult]) = Key(ops[c])
        /\ \A d \in Clients \ {c} : using'[d] = using[d] /\ pc'[d] = pc[d]
    BY <1>0, <1>2 DEF LoadHit, CacheHolds, KeyInv, Keyed, TypeOK, Goto
  <2> QED
    BY <1>2, <2>1 DEF LoadHit, KeyInv, Keyed, KeyFaithful, Holding, Key, cache, engine
<1>3. ASSUME NEW c \in Clients, Prepare(c) PROVE Keyed' /\ KeyFaithful'
  <2>1. /\ \A p \in 1 .. Len(prepared) : prepared'[p] = prepared[p]
        /\ prepared'[Len(prepared) + 1] = ops[c]
    BY <1>0, <1>3, PrepareType
  <2>2. /\ using'[c] = Len(prepared) + 1
        /\ \A d \in Clients \ {c} : using'[d] = using[d] /\ pc'[d] = pc[d]
    BY <1>0, <1>3 DEF Prepare, TypeOK, Goto
  <2>3. Keyed'
    BY <1>0, <1>3, <2>1 DEF Prepare, KeyInv, Keyed, TypeOK, Key, cache
  <2>4. ASSUME NEW d \in Holding' PROVE Key(prepared'[using'[d]]) = Key(ops'[d])
    BY <1>0, <1>3, <2>1, <2>2
    DEF Prepare, KeyInv, KeyFaithful, TypeOK, Key, Holding
  <2> QED  BY <2>3, <2>4 DEF KeyFaithful, Key
<1>4. ASSUME NEW c \in Clients, Store(c) PROVE Keyed' /\ KeyFaithful'
  <2>1. Key(prepared[using[c]]) = Key(ops[c])
    BY <1>4 DEF Store, KeyInv, KeyFaithful, Holding
  <2>2. \A d \in Clients : d \in Holding' => d \in Holding
    BY <1>0, <1>4 DEF Store, Goto, TypeOK, Holding
  <2> QED
    BY <1>4, <2>1, <2>2
    DEF Store, KeyInv, Keyed, KeyFaithful, Holding, Key, engine
<1>5. ASSUME NEW c \in Clients,
             \/ LoadMiss(c) \/ PrepareFails(c) \/ ResetMutableState(c) \/ SetDir(c) \/ Finish(c)
             \/ \E t \in Targets : UsePath(c, t) \/ ChangeDir(c, t) \/ ChangeDirRefused(c, t)
      PROVE  Keyed' /\ KeyFaithful'
  <2>1. /\ UNCHANGED <<cache, prepared, using, ops>>
        /\ \A d \in Clients : d \in Holding' => d \in Holding
    BY <1>0, <1>5
    DEF LoadMiss, PrepareFails, ResetMutableState, SetDir, Finish, UsePath, ChangeDir,
        ChangeDirRefused, Name, Goto, TypeOK, Holding, engine
  <2> QED  BY <2>1, KeyUnmoved
<1>6. ASSUME UNCHANGED vars PROVE Keyed' /\ KeyFaithful'
  <2>1. /\ UNCHANGED <<cache, prepared, using>>
        /\ \A d \in Clients : d \in Holding' => d \in Holding /\ ops'[d] = ops[d]
    BY <1>6 DEF vars, engine, Holding
  <2> QED  BY <2>1, KeyUnmoved
<1>7. Keyed' /\ KeyFaithful'
  <2>1. CASE UNCHANGED vars \/ Stop
    BY <2>1, <1>6 DEF Stop
  <2>2. ASSUME NEW c \in Clients, NEW t \in Targets,
               UsePath(c, t) \/ ChangeDir(c, t) \/ ChangeDirRefused(c, t)
        PROVE  Keyed' /\ KeyFaithful'
    BY <2>2, <1>5
  <2>3. ASSUME NEW c \in Clients,
               \/ LoadMiss(c) \/ PrepareFails(c) \/ ResetMutableState(c) \/ SetDir(c) \/ Finish(c)
        PROVE  Keyed' /\ KeyFaithful'
    BY <2>3, <1>5
  <2> QED  BY <2>1, <2>2, <2>3, <1>1, <1>2, <1>3, <1>4 DEF Next
<1> QED  BY <1>0, <1>7 DEF KeyInv

\* An execution runs on a preparation with the key of its own operations,
\* whoever made it: what is read from the cache was stored under that key.
THEOREM CacheKeysHold == Spec => []KeyFaithful
<1>1. Init => KeyInv
  BY InitType DEF Init, KeyInv, Keyed, KeyFaithful, Holding
<1>2. KeyInv => KeyFaithful
  BY DEF KeyInv
<1> QED  BY <1>1, <1>2, NextKey, PTL DEF Spec
-----------------------------------------------------------------------------
(***************************************************************************)
(* BootstrapNotShared: operations with bootstrap state never meet the      *)
(* cache, so nobody else has their preparation.                            *)
(***************************************************************************)

\* What is cached, or on its way to or from the cache, is plain.
CachePlain ==
    /\ cacheValid => prepared[cacheResult].plain
    /\ \A c \in Clients : pc[c] \in {"lookup", "resetHit", "store"} => ops[c].plain
    /\ \A c \in Holding : ops[c].plain => prepared[using[c]].plain

\* An execution of other operations has its preparation for itself, and what
\* the preparation's working directory says is where the script is.
Private ==
    \A c \in Clients : pc[c] # "idle" /\ ~ops[c].plain =>
        /\ seen[c] = meant[c]
        /\ c \in Holding =>
              /\ prepared[using[c]] = ops[c]
              /\ \A d \in Holding \ {c} : using[d] # using[c]
        /\ c \in Scripting => cwd[using[c]] = home[c]

PrivateInv == TypeOK /\ CachePlain /\ Private

\* A step that leaves the preparations, their directories and the cache alone.
LEMMA PrivateUnmoved ==
    ASSUME PrivateInv, UNCHANGED <<cache, prepared, cwd, ops, using, home>>,
           \A d \in Clients : /\ pc'[d] # "idle" => pc[d] # "idle"
                              /\ d \in Holding' => d \in Holding
                              /\ d \in Scripting' => d \in Scripting
                              /\ pc'[d] \in {"lookup", "resetHit", "store"} => pc'[d] = pc[d]
                              /\ ~ops[d].plain /\ seen[d] = meant[d] => seen'[d] = meant'[d]
    PROVE  CachePlain' /\ Private'
  BY DEF PrivateInv, CachePlain, Private, cache, Holding, Scripting

\* Every step keeps bootstrap state private.
LEMMA NextPrivate == PrivateInv /\ [Next]_vars => PrivateInv'
<1> SUFFICES ASSUME PrivateInv, [Next]_vars PROVE PrivateInv'
  OBVIOUS
<1>0. TypeOK /\ TypeOK'
  BY NextType DEF PrivateInv
<1>1. ASSUME NEW c \in Clients, NEW o \in Ops, Execute(c, o) PROVE CachePlain' /\ Private'
  <2>1. /\ pc'[c] = IF o.plain THEN "lookup" ELSE "prepare"
        /\ ops'[c] = o /\ seen'[c] = meant'[c]
        /\ \A d \in Clients \ {c} : /\ pc'[d] = pc[d] /\ ops'[d] = ops[d]
                                    /\ seen'[d] = seen[d] /\ meant'[d] = meant[d]
    BY <1>0, <1>1 DEF Execute, Goto, TypeOK, Cacheable
  <2>2. CachePlain'
    BY <1>1, <2>1 DEF Execute, PrivateInv, CachePlain, Holding, cache, engine
  <2>3. Private'
    BY <1>1, <2>1 DEF Execute, PrivateInv, Private, Holding, Scripting, engine
  <2> QED  BY <2>2, <2>3
<1>2. ASSUME NEW c \in Clients, LoadHit(c) PROVE CachePlain' /\ Private'
  <2>1. /\ using'[c] = cacheResult /\ prepared[cacheResult].plain /\ ops[c].plain
        /\ pc'[c] = "resetHit"
        /\ \A d \in Clients \ {c} : using'[d] = using[d] /\ pc'[d] = pc[d]
    BY <1>0, <1>2 DEF LoadHit, CacheHolds, PrivateInv, CachePlain, TypeOK, Goto
  <2>2. CachePlain'
    BY <1>2, <2>1 DEF LoadHit, PrivateInv, CachePlain, Holding, cache, engine
  <2>3. Private'
    BY <1>2, <2>1 DEF LoadHit, PrivateInv, Private, Holding, Scripting, engine, script
  <2> QED  BY <2>2, <2>3
<1>3. ASSUME NEW c \in Clients, Prepare(c) PROVE CachePlain' /\ Private'
  <2>1. /\ \A p \in 1 .. Len(prepared) : prepared'[p] = prepared[p] /\ cwd'[p] = cwd[p]
        /\ prepared'[Len(prepared) + 1] = ops[c] /\ Len(prepared) \in Nat
    BY <1>0, <1>3, PrepareType
  <2>2. /\ using'[c] = Len(prepared) + 1 /\ pc[c] = "prepare" /\ pc'[c] = "resetNew"
        /\ \A d \in Clients \ {c} : using'[d] = using[d] /\ pc'[d] = pc[d]
    BY <1>0, <1>3 DEF Prepare, TypeOK, Goto
  <2>3. CachePlain'
    BY <1>0, <1>3, <2>1, <2>2 DEF Prepare, PrivateInv, CachePlain, TypeOK, Holding, cache
  <2>4. \A d \in Holding : using[d] \in 1 .. Len(prepared)
    BY <1>0 DEF TypeOK
  <2>5. ASSUME NEW d \in Clients, pc'[d] # "idle", ~ops'[d].plain
        PROVE  /\ seen'[d] = meant'[d]
               /\ d \in Holding' => prepared'[using'[d]] = ops'[d]
               /\ d \in Scripting' => cwd'[using'[d]] = home'[d]
    <3>1. CASE d = c
      BY <1>3, <2>1, <2>2, <2>5, <3>1 DEF Prepare, PrivateInv, Private, Scripting, script
    <3>2. CASE d # c
      <4>1. /\ seen[d] = meant[d]
            /\ d \in Holding => prepared[using[d]] = ops[d] /\ using[d] \in 1 .. Len(prepared)
            /\ d \in Scripting => d \in Holding /\ cwd[using[d]] = home[d]
        BY <1>3, <2>2, <2>4, <2>5, <3>2 DEF Prepare, PrivateInv, Private, Holding, Scripting
      <4> QED
        BY <1>3, <2>1, <2>2, <3>2, <4>1 DEF Prepare, Holding, Scripting, script
    <3> QED  BY <3>1, <3>2
  <2>6. ASSUME NEW d \in Holding', NEW k \in Holding' \ {d}, ~ops'[d].plain
        PROVE  using'[k] # using'[d]
    BY <1>3, <2>1, <2>2, <2>4, <2>6 DEF Prepare, PrivateInv, Private, Holding, script
  <2>7. Private'
    BY <2>5, <2>6 DEF Private, Holding
  <2> QED  BY <2>3, <2>7
<1>4. ASSUME NEW c \in Clients, ResetMutableState(c) PROVE CachePlain' /\ Private'
  <2>1. using[c] \in 1 .. Len(prepared) /\ prepared[using[c]] \in Ops
    BY <1>0, <1>4, ElementOfSeq DEF ResetMutableState, TypeOK, Holding
  <2>2. prepared[using[c]].start \in Seq(Names)
    BY <2>1, DirTypes
  <2>3. /\ cwd'[using[c]] = prepared[using[c]].start
        /\ \A q \in 1 .. Len(prepared) : q # using[c] => cwd'[q] = cwd[q]
    BY <1>0, <1>4, <2>1, <2>2, SetType DEF ResetMutableState, ResetDir
  <2>4. /\ home'[c] = prepared[using[c]].start /\ pc[c] \in {"resetHit", "resetNew"}
        /\ pc'[c] \in {"store", "run"} /\ (pc'[c] = "store" => ops[c].plain)
        /\ \A d \in Clients \ {c} : home'[d] = home[d] /\ pc'[d] = pc[d]
    BY <1>0, <1>4 DEF ResetMutableState, TypeOK, Goto, Cacheable
  <2>5. CachePlain'
    BY <1>4, <2>4 DEF ResetMutableState, PrivateInv, CachePlain, Holding, cache
  <2>6. \A d \in Holding : using[d] \in 1 .. Len(prepared)
    BY <1>0 DEF TypeOK
  <2>7. Private'
    BY <1>4, <2>3, <2>4, <2>6 DEF ResetMutableState, PrivateInv, Private, Holding, Scripting
  <2> QED  BY <2>5, <2>7
<1>5. ASSUME NEW c \in Clients, Store(c) PROVE CachePlain' /\ Private'
  <2>1. /\ ops[c].plain /\ pc[c] = "store" /\ pc'[c] = "run"
        /\ \A d \in Clients \ {c} : pc'[d] = pc[d]
    BY <1>0, <1>5 DEF Store, PrivateInv, CachePlain, TypeOK, Goto
  <2>2. prepared[using[c]].plain
    BY <2>1 DEF PrivateInv, CachePlain, Holding
  <2>3. CachePlain'
    BY <1>5, <2>1, <2>2 DEF Store, PrivateInv, CachePlain, Holding, engine
  <2>4. Private'
    BY <1>5, <2>1 DEF Store, PrivateInv, Private, Holding, Scripting, engine, script
  <2> QED  BY <2>3, <2>4
<1>6. ASSUME NEW c \in Clients, SetDir(c) PROVE CachePlain' /\ Private'
  <2>1. using[c] \in 1 .. Len(prepared) /\ target[c] \in Seq(Names)
    BY <1>0, <1>6 DEF SetDir, TypeOK, Holding
  <2>2. /\ cwd'[using[c]] = target[c]
        /\ \A q \in 1 .. Len(prepared) : q # using[c] => cwd'[q] = cwd[q]
    BY <1>0, <1>6, <2>1, SetType DEF SetDir
  <2>3. /\ home'[c] = target[c] /\ pc[c] = "cd" /\ pc'[c] = "run"
        /\ \A d \in Clients \ {c} : home'[d] = home[d] /\ pc'[d] = pc[d]
    BY <1>0, <1>6 DEF SetDir, TypeOK, Goto
  <2>4. CachePlain'
    BY <1>6, <2>3 DEF SetDir, PrivateInv, CachePlain, Holding, cache
  <2>5. \A d \in Holding : using[d] \in 1 .. Len(prepared)
    BY <1>0 DEF TypeOK
  <2>6. Private'
    BY <1>6, <2>2, <2>3, <2>5 DEF SetDir, PrivateInv, Private, Holding, Scripting
  <2> QED  BY <2>4, <2>6
<1>7. ASSUME NEW c \in Clients,
             \/ LoadMiss(c) \/ PrepareFails(c) \/ Finish(c)
             \/ \E t \in Targets : UsePath(c, t) \/ ChangeDir(c, t) \/ ChangeDirRefused(c, t)
      PROVE  CachePlain' /\ Private'
  <2>1. UNCHANGED <<cache, prepared, cwd, ops, using, home>>
    BY <1>7 DEF LoadMiss, PrepareFails, Finish, UsePath, ChangeDir, ChangeDirRefused, engine, script
  <2>2. \A d \in Clients : /\ pc'[d] # "idle" => pc[d] # "idle"
                           /\ d \in Holding' => d \in Holding
                           /\ d \in Scripting' => d \in Scripting
                           /\ pc'[d] \in {"lookup", "resetHit", "store"} => pc'[d] = pc[d]
    BY <1>0, <1>7
    DEF LoadMiss, PrepareFails, Finish, UsePath, ChangeDir, ChangeDirRefused, Name, Goto, TypeOK,
        Holding, Scripting
  <2>3. ASSUME NEW d \in Clients, ~ops[d].plain, seen[d] = meant[d]
        PROVE  seen'[d] = meant'[d]
    <3>1. CASE UNCHANGED <<seen, meant>>
      BY <2>3, <3>1
    <3>2. ASSUME NEW t \in Targets, Name(c, t) PROVE seen'[d] = meant'[d]
      <4>1. cwd[using[c]] = home[c] \/ d # c
        BY <2>3, <3>2 DEF Name, PrivateInv, Private, Scripting
      <4> QED  BY <1>0, <2>3, <3>2, <4>1 DEF Name, TypeOK
    <3> QED
      BY <1>7, <3>1, <3>2
      DEF LoadMiss, PrepareFails, Finish, UsePath, ChangeDir, ChangeDirRefused, script
  <2> QED  BY <2>1, <2>2, <2>3, PrivateUnmoved
<1>8. ASSUME UNCHANGED vars PROVE CachePlain' /\ Private'
  <2>1. UNCHANGED <<cache, prepared, cwd, ops, using, home, pc, seen, meant>>
    BY <1>8 DEF vars, engine, script
  <2>2. Holding' = Holding /\ Scripting' = Scripting
    BY <2>1 DEF Holding, Scripting
  <2> QED  BY <2>1, <2>2, PrivateUnmoved
<1>9. CachePlain' /\ Private'
  <2>1. CASE UNCHANGED vars \/ Stop
    BY <2>1, <1>8 DEF Stop
  <2>2. ASSUME NEW c \in Clients, NEW t \in Targets,
               UsePath(c, t) \/ ChangeDir(c, t) \/ ChangeDirRefused(c, t)
        PROVE  CachePlain' /\ Private'
    BY <2>2, <1>7
  <2>3. ASSUME NEW c \in Clients,
               \/ LoadMiss(c) \/ PrepareFails(c) \/ Finish(c)
        PROVE  CachePlain' /\ Private'
    BY <2>3, <1>7
  <2> QED  BY <2>1, <2>2, <2>3, <1>1, <1>2, <1>3, <1>4, <1>5, <1>6 DEF Next
<1> QED  BY <1>0, <1>9 DEF PrivateInv

\* Operations with aliases, environment, rc files or mounts run on a
\* preparation of their own, in a directory of their own, among any number of
\* executions.
THEOREM BootstrapStaysPrivate == Spec => []BootstrapNotShared
<1>1. Init => PrivateInv
  BY InitType DEF Init, PrivateInv, CachePlain, Private, Holding
<1>2. PrivateInv => BootstrapNotShared
  BY DEF PrivateInv, Private, BootstrapNotShared, TypeOK, Holding
<1> QED  BY <1>1, <1>2, NextPrivate, PTL DEF Spec
-----------------------------------------------------------------------------
(***************************************************************************)
(* OwnDirectory, for a caller that has the engine for itself.              *)
(***************************************************************************)

\* After its reset an execution and the preparation it runs on agree on where
\* it is.
InStep ==
    \A c \in Clients :
        /\ pc[c] # "idle" => seen[c] = meant[c]
        /\ pc[c] \in {"store", "run", "cd"} => cwd[using[c]] = home[c]

SoleInv == TypeOK /\ InStep

\* Every step of a sole caller keeps the two in step.
LEMMA NextInStep ==
    ASSUME NEW c, Clients = {c}, SoleInv, [Next]_vars
    PROVE  SoleInv'
<1>0. TypeOK /\ TypeOK'
  BY NextType DEF SoleInv
<1>1. ASSUME NEW o \in Ops, Execute(c, o) PROVE InStep'
  BY <1>0, <1>1 DEF Execute, Goto, TypeOK, InStep
<1>2. ASSUME LoadHit(c) \/ LoadMiss(c) \/ Prepare(c) \/ PrepareFails(c) PROVE InStep'
  BY <1>0, <1>2 DEF LoadHit, LoadMiss, Prepare, PrepareFails, Goto, TypeOK, SoleInv, InStep, script
<1>3. ASSUME ResetMutableState(c) PROVE InStep'
  <2>1. using[c] \in 1 .. Len(prepared) /\ prepared[using[c]] \in Ops
    BY <1>0, <1>3, ElementOfSeq DEF ResetMutableState, TypeOK, Holding
  <2>2. prepared[using[c]].start \in Seq(Names)
    BY <2>1, DirTypes
  <2>3. cwd'[using[c]] = prepared[using[c]].start
    BY <1>0, <1>3, <2>1, <2>2, SetType DEF ResetMutableState, ResetDir
  <2> QED  BY <1>0, <1>3, <2>3 DEF ResetMutableState, TypeOK, SoleInv, InStep
<1>4. ASSUME Store(c) \/ Finish(c) PROVE InStep'
  BY <1>0, <1>4 DEF Store, Finish, Goto, TypeOK, SoleInv, InStep, engine, script
<1>5. ASSUME NEW t \in Targets, UsePath(c, t) \/ ChangeDir(c, t) \/ ChangeDirRefused(c, t)
      PROVE  InStep'
  <2>1. /\ Name(c, t) /\ UNCHANGED <<cwd, using, home>>
        /\ pc'[c] \in {"run", "cd"}
    BY <1>0, <1>5 DEF UsePath, ChangeDir, ChangeDirRefused, Name, Goto, TypeOK, engine
  <2> QED  BY <1>0, <2>1 DEF Name, TypeOK, SoleInv, InStep
<1>6. ASSUME SetDir(c) PROVE InStep'
  <2>1. using[c] \in 1 .. Len(prepared) /\ target[c] \in Seq(Names)
    BY <1>6, <1>0 DEF SetDir, TypeOK, Holding
  <2>2. cwd'[using[c]] = target[c]
    BY <1>0, <1>6, <2>1, SetType DEF SetDir
  <2> QED  BY <1>0, <1>6, <2>2 DEF SetDir, TypeOK, SoleInv, InStep
<1>7. ASSUME UNCHANGED vars PROVE InStep'
  BY <1>7 DEF vars, engine, script, SoleInv, InStep
<1>8. InStep'
  BY <1>1, <1>2, <1>3, <1>4, <1>5, <1>6, <1>7 DEF Next, Stop
<1> QED  BY <1>0, <1>8 DEF SoleInv

\* One caller at a time: paths resolve in the directory the script is in.  The
\* reset undoes what the last script on the same preparation did.
THEOREM SoleCallerOwnsDirectory ==
    ASSUME NEW CONSTANT c, Clients = {c}
    PROVE  Spec => []OwnDirectory
<1>1. Init => SoleInv
  BY InitType DEF Init, SoleInv, InStep
<1>2. SoleInv /\ [Next]_vars => SoleInv'
  BY NextInStep
<1>3. SoleInv => OwnDirectory
  BY DEF SoleInv, InStep, OwnDirectory, Scripting
<1> QED  BY <1>1, <1>2, <1>3, PTL DEF Spec
=============================================================================
