-------------------------- MODULE ReferenceAdapter --------------------------
(* The reference adapter: documents, resources, skills, curated memory and  *)
(* workflows that a control plane changes, and the projections of them that *)
(* the session hooks build at the same time.                                *)
(*                                                                          *)
(* A change holds a.mu for all it does; a hook takes and releases it once   *)
(* for every view it collects, so changes fall between the views of one     *)
(* projection.  Hooks of one session run one after another, hooks of two    *)
(* sessions at the same time.  A name is a number, whose order is that of   *)
(* the paths; a path is a root and a name; a content is the number of the   *)
(* change that wrote it.                                                    *)
EXTENDS Integers, FiniteSets, FiniteSetsExt, Functions, Sequences, SequencesExt, TLC

CONSTANTS
  Sessions,
  Options,      \* what New is given: documents, resources, skills, curated, workflows
  Changes,      \* the calls of the control plane that are considered
  Traces,       \* the traces an execution may leave
  MaxChanges, MaxHooks

VARIABLES
  entries,                    \* documents and resources
  skills, curated,
  workflows, workflowStatus,
  events,                     \* controlPlaneEvents; controlPlaneSeq is their number
  projectionSeq,
  projectionError,
  build,                      \* the hook each session is in: what it still does, its locals
  phase, kept, shown,         \* each session's life, its opaque state, its projection
  history, hooks              \* ghosts: what the adapter held after each change; the hooks begun

adapter == <<entries, skills, curated, workflows, workflowStatus, events, projectionError>>
vars == <<adapter, projectionSeq, build, phase, kept, shown, history, hooks>>

Namespaces == {"documents", "resources"}
Or(value, default) == IF value = "" THEN default ELSE value
Over(f, g) == [x \in DOMAIN f \cup DOMAIN g |-> IF x \in DOMAIN f THEN f[x] ELSE g[x]]
Put(f, x, v) == Over([y \in {x} |-> v], f)
Without(f, x) == Restrict(f, DOMAIN f \ {x})
Sorted(S) ==
  [i \in 1 .. Cardinality(S) |-> CHOOSE n \in S : Cardinality({m \in S : m <= n}) = i]

----------------------------------------------------------------------------
\* Documents and resources.

NormalizeFreshness(raw) ==
  IF raw \in {"snapshot", "live", "stale", "updated", "generated"} THEN raw ELSE ""
NormalizeMaterialization(raw) == IF raw \in {"partial", "failed"} THEN raw ELSE "materialized"
NormalizeProjectionMetadata(meta, source, freshness) ==
  [source |-> Or(meta.source, source),
   freshness |-> Or(NormalizeFreshness(meta.freshness), freshness),
   materialization |-> NormalizeMaterialization(meta.materialization)]

NewProjectionEntry(content, meta) ==
  [content |-> content, meta |-> NormalizeProjectionMetadata(meta, "control_plane", "updated")]
RefreshProjectionEntry(old, content, meta) ==
  [content |-> content, meta |-> NormalizeProjectionMetadata(meta, old.meta.source, "live")]

\* Stale; what was materialized is partial until it is refreshed.
InvalidateProjectionEntry(old) ==
  [old EXCEPT !.meta.freshness = "stale",
              !.meta.materialization = IF @ = "materialized" THEN "partial" ELSE @]

\* Broken: only what is whole has a file.
Broken_ShouldMaterialize(entry) == entry.meta.materialization = "materialized"

ShouldMaterialize(entry) == entry.meta.materialization # "failed"

ProjectionRecords(held) == {[name |-> n, meta |-> held[n].meta] : n \in DOMAIN held}
Files(held) == {<<n, held[n].content>> : n \in {m \in DOMAIN held : ShouldMaterialize(held[m])}}
SkillFiles(held) == {<<n, held[n].content>> : n \in DOMAIN held}

\* A mount without files is none; documents that are none have one that says so,
\* whatever index was collected before.
NoMount == [index |-> {}, files |-> {}]
EmptyDocument ==
  [name |-> 0, meta |-> [source |-> "adapter_default", freshness |-> "generated",
                         materialization |-> "materialized"]]
KnowledgeMount(held, records) ==
  IF DOMAIN held = {} THEN [index |-> {EmptyDocument}, files |-> {<<0, 0>>}]
  ELSE [index |-> records, files |-> Files(held)]
ResourceMount(held, records) ==
  IF DOMAIN held = {} THEN NoMount ELSE [index |-> records, files |-> Files(held)]
SkillMount(held, records) ==
  IF DOMAIN held = {} THEN NoMount ELSE [index |-> records, files |-> SkillFiles(held)]

----------------------------------------------------------------------------
\* Skills.

Tiers == <<"workspace", "user", "bundled">>
SkillPrecedenceTierWeight(tier) == CHOOSE i \in DOMAIN Tiers : Tiers[i] = tier

\* Without a tier a skill is bundled, and its rank last unless it states one.
NormalizeSkillMetadata(meta) ==
  LET eligibility == IF meta.eligibility \in {"eligible", "ineligible"} THEN meta.eligibility
                     ELSE "unknown"
  IN [source |-> Or(meta.source, "control_plane"),
      freshness |-> Or(NormalizeFreshness(meta.freshness), "updated"),
      eligibility |-> eligibility,
      tier |-> IF meta.tier \in Range(Tiers) THEN meta.tier ELSE "bundled",
      rank |-> IF meta.tier = "" /\ meta.rank <= 0 THEN 100 ELSE Max({0, meta.rank}),
      scope |-> meta.scope,
      selected |-> meta.selected /\ eligibility = "eligible"]
NewSkillEntry(content, meta) == [content |-> content, meta |-> NormalizeSkillMetadata(meta)]
UpdateSkillEntry(old, content) ==
  [old EXCEPT !.content = content, !.meta.source = "control_plane", !.meta.freshness = "updated"]

Eligible(held, n) == held[n].meta.eligibility = "eligible"
SamePrecedence(left, right) == left.tier = right.tier /\ left.rank = right.rank

\* Broken: ranks are compared before tiers.
Broken_Precedes(held, m, n) ==
  LET l == held[m].meta
      r == held[n].meta
  IN \/ l.rank < r.rank
     \/ l.rank = r.rank /\ (\/ SkillPrecedenceTierWeight(l.tier) < SkillPrecedenceTierWeight(r.tier)
                            \/ l.tier = r.tier /\ m < n)

\* What New and the control plane are given: names, none of which is 0, and
\* metadata, of which those that New is given are normalized (adapter.go:270).
SkillFields == {"source", "freshness", "eligibility", "tier", "rank", "scope", "selected"}
NormalizedSkill(entry) ==
  /\ DOMAIN entry = {"content", "meta"} /\ DOMAIN entry.meta = SkillFields
  /\ entry.meta.tier \in Range(Tiers) /\ entry.meta.rank \in Nat
Skilled(held) ==
  DOMAIN held \subseteq Nat \ {0} /\ \A n \in DOMAIN held : NormalizedSkill(held[n])

ASSUME OptionsAssumption ==
  /\ Skilled(Options.skills)
  /\ IsFiniteSet(DOMAIN Options.curated) /\ DOMAIN Options.curated \subseteq Nat
  /\ \A c \in Changes :
       /\ c.op = "upsert_skill" => c.name \in Nat \ {0} /\ c.meta.rank \in Int
       /\ c.op = "upsert_curated" => c.entry.id \in Nat

\* Of two eligible skills the one of the higher tier, then of the lower rank, then
\* the one whose path comes first.
Precedes(held, m, n) ==
  LET l == held[m].meta
      r == held[n].meta
      tiers == SkillPrecedenceTierWeight(l.tier) - SkillPrecedenceTierWeight(r.tier)
  IN \/ tiers < 0
     \/ tiers = 0 /\ l.rank < r.rank
     \/ SamePrecedence(l, r) /\ m < n

\* The eligible skills of a scope and the first of them in this order, or none.
Candidates(held, scope) ==
  {n \in DOMAIN held : held[n].meta.scope = scope /\ Eligible(held, n)}
First(held, names) == CHOOSE m \in names : \A n \in names \ {m} : Precedes(held, m, n)
SelectSkillWinner(held, names) == IF names = {} THEN 0 ELSE First(held, names)

WinnerSelectionReason(held, names, winner) ==
  LET next == SelectSkillWinner(held, names \ {winner})
  IN IF next # 0 /\ SamePrecedence(held[winner].meta, held[next].meta)
     THEN "tie_breaker_path_order" ELSE "highest_precedence"
LoserSelectionReason(held, n, winner) ==
  IF SamePrecedence(held[n].meta, held[winner].meta)
  THEN "tie_breaker_path_order" ELSE "higher_precedence_selected"

\* A skill without a scope competes with none and is selected if it says so.
ExplicitOutcome(meta) ==
  [selected |-> meta.selected, winner |-> 0,
   reason |-> CASE meta.selected -> "explicit_selected"
                [] meta.eligibility = "ineligible" -> "ineligible"
                [] meta.eligibility = "unknown" -> "unknown_eligibility"
                [] OTHER -> "explicit_not_selected"]
DerivedOutcome(held, n) ==
  LET names == Candidates(held, held[n].meta.scope)
      winner == SelectSkillWinner(held, names)
  IN CASE ~Eligible(held, n) -> [selected |-> FALSE, winner |-> 0, reason |-> "ineligible"]
       [] Eligible(held, n) /\ n = winner ->
            [selected |-> TRUE, winner |-> 0, reason |-> WinnerSelectionReason(held, names, n)]
       [] OTHER -> [selected |-> FALSE, winner |-> winner,
                    reason |-> LoserSelectionReason(held, n, winner)]
DeriveSkillSelectionOutcomes(held) ==
  [n \in DOMAIN held |-> IF held[n].meta.scope = "" THEN ExplicitOutcome(held[n].meta)
                         ELSE DerivedOutcome(held, n)]

SkillRecords(held) ==
  LET outcomes == DeriveSkillSelectionOutcomes(held)
  IN {[name |-> n, meta |-> held[n].meta, outcome |-> outcomes[n]] : n \in DOMAIN held}

SkillSelectionScopeForEvent(n, before, after) ==
  IF n \in DOMAIN after THEN after[n].meta.scope ELSE before[n].meta.scope
WinnerForScope(held, scope) ==
  IF scope = "" THEN 0 ELSE SelectSkillWinner(held, Candidates(held, scope))
SelectedIn(held, n) == n \in DOMAIN held /\ DeriveSkillSelectionOutcomes(held)[n].selected

\* The generation from which an event is said to be visible counts the events before it.
ControlPlaneEvent(op, n, before, after) ==
  LET scope == SkillSelectionScopeForEvent(n, before, after)
  IN [seq |-> Len(events) + 1, op |-> op, name |-> n, scope |-> scope,
      visibleFrom |-> projectionSeq + 1 + Len(events),
      selectedBefore |-> SelectedIn(before, n), selectedAfter |-> SelectedIn(after, n),
      winnerBefore |-> WinnerForScope(before, scope),
      winnerAfter |-> WinnerForScope(after, scope),
      reasonAfter |-> IF n \in DOMAIN after THEN DeriveSkillSelectionOutcomes(after)[n].reason
                      ELSE ""]

ControlPlaneEventViews(seen, generation) ==
  [i \in DOMAIN seen |->
     [event |-> seen[i],
      visibility |-> IF generation < seen[i].visibleFrom THEN "pending" ELSE "visible"]]

----------------------------------------------------------------------------
\* Curated memory and workflows.

\* An entry without an id or a source path is refused.
NormalizesCurated(entry) == entry.id # 0 /\ entry.paths # {}
NewCuratedEntry(entry, held) ==
  [source |-> Or(entry.source, "control_plane"), summary |-> entry.summary, paths |-> entry.paths,
   revision |-> IF entry.id \in DOMAIN held THEN held[entry.id].revision + 1 ELSE 1]

CuratedRecords(held) ==
  LET ids == Sorted(DOMAIN held) IN [i \in DOMAIN ids |-> [id |-> ids[i], entry |-> held[ids[i]]]]
ById(records) ==
  [id \in {records[i].id : i \in DOMAIN records} |->
     (CHOOSE r \in Range(records) : r.id = id).entry]

\* Broken: what the adapter no longer holds is dropped.
Broken_MergeCuratedRecords(existing, current) == current

\* What the adapter holds replaces what the session kept.
MergeCuratedRecords(existing, current) ==
  LET now == ById(current) IN CuratedRecords(Over(now, ById(existing)))

\* A workflow has outputs and resources; a status that was set goes before the
\* one the session's paths give it.
Present(expected, actual) == expected # {} /\ expected \subseteq actual
Meets(expected, actual) == expected \cap actual # {}
ReadResources(s) == {p \in s.reads : p[1] = "resources"}
TraceStatus(w, s) ==
  CASE Present(w.outputs, s.written) -> "completed"
    [] ~Present(w.outputs, s.written) /\ Meets(w.outputs \cup w.resources, s.denied) -> "blocked"
    [] OTHER -> IF Meets(w.resources, ReadResources(s)) \/ Meets(w.outputs, s.written)
                THEN "in_progress" ELSE "pending"
Evidence(w, s) ==
  (w.outputs \cup w.resources) \cap
    (CASE TraceStatus(w, s) = "completed" -> s.written
       [] TraceStatus(w, s) = "blocked" -> s.denied
       [] TraceStatus(w, s) = "in_progress" -> ReadResources(s) \cup s.written
       [] OTHER -> {})
WorkflowViews(s) ==
  [i \in DOMAIN workflows |->
     LET w == workflows[i]
         set == w.id \in DOMAIN workflowStatus
     IN [spec |-> w, evidence |-> Evidence(w, s),
         status |-> IF set THEN workflowStatus[w.id] ELSE TraceStatus(w, s),
         source |-> IF set THEN "control_plane" ELSE "trace"]]

----------------------------------------------------------------------------
\* The state a session keeps for the adapter.

NewState == [observations |-> {}, reads |-> {}, written |-> {}, denied |-> {},
             curated |-> <<>>, workflows |-> <<>>, generation |-> 0, events |-> 0]

\* json.Unmarshal decodes into the elements a slice already has: a summary that was
\* left out as empty is what the element at its place had before.
UnmarshalCurated(old, current) ==
  IF old = <<>> THEN current
  ELSE [i \in DOMAIN old |->
          IF old[i].entry.summary = "" /\ i \in DOMAIN current
          THEN [old[i] EXCEPT !.entry.summary = current[i].entry.summary] ELSE old[i]]
Unmarshal(old, state) == [old EXCEPT !.curated = UnmarshalCurated(@, state.curated)]

Roots == {"reference", "resources", "skills"}
SummarizeTrace(t) ==
  {<<"read", p>> : p \in {q \in t.reads : q[1] \in Roots}}
  \cup {<<"wrote", p>> : p \in t.writes} \cup {<<"denied", p>> : p \in t.denied}
  \cup {<<"external", o>> : o \in t.outcomes}

MergePaths(existing, new) == existing \cup new
Observed(s, t) ==
  [s EXCEPT !.observations = MergePaths(@, SummarizeTrace(t)),
            !.reads = MergePaths(@, {p \in t.reads : p[1] \in Roots}),
            !.written = MergePaths(@, {p \in t.writes : p[1] = "task_outputs"}),
            !.denied = MergePaths(@, t.denied)]

----------------------------------------------------------------------------

None == [generation |-> 0]
NoTrace == [reads |-> {}, writes |-> {}, denied |-> {}, outcomes |-> {}]
Idle == [plan |-> <<>>]

Held == [documents |-> entries.documents, resources |-> entries.resources, skills |-> skills,
         curated |-> curated, events |-> events]

Init ==
  /\ entries = [ns \in Namespaces |-> Options[ns]]
  /\ skills = Options.skills /\ curated = Options.curated
  /\ workflows = Options.workflows /\ workflowStatus = <<>>
  /\ events = <<>> /\ projectionSeq = 0 /\ projectionError = FALSE
  /\ build = [s \in Sessions |-> Idle]
  /\ phase = [s \in Sessions |-> "absent"]
  /\ kept = [s \in Sessions |-> NewState]
  /\ shown = [s \in Sessions |-> None]
  /\ history = <<Held>> /\ hooks = 0

----------------------------------------------------------------------------
\* The control plane.  Each call changes one part of the adapter under a.mu; one
\* that finds nothing to change changes nothing.

Content == Len(history)

UpsertEntry(c) ==
  /\ c.op = "upsert"
  /\ entries' = [entries EXCEPT ![c.ns] = Put(@, c.name, NewProjectionEntry(Content, c.meta))]
  /\ UNCHANGED <<skills, curated, workflows, workflowStatus, events, projectionError>>

ChangeEntry(c) ==
  /\ c.op \in {"refresh", "invalidate", "materialize"} /\ c.name \in DOMAIN entries[c.ns]
  /\ entries' = [entries EXCEPT ![c.ns][c.name] =
       CASE c.op = "refresh" -> RefreshProjectionEntry(@, Content, c.meta)
         [] c.op = "invalidate" -> InvalidateProjectionEntry(@)
         [] c.op = "materialize" ->
              [@ EXCEPT !.meta.materialization = NormalizeMaterialization(c.meta.materialization)]]
  /\ UNCHANGED <<skills, curated, workflows, workflowStatus, events, projectionError>>

AppendEvent(op, n) == events' = Append(events, ControlPlaneEvent(op, n, skills, skills'))

UpsertSkill(c) ==
  /\ c.op = "upsert_skill"
  /\ skills' = Put(skills, c.name, NewSkillEntry(Content, c.meta))
  /\ AppendEvent(IF c.name \in DOMAIN skills THEN "skill_updated" ELSE "skill_added", c.name)
  /\ UNCHANGED <<entries, curated, workflows, workflowStatus, projectionError>>

\* A new content for a skill that is there; what decides selection stays.
UpdateSkill(c) ==
  /\ c.op = "update_skill" /\ c.name \in DOMAIN skills
  /\ skills' = [skills EXCEPT ![c.name] = UpdateSkillEntry(@, Content)]
  /\ AppendEvent("skill_updated", c.name)
  /\ UNCHANGED <<entries, curated, workflows, workflowStatus, projectionError>>

RemoveSkill(c) ==
  /\ c.op = "remove_skill" /\ c.name \in DOMAIN skills
  /\ skills' = Without(skills, c.name)
  /\ AppendEvent("skill_removed", c.name)
  /\ UNCHANGED <<entries, curated, workflows, workflowStatus, projectionError>>

ChangeCurated(c) ==
  /\ \/ /\ c.op = "upsert_curated" /\ NormalizesCurated(c.entry)
        /\ curated' = Put(curated, c.entry.id, NewCuratedEntry(c.entry, curated))
     \/ /\ c.op = "remove_curated" /\ c.name \in DOMAIN curated
        /\ curated' = Without(curated, c.name)
  /\ UNCHANGED <<entries, skills, workflows, workflowStatus, events, projectionError>>

\* A workflow with an id that is known takes the place of the other.
UpsertWorkflow(c) ==
  /\ c.op = "upsert_workflow"
  /\ LET known == {i \in DOMAIN workflows : workflows[i].id = c.spec.id}
     IN workflows' = IF known = {} THEN Append(workflows, c.spec)
                     ELSE [workflows EXCEPT ![Min(known)] = c.spec]
  /\ UNCHANGED <<entries, skills, curated, workflowStatus, events, projectionError>>

\* The status of a workflow may be set before the workflow is there.
SetWorkflowStatus(c) ==
  /\ \/ /\ c.op = "set_status" /\ c.status \in {"pending", "in_progress", "completed", "blocked"}
        /\ workflowStatus' = Put(workflowStatus, c.id, c.status)
     \/ /\ c.op = "clear_status" /\ c.id \in DOMAIN workflowStatus
        /\ workflowStatus' = Without(workflowStatus, c.id)
  /\ UNCHANGED <<entries, skills, curated, workflows, events, projectionError>>

SetProjectionError(c) ==
  /\ c.op = "set_error" /\ projectionError' = ~projectionError
  /\ UNCHANGED <<entries, skills, curated, workflows, workflowStatus, events>>

Change ==
  /\ Len(history) <= MaxChanges
  /\ \E c \in Changes :
       \/ UpsertEntry(c) \/ ChangeEntry(c) \/ UpsertSkill(c)
       \/ UpdateSkill(c) \/ RemoveSkill(c) \/ ChangeCurated(c)
       \/ UpsertWorkflow(c) \/ SetWorkflowStatus(c) \/ SetProjectionError(c)
  /\ history' = Append(history, Held')
  /\ UNCHANGED <<projectionSeq, build, phase, kept, shown, hooks>>

----------------------------------------------------------------------------
\* The hooks.

Kinds == {"create", "resume", "observe", "checkpoint", "close"}

\* What a hook does, one lock section each.  Without a state that was kept there is
\* nothing to merge.
Plan(kind, restored) ==
  <<"curated0", "workflows0">>
  \o (IF restored THEN <<"curated1", "workflows1">> ELSE <<>>)
  \o (IF kind = "observe" THEN <<"workflows2">> ELSE <<>>)
  \o <<"begin", "curated2", "workflows3", "documents", "resources", "skills", "curated",
       "knowledge", "resource", "skill", "publish">>

Busy(s) == build[s].plan # <<>>
Does(s, stage) == Busy(s) /\ Head(build[s].plan) = stage

\* The session manager calls the hooks of an execution, a checkpoint and a close
\* under its own lock, so only one of these runs at a time.
UnderManagerLock(kind) == kind \in {"observe", "checkpoint", "close"}

MayBegin(s, kind) ==
  /\ ~Busy(s)
  /\ CASE kind = "create" -> phase[s] = "absent"
       [] kind = "resume" -> phase[s] = "closed"
       [] OTHER -> phase[s] = "open"
  /\ UnderManagerLock(kind) => \A t \in Sessions : Busy(t) => ~UnderManagerLock(build[t].kind)

Hook(s) ==
  /\ hooks < MaxHooks
  /\ \E kind \in Kinds : \E trace \in IF kind = "observe" THEN Traces ELSE {NoTrace} :
       /\ MayBegin(s, kind)
       /\ build' = [build EXCEPT ![s] =
            [plan |-> Plan(kind, kept[s].generation > 0), kind |-> kind, trace |-> trace,
             since |-> Len(history), state |-> NewState, seen |-> <<>>, curated |-> <<>>,
             index |-> <<>>, mounts |-> <<>>]]
  /\ hooks' = hooks + 1
  /\ UNCHANGED <<adapter, projectionSeq, phase, kept, shown, history>>

\* One section done, with the locals it leaves.
Leaves(s, local) == build' = [build EXCEPT ![s] = [local EXCEPT !.plan = Tail(@)]]
OnlyBuild == UNCHANGED <<adapter, projectionSeq, phase, kept, shown, history, hooks>>

WithCurated(state) ==
  [state EXCEPT !.curated = MergeCuratedRecords(@, CuratedRecords(curated))]
WithWorkflows(state) == [state EXCEPT !.workflows = WorkflowViews(state)]

\* stateFromSession: what the adapter holds, or the session's own state with it.
CollectCurated(s) ==
  /\ \/ /\ Does(s, "curated0")
        /\ Leaves(s, [build[s] EXCEPT !.state.curated = CuratedRecords(curated)])
     \/ /\ Does(s, "curated1")
        /\ Leaves(s, [build[s] EXCEPT !.state = WithCurated(Unmarshal(kept[s], @))])
     \/ /\ Does(s, "curated2")
        /\ Leaves(s, [build[s] EXCEPT !.state = WithCurated(@)])
     \/ Does(s, "curated") /\ Leaves(s, [build[s] EXCEPT !.curated = CuratedRecords(curated)])
  /\ OnlyBuild

\* Workflows are looked at once more in buildProjection when there were none.
CollectWorkflows(s) ==
  /\ \/ /\ Does(s, "workflows0")
        /\ Leaves(s, [build[s] EXCEPT !.state.workflows = WorkflowViews(NewState)])
     \/ /\ Does(s, "workflows1")
        /\ Leaves(s, [build[s] EXCEPT !.state = WithWorkflows(@)])
     \/ /\ Does(s, "workflows2")
        /\ Leaves(s, [build[s] EXCEPT !.state = WithWorkflows(Observed(@, build[s].trace))])
     \/ /\ Does(s, "workflows3")
        /\ Leaves(s, [build[s] EXCEPT !.state = IF @.workflows = <<>> THEN WithWorkflows(@) ELSE @])
  /\ OnlyBuild

BeginProjectionBuild(s) ==
  /\ Does(s, "begin")
  /\ projectionSeq' = projectionSeq + 1
  /\ Leaves(s, [build[s] EXCEPT !.seen = events, !.state.generation = projectionSeq + 1,
                               !.state.events = Len(events)])
  /\ UNCHANGED <<adapter, phase, kept, shown, history, hooks>>

CollectRecords(s) ==
  /\ \/ \E ns \in Namespaces :
          /\ Does(s, ns)
          /\ Leaves(s, [build[s] EXCEPT !.index = Put(@, ns, ProjectionRecords(entries[ns]))])
     \/ /\ Does(s, "skills")
        /\ Leaves(s, [build[s] EXCEPT !.index = Put(@, "skills", SkillRecords(skills))])
  /\ OnlyBuild

Ends(s) == build' = [build EXCEPT ![s] = Idle]

\* A hook that fails leaves its session as it was.
Fails(s) == Ends(s) /\ UNCHANGED <<adapter, projectionSeq, phase, kept, shown, history, hooks>>

BuildMounts(s) ==
  LET index == build[s].index
      add(root, m) == Leaves(s, [build[s] EXCEPT !.mounts = Put(@, root, m)])
  IN \/ /\ projectionError /\ (Does(s, "knowledge") \/ Does(s, "resource") \/ Does(s, "skill"))
        /\ Fails(s)
     \/ /\ ~projectionError
        /\ \/ /\ Does(s, "knowledge")
              /\ add("documents", KnowledgeMount(entries.documents, index.documents))
           \/ /\ Does(s, "resource")
              /\ add("resources", ResourceMount(entries.resources, index.resources))
           \/ Does(s, "skill") /\ add("skills", SkillMount(skills, index.skills))
        /\ OnlyBuild

\* The session takes the projection, unless another of its adapters fails or no
\* runtime can be built.
Publish(s) ==
  /\ Does(s, "publish")
  /\ \/ Fails(s)
     \/ /\ Ends(s)
        /\ phase' = [phase EXCEPT ![s] = IF build[s].kind = "close" THEN "closed" ELSE "open"]
        /\ kept' = [kept EXCEPT ![s] = build[s].state]
        /\ shown' = [shown EXCEPT ![s] =
             [generation |-> build[s].state.generation, index |-> build[s].index,
              curated |-> build[s].curated, mounts |-> build[s].mounts, seen |-> build[s].seen,
              audit |-> ControlPlaneEventViews(build[s].seen, build[s].state.generation),
              since |-> build[s].since, until |-> Len(history)]]
        /\ UNCHANGED <<adapter, projectionSeq, history, hooks>>

Next ==
  \/ Change
  \/ \E s \in Sessions :
       \/ Hook(s) \/ CollectCurated(s) \/ CollectWorkflows(s) \/ BeginProjectionBuild(s)
       \/ CollectRecords(s) \/ BuildMounts(s) \/ Publish(s)

Spec == Init /\ [][Next]_vars

----------------------------------------------------------------------------

Shown == {shown[s] : s \in {t \in Sessions : shown[t] # None}}

\* The winner of a scope: its tier is the highest, its rank the lowest among those
\* of the tier, its path the first of those of the rank.
Best(records, r) ==
  \A q \in records : (q.meta.scope = r.meta.scope /\ q.meta.eligibility = "eligible") =>
    LET tier(x) == SkillPrecedenceTierWeight(x.meta.tier)
    IN \/ tier(r) < tier(q)
       \/ tier(r) = tier(q) /\ r.meta.rank < q.meta.rank
       \/ tier(r) = tier(q) /\ r.meta.rank = q.meta.rank /\ r.name <= q.name

\* An index of skills explains itself: of a scope exactly the best eligible skill is
\* selected, every loser names it, and says whether the path decided
\* (adapter_skills.go:9).
Explains(records) ==
  \A r \in {r \in records : r.meta.scope # ""} :
    /\ r.outcome.selected <=> r.meta.eligibility = "eligible" /\ Best(records, r)
    /\ r.outcome.winner # 0 => \E w \in records :
         /\ w.name = r.outcome.winner /\ w.outcome.selected /\ w.meta.scope = r.meta.scope
         /\ (r.outcome.reason = "tie_breaker_path_order") <=> SamePrecedence(r.meta, w.meta)

\* The audit is a chain: what won a scope after a change to it had won it before the
\* next one, as long as no skill has left a scope for another.
KeptScopes ==
  \A i, j \in DOMAIN history : \A n \in DOMAIN history[i].skills \cap DOMAIN history[j].skills :
    history[i].skills[n].meta.scope = history[j].skills[n].meta.scope
Chained(audit) ==
  \A i, j \in DOMAIN audit :
    (/\ i < j /\ audit[i].scope = audit[j].scope
     /\ \A k \in (i + 1) .. (j - 1) : audit[k].scope # audit[i].scope)
      => audit[i].winnerAfter = audit[j].winnerBefore

\* Whatever the control plane does while an index is built, the index of skills and
\* the audit are each consistent (adapter_projection.go:154, adapter_skills.go:191).
SelectionExplained ==
  /\ \A p \in Shown : Explains(p.index.skills)
  /\ KeptScopes => Chained(events)

\* The views of a projection in the order they are collected, what each is, and what
\* it would be of what the adapter held at a moment.
Views == <<"audit", "documents", "resources", "skills", "curated", "document files",
           "resource files", "skill files">>
ViewIn(p, view) ==
  CASE view = "audit" -> p.seen
    [] view = "documents" -> p.index.documents
    [] view = "resources" -> p.index.resources
    [] view = "skills" -> p.index.skills
    [] view = "curated" -> p.curated
    [] view = "document files" -> p.mounts.documents.files
    [] view = "resource files" -> p.mounts.resources.files
    [] view = "skill files" -> p.mounts.skills.files
ViewAt(h, view) ==
  CASE view = "audit" -> h.events
    [] view = "documents" -> ProjectionRecords(h.documents)
    [] view = "resources" -> ProjectionRecords(h.resources)
    [] view = "skills" -> SkillRecords(h.skills)
    [] view = "curated" -> CuratedRecords(h.curated)
    [] view = "document files" -> KnowledgeMount(h.documents, {}).files
    [] view = "resource files" -> ResourceMount(h.resources, {}).files
    [] view = "skill files" -> SkillMount(h.skills, {}).files

\* The last moment before view i, when change k fell before view before[k].
MomentOf(since, before, i) == Max({since} \cup {k \in DOMAIN before : before[k] <= i})

\* The first n views are what the adapter held at such moments, from one to another.
HeldInOrder(p, since, until, n) ==
  \E before \in [(since + 1) .. until -> 1 .. n + 1] : \A i \in 1 .. n :
    ViewIn(p, Views[i]) = ViewAt(history[MomentOf(since, before, i)], Views[i])

\* The index of a mount and its files tell of one thing when nothing changed meanwhile.
IndexAgrees(m) ==
  {f[1] : f \in m.files} = {r.name : r \in {r \in m.index : r.meta.materialization # "failed"}}

\* A projection shows nothing older than its hook: each of its views is what the
\* adapter held at some moment of the hook, the views in the order of these moments,
\* and an index differs from the files beside it only if a change fell in between
\* (adapter_projection.go:12).
ProjectionCurrent ==
  \A p \in Shown :
    /\ HeldInOrder(p, p.since, p.until, Len(Views))
    /\ p.since = p.until => IndexAgrees(p.mounts.documents) /\ IndexAgrees(p.mounts.resources)

\* What a session has observed it never forgets, through executions, checkpoints,
\* closes and resumes, and each projection it shows is of a later generation
\* (adapter.go:285, :541).
ObservationsKept ==
  [][\A s \in Sessions : kept'[s] # kept[s] =>
       /\ \A field \in {"observations", "reads", "written", "denied"} :
            kept[s][field] \subseteq kept'[s][field]
       /\ DOMAIN ById(kept[s].curated) \subseteq DOMAIN ById(kept'[s].curated)
       /\ kept'[s].generation > kept[s].generation
       /\ build[s].kind = "observe" => SummarizeTrace(build[s].trace) \subseteq kept'[s].observations]_vars
============================================================================
