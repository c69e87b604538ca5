------------------------ MODULE MCReferenceAdapter ------------------------
(* A reference adapter with a document, a resource, two skills of one scope, *)
(* a curated entry and a workflow, and what a control plane may do with it.  *)
EXTENDS ReferenceAdapter

Meta(materialization) ==
  [source |-> "", freshness |-> "", materialization |-> materialization]
Seed(state) == [content |-> 0, meta |-> NormalizeProjectionMetadata(Meta(state), "bundle", "snapshot")]

SkillMeta(tier, rank, scope, eligibility) ==
  [source |-> "", freshness |-> "", eligibility |-> eligibility, tier |-> tier, rank |-> rank,
   scope |-> scope, selected |-> TRUE]
SkillOf(tier, rank) ==
  [content |-> 0, meta |-> NormalizeSkillMetadata(SkillMeta(tier, rank, "review", "eligible"))]

Output == <<"task_outputs", 1>>
Resource == <<"resources", 1>>
Report == [id |-> 1, outputs |-> {Output}, resources |-> {Resource}]

MCOptions ==
  [documents |-> <<Seed("")>>, resources |-> <<Seed("partial")>>,
   skills |-> <<SkillOf("user", 5), SkillOf("bundled", 0)>>,
   curated |-> (2 :> [source |-> "curation_seed", summary |-> "", paths |-> {Resource},
                      revision |-> 1]),
   workflows |-> <<Report>>]

Entry(id, summary) == [id |-> id, source |-> "", summary |-> summary, paths |-> {Resource}]

MCChanges ==
  {[op |-> "upsert", ns |-> "documents", name |-> 2, meta |-> Meta("failed")],
   [op |-> "refresh", ns |-> "resources", name |-> 1, meta |-> Meta("")],
   [op |-> "invalidate", ns |-> "documents", name |-> 1, meta |-> Meta("")],
   [op |-> "materialize", ns |-> "resources", name |-> 1, meta |-> Meta("failed")],
   [op |-> "upsert_skill", name |-> 3, meta |-> SkillMeta("user", 5, "review", "eligible")],
   [op |-> "upsert_skill", name |-> 1, meta |-> SkillMeta("workspace", 9, "", "")],
   [op |-> "update_skill", name |-> 2],
   [op |-> "remove_skill", name |-> 1],
   [op |-> "upsert_curated", entry |-> Entry(1, "told")],
   [op |-> "remove_curated", name |-> 2],
   [op |-> "upsert_workflow", spec |-> [id |-> 2, outputs |-> {}, resources |-> {Resource}]],
   [op |-> "set_status", id |-> 1, status |-> "blocked"],
   [op |-> "clear_status", id |-> 1],
   [op |-> "set_error"]}

MCTraces ==
  {[reads |-> {Resource, <<"reference", 1>>}, writes |-> {}, denied |-> {}, outcomes |-> {1}],
   [reads |-> {}, writes |-> {Output}, denied |-> {<<"memory", 1>>}, outcomes |-> {}]}
=============================================================================
