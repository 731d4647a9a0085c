------------------------------ MODULE PolicyLint ------------------------------
(***************************************************************************)
(* tools/validate_policy.py: the lint every pull request and every         *)
(* pipeline run goes through.  A rule is the set of its violations'        *)
(* names; a repository is [policy, legacy, entities], the three things     *)
(* lint() loads.  Which of several archetypes or entities breaks a rule    *)
(* is left out: an error of any of them fails the run.                     *)
(* A query is [metrics, events, scoped, keys, functions].                  *)
(***************************************************************************)
EXTENDS EntityCatalog, SloResolver

Bands == {"baseline", "standard", "critical"}

Archetypes(policy) == {policy.archetypes[aid] : aid \in DOMAIN policy.archetypes}

\* The name of a rule, when some x of S breaks it.
Rule(name, S) == {r \in {name} : S # {}}

-----------------------------------------------------------------------------
(* Archetypes. *)

SchemaErrors(policy) ==
    LET A == Archetypes(policy)
        auto == policy.auto_resolve
    IN  Rule("impact_class", {a \in A : a.impact_class \notin DOMAIN policy.matrix})
        \cup Rule("domain", {a \in A : a.domain \notin DOMAIN policy.domains})
        \cup Rule("env", {a \in A : ~(a.envs \subseteq DOMAIN policy.environments)})
        \cup Rule("band", {a \in A : ~(a.bands \subseteq Bands)})
        \cup Rule("dev_without_baseline",
                  {a \in A : "dev" \in a.envs /\ "baseline" \notin a.bands})
        \cup Rule("auto_resolve_hours",
                  {a \in A : ~(a.auto_resolve_hours \subseteq auto.min_hours..auto.max_hours)})

ReferencesErrors(policy) ==
    LET A == Archetypes(policy)
    IN  Rule("slo_id", {a \in A : a.slo_id \notin {s.slo_id : s \in policy.slos}})
        \cup Rule("runbook", {a \in A : a.runbook \notin DOMAIN policy.runbooks})
        \cup Rule("workflow", {a \in A : a.workflow \notin DOMAIN policy.workflows})

\* An unscoped query watches the whole organisation; a group key that is not
\* in the query, or a collapse key that is not a group key, does nothing.
QueryErrors(policy) ==
    LET A == Archetypes(policy)
        card == policy.cardinality
    IN  Rule("unscoped", {a \in A : ~a.query.scoped})
        \cup Rule("group_keys", {a \in A : Cardinality(a.group_by) > card.max_group_by_keys})
        \cup Rule("identity_key", {a \in A : a.group_by \cap card.forbidden_group_keys # {}})
        \cup Rule("not_grouped", {a \in A : ~(a.group_by \subseteq a.query.keys)})
        \cup Rule("no_collapse", {a \in A : /\ a.domain \in policy.collapse_domains
                                            /\ Cardinality(a.group_by) >= 2
                                            /\ a.notify_by = {}})
        \cup Rule("collapse", {a \in A : ~(a.notify_by \subseteq a.group_by)})

Predictive == {"anomaly", "seasonal_anomaly", "forecast", "outlier", "rate_of_change"}

\* Predictive first: a fixed number has to say what it means.
DetectionErrors(policy) ==
    LET A == Archetypes(policy)
    IN  Rule("rationale", {a \in A : a.detection = "threshold" /\ ~a.rationale})
        \cup Rule("predictive", {a \in A : a.detection \in Predictive /\ a.query.functions = {}})
        \cup Rule("seasonality", {a \in A : /\ a.detection = "seasonal_anomaly"
                                            /\ "seasonality" \notin a.query.functions})

\* No monitor of an environment other than production may page.
\* (The resolved priority is not looked at.)
PriorityErrorsUnseen(policy) == {}
PriorityErrors(policy) ==
    Rule("pages_outside_production",
         {t \in Archetypes(policy) \X (DOMAIN policy.environments) \X Bands :
             /\ t[2] \in t[1].envs
             /\ t[3] \in t[1].bands \cap policy.environments[t[2]].bands_instantiated
             /\ t[2] # "prod"
             /\ Pages(policy, ResolvePriority(policy, t[1].impact_class, t[3], t[2]),
                      t[3], t[2], "archetype")})

\* The declared sources are the ones the query reads.
TelemetryErrors(policy) ==
    LET A == Archetypes(policy)
    IN  Rule("telemetry_missing", {a \in A : a.telemetry = {}})
        \cup Rule("telemetry_unknown", {a \in A : ~(a.telemetry \subseteq TelemetrySources(policy))})
        \cup Rule("telemetry_wrong",
                  {a \in A : /\ a.telemetry # {}
                             /\ a.telemetry \subseteq TelemetrySources(policy)
                             /\ a.telemetry # DeriveTelemetry(policy, a.query)})

\* sli_producing means a member of a monitor SLO, in both directions.
RelationErrors(policy) ==
    LET members == UNION {s.member_archetypes : s \in {x \in policy.slos : x.type = "monitor"}}
        Of(aid) == policy.archetypes[aid].slo_relation
    IN  Rule("relation", {aid \in DOMAIN policy.archetypes : Of(aid) \notin policy.slo_relations})
        \cup Rule("no_sli", {aid \in DOMAIN policy.archetypes :
                                 Of(aid) = "sli_producing" /\ aid \notin members})
        \cup Rule("silent_sli", {aid \in DOMAIN policy.archetypes :
                                     Of(aid) # "sli_producing" /\ aid \in members})
        \cup Rule("security", {aid \in DOMAIN policy.archetypes :
                                   /\ Of(aid) = "security"
                                   /\ policy.archetypes[aid].domain # "security"
                                   /\ policy.archetypes[aid].signal # "auth_anomaly"})

-----------------------------------------------------------------------------
(* Composites, packs, catalog objectives. *)

CompositeErrors(policy) ==
    LET C == policy.composites
        Known(c) == {policy.archetypes[m] : m \in c.members \cap DOMAIN policy.archetypes}
        Team(a) == Given(policy.domains[a.domain].routing_override_team,
                         policy.domains[a.domain].owner_team)
    IN  Rule("composites", {x \in {C} : Cardinality(x) > policy.composite_budget.composites})
        \cup Rule("members", {c \in C : Cardinality(c.members) > policy.composite_budget.members})
        \cup Rule("member", {c \in C : ~(c.members \subseteq DOMAIN policy.archetypes)})
        \cup Rule("member_band", {c \in C : \E a \in Known(c) : ~(c.bands \subseteq a.bands)})
        \cup Rule("member_env", {c \in C : \E a \in Known(c) : ~(c.envs \subseteq a.envs)})
        \cup Rule("groupings", {c \in C : Cardinality({a.group_by : a \in Known(c)}) > 1})
        \cup Rule("owner_team", {c \in C : c.owner_team \notin DOMAIN policy.teams})
        \cup Rule("unnamed_teams", {c \in C :
                 ~({Team(a) : a \in Known(c)} \subseteq {c.owner_team} \cup c.cc_teams)})

PackErrors(policy) ==
    LET S == {policy.service_archetypes[sa] : sa \in DOMAIN policy.service_archetypes}
        Selected(a) == UNION {a.packs_by_platform[p] : p \in DOMAIN a.packs_by_platform}
    IN  Rule("pack", {a \in S : ~(a.packs \cup Selected(a) \subseteq DOMAIN policy.packs)})
        \cup Rule("pack_restated", {a \in S : a.packs \cap Selected(a) # {}})
        \cup Rule("pack_archetype", {p \in DOMAIN policy.packs :
                                         ~(policy.packs[p] \subseteq DOMAIN policy.archetypes)})

CatalogSloErrors(policy) ==
    LET S == policy.slos
    IN  Rule("slo_team", {s \in S : s.team \notin DOMAIN policy.teams})
        \cup Rule("slo_domain", {s \in S : s.domain \notin DOMAIN policy.domains})
        \cup Rule("slo_member", {s \in S : ~(s.member_archetypes \subseteq DOMAIN policy.archetypes)})
        \cup Rule("burn_window", {s \in S : ~(s.burn_alerts \subseteq DOMAIN policy.burn_rate_windows)})
        \cup Rule("slo_query", {s \in S : s.type = "metric" /\ ~s.query})
        \cup Rule("slo_members", {s \in S : s.type = "monitor" /\ s.member_archetypes = {}})

-----------------------------------------------------------------------------
(* Entities. *)

\* One registration for one catalog object.
EntityErrors(repo) ==
    (UNION {ValidateEntity(repo.policy, repo.entities, e) : e \in repo.entities})
        \cup Rule("registered_twice",
                  {e \in repo.entities : e.name \in {s.name : s \in repo.legacy}})

-----------------------------------------------------------------------------
(* Exceptions: dated, owned, approved, and not for ever. *)

ExceptionErrors(policy, today) ==
    LET I == DOMAIN policy.exceptions
        E == {policy.exceptions[i] : i \in I}
    IN  Rule("exception_id", {p \in I \X I :
                 p[1] # p[2] /\ policy.exceptions[p[1]].id = policy.exceptions[p[2]].id})
        \cup Rule("expired", {e \in E : e.expires < today})
        \cup Rule("threshold_exception", {e \in E : e.control = "threshold"})
        \cup Rule("lifetime", {e \in E :
                 /\ e.control \in DOMAIN policy.max_duration_days
                 /\ e.expires - e.approved_on > policy.max_duration_days[e.control]})
        \cup Rule("exception_owner", {e \in E : e.owner \notin DOMAIN policy.teams})
        \cup Rule("approver", {e \in E :
                 /\ e.control \in DOMAIN policy.required_approver
                 /\ e.approved_by # policy.required_approver[e.control]})

-----------------------------------------------------------------------------
(* Automation, budgets, the grading policies. *)

AutomationErrors(policy) ==
    LET W == {policy.workflows[w] : w \in DOMAIN policy.workflows}
    IN  Rule("workflow_team", {w \in W : w.team \notin DOMAIN policy.teams})
        \cup Rule("workflow_fields", {w \in W :
                 /\ w.class \in DOMAIN policy.workflow_requires
                 /\ ~(policy.workflow_requires[w.class] \subseteq w.declares)})
        \cup Rule("automatic", {w \in W : w.class = "fully_automatic" /\ w.reversible # "true"})
        \cup Rule("irreversible", {w \in W : /\ w.reversible = "false"
                                             /\ w.approval # "change-board"})
        \cup Rule("diagnostic", {w \in W : w.class = "diagnostic_only" /\ ~w.read_only})

BudgetErrors(policy) ==
    LET all == ExpandInstances(policy)
        Over(S, max) == {x \in {S} : Cardinality(x) > max}
        card == policy.cardinality
    IN  Rule("monitors", Over(all, card.max_total_managed_monitors))
        \cup Rule("paging", Over({i \in all : i.pages}, card.max_paging_monitors))
        \cup Rule("p1", Over({i \in all : i.priority = 1}, card.max_p1_monitors))
        \cup Rule("instances", UNION {Over({i \in all : i.archetype = aid},
                                           card.max_instances_per_archetype) :
                                      aid \in DOMAIN policy.archetypes})

ScorecardErrors(policy) ==
    LET sc == policy.scorecards
        types == {a.resource_type : a \in Archetypes(policy)}
        kinds == DOMAIN sc.entity_kinds
    IN  Rule("unclassified", types \ DOMAIN sc.resource_type_kind)
        \cup Rule("kind", {t \in DOMAIN sc.resource_type_kind :
                               sc.resource_type_kind[t] \notin kinds})
        \cup Rule("archetype_kind", {sa \in DOMAIN sc.service_archetype_kind :
                 \/ sa \notin DOMAIN policy.service_archetypes
                 \/ sc.service_archetype_kind[sa] \notin kinds})
        \cup Rule("ungraded", DOMAIN policy.service_archetypes \ DOMAIN sc.service_archetype_kind)
        \cup Rule("weights", {k \in kinds : FoldFunction(LAMBDA x, y : x + y, 0, sc.entity_kinds[k].weights) # 100})

-----------------------------------------------------------------------------

\* lint(), on the day it runs: exceptions expire while nobody commits.
Lint(repo, today) ==
    SchemaErrors(repo.policy) \cup ReferencesErrors(repo.policy) \cup QueryErrors(repo.policy)
        \cup DetectionErrors(repo.policy) \cup PriorityErrors(repo.policy)
        \cup TelemetryErrors(repo.policy) \cup CompositeErrors(repo.policy)
        \cup PackErrors(repo.policy) \cup EntityErrors(repo) \cup CatalogSloErrors(repo.policy)
        \cup ValidateSlos(repo.policy, LoadServices(repo.legacy, repo.entities))
        \cup RelationErrors(repo.policy) \cup ExceptionErrors(repo.policy, today)
        \cup AutomationErrors(repo.policy) \cup BudgetErrors(repo.policy)
        \cup ScorecardErrors(repo.policy)

===============================================================================
