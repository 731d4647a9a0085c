----------------------------- MODULE PolicyCore -----------------------------
(***************************************************************************)
(* tools/obs_common.py: the questions every tool asks of the policy files. *)
(* A policy is one record, as load_policy() makes one dictionary of the    *)
(* YAML files, and it is a parameter here as it is there: two tools that   *)
(* run on different commits read different policies.  An absent key is     *)
(* None; an ordered list whose order decides nothing is a set.             *)
(* Priorities are the numbers 1..4 of PRIORITY_RANK.                       *)
(***************************************************************************)
EXTENDS Integers, Sequences, FiniteSets, SequencesExt

None == "none"

Given(x, fallback) == IF x # None THEN x ELSE fallback

-----------------------------------------------------------------------------
(* The registry. *)

NoSlo == [scope |-> None, profile |-> None, objectives |-> <<>>]

\* An entity in the shape of the older registration.  region and oncall have
\* no slot there; slo has one, and the SLO resolver reads it twice.
EntityAsService(e) ==
    [name |-> e.name, team |-> e.team, tier |-> e.criticality,
     service_archetype |-> e.service_archetype, platform |-> e.platform,
     compliance_scope |-> e.compliance_scope, envs |-> e.envs, slo |-> e.slo]

\* Both registries; an older registration of the same name stays, and an
\* entity that declares no service archetype is not a service.
LoadServices(legacy, entities) ==
    legacy \cup {EntityAsService(e) :
        e \in {x \in entities : /\ x.service_archetype # None
                                /\ x.name \notin {s.name : s \in legacy}}}

\* services.get(name): the registration, in a set of at most one.
Registration(services, name) == {s \in services : s.name = name}

-----------------------------------------------------------------------------
(* What is aimed at a service: packs, and through them monitor archetypes. *)

PacksFor(policy, sa, platform) ==
    IF sa \notin DOMAIN policy.service_archetypes THEN {}
    ELSE LET a == policy.service_archetypes[sa]
         IN  a.packs \cup (IF platform \in DOMAIN a.packs_by_platform
                           THEN a.packs_by_platform[platform] ELSE {})

ArchetypesFor(policy, sa, platform, mandatoryOnly) ==
    {aid \in UNION {policy.packs[p] : p \in PacksFor(policy, sa, platform)
                                              \cap DOMAIN policy.packs} :
        /\ aid \in DOMAIN policy.archetypes
        /\ mandatoryOnly => policy.archetypes[aid].mandatory}

-----------------------------------------------------------------------------
(* Priority, paging and the expansion Terraform performs. *)

Quieter(p, q) == IF p > q THEN p ELSE q

\* The matrix, held down to the environment's ceiling.
ResolvePriority(policy, impact, band, env) ==
    Quieter(policy.matrix[impact][band], policy.environments[env].priority_ceiling)

ResolveNotificationProfile(domain, env, band) ==
    CASE domain = "security" -> "security_operational"
      [] domain # "security" /\ env = "dev" -> "nonprod_dev"
      [] domain # "security" /\ env \in {"qa", "stage"} -> "nonprod_standard"
      [] OTHER -> [critical |-> "production_critical",
                   standard |-> "production_standard",
                   baseline |-> "production_baseline"][band]

\* P1 pages; P2 pages only from a source that has confirmed impact.
Pages(policy, priority, band, env, source) ==
    /\ policy.environments[env].paging_allowed
    /\ band = "critical"
    /\ \/ priority = 1
       \/ priority = 2 /\ source \in policy.p2_pages_only_from

\* (archetype x environment x band), where the archetype and the environment
\* both want it, in the environments that are expanded by default.
ExpandInstances(policy) ==
    LET wanted == {t \in (DOMAIN policy.archetypes)
                              \X ({"qa", "stage", "prod"} \cap DOMAIN policy.environments)
                              \X {"baseline", "standard", "critical"} :
                      /\ policy.environments[t[2]].alerting
                      /\ t[2] \in policy.archetypes[t[1]].envs
                      /\ t[3] \in policy.environments[t[2]].bands_instantiated
                      /\ t[3] \in policy.archetypes[t[1]].bands}
        Expanded(a, aid, env, band) ==
            LET priority == ResolvePriority(policy, a.impact_class, band, env)
            IN  [archetype |-> aid, env |-> env, band |-> band, domain |-> a.domain,
                 priority |-> priority,
                 pages |-> Pages(policy, priority, band, env, "archetype")]
    IN  {Expanded(policy.archetypes[t[1]], t[1], t[2], t[3]) : t \in wanted}

-----------------------------------------------------------------------------
(* What an archetype needs to exist.  A query is the metrics and the event *)
(* sources it names; a metric and a namespace are sequences of segments.   *)

TelemetrySources(policy) == DOMAIN policy.telemetry_sources

\* The longest namespace a metric starts with decides whose it is.
Producers(policy, metric) ==
    {s \in TelemetrySources(policy) : \E ns \in policy.telemetry_sources[s].metrics :
        /\ IsPrefix(ns, metric)
        /\ \A t \in TelemetrySources(policy) : \A other \in policy.telemetry_sources[t].metrics :
               IsPrefix(other, metric) => Len(ns) >= Len(other)}

DeriveTelemetry(policy, query) ==
    (UNION {Producers(policy, m) : m \in query.metrics})
        \cup {s \in TelemetrySources(policy) :
                  policy.telemetry_sources[s].events \cap query.events # {}}

\* The declaration; where there is none, what the query implies.
ArchetypeTelemetry(policy, a) ==
    IF a.telemetry # {} THEN a.telemetry ELSE DeriveTelemetry(policy, a.query)

-----------------------------------------------------------------------------
(* Kinds, as the scorecard and the reports see them. *)

\* The KeyError of an unclassified type is the None no kind is equal to.
EntityKind(policy, type) ==
    IF type \in DOMAIN policy.scorecards.resource_type_kind
    THEN policy.scorecards.resource_type_kind[type] ELSE None

DurabilityCoveredTypes(policy) ==
    {policy.archetypes[aid].resource_type : aid \in
        {x \in DOMAIN policy.archetypes :
            \/ policy.archetypes[x].detection = "forecast"
            \/ policy.archetypes[x].signal \in policy.scorecards.durability_signals}}

\* tags_to_map(tags).get(key), for a monitor's tags as a function.
TagOf(map, key) == IF key \in DOMAIN map THEN map[key] ELSE None

=============================================================================
