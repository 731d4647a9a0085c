----------------------------- MODULE SloResolver -----------------------------
(***************************************************************************)
(* tools/slo_resolver.py: the chain of layers an objective is resolved     *)
(* through, whether a service gets objectives of its own, and the lint.    *)
(* The fields of an objective are a record with only the keys its layer    *)
(* states; a threshold value is <<"num", n>> or <<"text", s>>, a target is *)
(* in thousandths of a percent, an SLI side is [text, marks]: a query and  *)
(* the placeholders left in it.  A name is the sequence of its words, as   *)
(* "orders-latency" is <<"orders", "latency">>.                            *)
(***************************************************************************)
EXTENDS PolicyCore

\* The objective named availability keeps the bare id it always had: the id
\* of service a-b's availability is also the one of a's objective b.
SloIdFor(service, objective) ==
    <<"slo-svc">> \o service \o (IF objective = "availability" THEN <<>> ELSE <<objective>>)

DeepMergeKeys == {"threshold", "sli"}

Overlay(base, over) ==
    [k \in DOMAIN base \cup DOMAIN over |-> IF k \in DOMAIN over THEN over[k] ELSE base[k]]

\* One layer's fields onto what is accumulated.
MergeLayer(acc, fields) ==
    [k \in DOMAIN acc \cup DOMAIN fields |->
        IF k \notin DOMAIN fields THEN acc[k]
        ELSE IF k \in DeepMergeKeys /\ k \in DOMAIN acc THEN Overlay(acc[k], fields[k])
        ELSE fields[k]]

\* block.get(key), or nothing.
FieldsAt(block, key) == IF key \in DOMAIN block THEN block[key] ELSE <<>>

\* The tier owns the target of an objective and the burn windows.
CriticalityLayer(policy, tier) ==
    LET slo == policy.tiers[tier].slo
    IN  [name \in DOMAIN slo.objectives |->
            [target |-> slo.objectives[name], burn_alerts |-> slo.burn_windows]]

EnvironmentLayer(policy, env) == FieldsAt(policy.slo_profiles.env_overrides, env)

\* Applied after the chain, so that no later layer can undo it.
EnvironmentGate(policy, env) ==
    \/ ~policy.slo_profiles.materialize_when_slo_impact
    \/ policy.environments[env].slo_impact

NonMetricMembers(policy, objective) ==
    {m \in objective.member_archetypes :
        \/ m \notin DOMAIN policy.archetypes
        \/ policy.archetypes[m].monitor_type # "query alert"}

\* Datadog rejects burn_rate() on a monitor SLO with a member that is not a
\* metric monitor.
ApplyInvariants(policy, objective) ==
    IF /\ objective.type = "monitor"
       /\ objective.burn_alerts # {}
       /\ NonMetricMembers(policy, objective) # {}
    THEN [objective EXCEPT !.burn_alerts = {}]
    ELSE objective

LatencyBucket(threshold) ==
    IF "value" \in DOMAIN threshold
    THEN <<"under", threshold.value,
           IF "unit" \in DOMAIN threshold THEN threshold.unit ELSE "">>
    ELSE <<"under">>

Substitute(side, service, env, threshold) ==
    [text |-> side.text, service |-> service, env |-> env,
     bucket |-> IF "LATENCY_BUCKET" \in side.marks THEN LatencyBucket(threshold) ELSE <<>>,
     marks |-> side.marks \ {"SERVICE", "ENV", "LATENCY_BUCKET"}]

QueryOf(value, service, env) ==
    IF "sli" \notin DOMAIN value THEN <<>>
    ELSE [side \in DOMAIN value.sli |->
             Substitute(value.sli[side], service, env,
                        FieldsAt(value, "threshold"))]

-----------------------------------------------------------------------------

ProfileOf(policy, service) == FieldsAt(policy.slo_profiles.profiles, service.slo.profile)

\* One objective through the chain: each layer states what it changes of the
\* layers before it.
MergedObjective(policy, service, env, name) ==
    LET doc == policy.slo_profiles
        domain == policy.service_archetypes[service.service_archetype].domain
        entityType == FieldsAt(doc.by_entity_type, service.service_archetype)
        profile == IF service.slo.profile \in DOMAIN doc.profiles
                   THEN ProfileOf(policy, service).objectives ELSE <<>>
        On(acc, layer) == MergeLayer(acc, FieldsAt(layer, name))
        typed == On(doc.defaults, entityType)
        placed == On(typed, FieldsAt(doc.by_platform, domain))
        promised == On(placed, CriticalityLayer(policy, service.tier))
        located == On(promised, EnvironmentLayer(policy, env))
    IN  On(On(located, profile), service.slo.objectives)

\* Every objective a service resolves to, enabled or not.  Only the entity
\* type introduces one.
ResolveObjectives(policy, service, env) ==
    LET names == DOMAIN FieldsAt(policy.slo_profiles.by_entity_type, service.service_archetype)
        Gated(value) == IF EnvironmentGate(policy, env) THEN value
                        ELSE Overlay(value, [enabled |-> FALSE])
        Filled(value) == Overlay([member_archetypes |-> {}, burn_alerts |-> {}], value)
    IN  [name \in names |->
            ApplyInvariants(policy, Filled(Gated(MergedObjective(policy, service, env, name))))]

\* Does the service get objectives of its own?  The scope it declares, or its
\* tier's, compared once.
MaterializesPerServiceSlos(policy, service) ==
    LET declared == IF policy.slo_profiles.opt_in_via_service_yaml
                    THEN service.slo.scope ELSE None
    IN  Given(declared, policy.tiers[service.tier].slo.scope)
            = policy.slo_profiles.materialize_when_scope

\* What each service that gets objectives of its own asks for.
ObjectiveSlos(policy, services, env) ==
    UNION {LET objectives == ResolveObjectives(policy, s, env)
           IN  {[slo_id |-> SloIdFor(s.name, o), service |-> s.name, team |-> s.team,
                 tier |-> s.tier, env |-> env, objective |-> o,
                 type |-> objectives[o].type, target |-> objectives[o].target,
                 burn_alerts |-> objectives[o].burn_alerts,
                 threshold |-> FieldsAt(objectives[o], "threshold"),
                 dependency |-> "telemetry_dependency" \in DOMAIN objectives[o],
                 query |-> QueryOf(objectives[o], s.name, env)] :
                   o \in {x \in DOMAIN objectives : objectives[x].enabled}}
           : s \in {x \in services : MaterializesPerServiceSlos(policy, x)}}

\* The SLOs the platform creates: one for an id.  The services come in the
\* order of their names, and of two with one id the longer name is the later.
ResolvedSlos(policy, services, env) ==
    LET all == ObjectiveSlos(policy, services, env)
    IN  {s \in all : \A t \in all : s.slo_id = t.slo_id => Len(t.service) <= Len(s.service)}

-----------------------------------------------------------------------------
(* The lint rules [SLO_PROFILE]. *)

Complete == {"statistic", "operator", "value"}

\* A layer states what it changes; the entity type must be complete.
PartialErrors(policy, name, obj) ==
    {x \in {"objective_name"} : name \notin policy.slo_profiles.objective_names}
        \cup {x \in {"target"} : "target" \in DOMAIN obj /\ obj.target \notin 1..99999}
        \cup {x \in {"timeframe"} : /\ "timeframe" \in DOMAIN obj
                                    /\ obj.timeframe \notin {"7d", "30d", "90d"}}
        \cup {x \in {"type"} : "type" \in DOMAIN obj /\ obj.type \notin {"metric", "monitor"}}
        \cup {x \in {"burn_window"} : /\ "burn_alerts" \in DOMAIN obj
                                      /\ ~(obj.burn_alerts \subseteq DOMAIN policy.burn_rate_windows)}
        \cup {x \in {"member"} : /\ "member_archetypes" \in DOMAIN obj
                                 /\ ~(obj.member_archetypes \subseteq DOMAIN policy.archetypes)}
        \cup {x \in {"threshold_field"} : /\ "threshold" \in DOMAIN obj
                                          /\ ~(DOMAIN obj.threshold \subseteq Complete \cup {"unit"})}

FullErrors(obj) ==
    {x \in {"threshold_incomplete"} : /\ "threshold" \in DOMAIN obj
                                      /\ ~(Complete \subseteq DOMAIN obj.threshold)}
        \cup {x \in {"threshold_unit"} : /\ "threshold" \in DOMAIN obj
                                         /\ "value" \in DOMAIN obj.threshold
                                         /\ obj.threshold.value[1] = "num"
                                         /\ "unit" \notin DOMAIN obj.threshold}
        \cup {x \in {"sli_missing"} : /\ "type" \in DOMAIN obj
                                      /\ obj.type = "metric"
                                      /\ "sli" \notin DOMAIN obj}
        \cup {x \in {"members_missing"} : /\ "type" \in DOMAIN obj
                                          /\ obj.type = "monitor"
                                          /\ "member_archetypes" \notin DOMAIN obj}
        \cup {x \in {"sli_side"} : /\ "sli" \in DOMAIN obj
                                   /\ DOMAIN obj.sli # {"numerator", "denominator"}}

ErrorsIn(policy, objectives) ==
    UNION {PartialErrors(policy, o, objectives[o]) : o \in DOMAIN objectives}

EntityTypeErrors(policy) ==
    LET types == policy.slo_profiles.by_entity_type
    IN  {x \in {"entity_type"} : ~(DOMAIN types \subseteq DOMAIN policy.service_archetypes)}
            \cup UNION {ErrorsIn(policy, types[t])
                            \cup UNION {FullErrors(types[t][o]) : o \in DOMAIN types[t]} :
                        t \in DOMAIN types}

\* The criticality layer comes later and would overwrite these two.
PlatformErrors(policy) ==
    LET platforms == policy.slo_profiles.by_platform
    IN  {x \in {"platform"} : ~(DOMAIN platforms \subseteq DOMAIN policy.domains)}
            \cup (UNION {ErrorsIn(policy, platforms[p]) : p \in DOMAIN platforms})
            \cup {x \in {"overwritten"} : \E p \in DOMAIN platforms :
                      \E o \in DOMAIN platforms[p] :
                          DOMAIN platforms[p][o] \cap {"target", "burn_alerts"} # {}}

ProfileErrors(policy) ==
    LET profiles == policy.slo_profiles.profiles
        types == policy.slo_profiles.by_entity_type
    IN  {x \in {"profile_types"} : \E p \in DOMAIN profiles :
              \/ profiles[p].entity_types = {}
              \/ ~(profiles[p].entity_types \subseteq DOMAIN policy.service_archetypes)}
            \cup (UNION {ErrorsIn(policy, profiles[p].objectives) : p \in DOMAIN profiles})
            \cup {x \in {"no_sli"} : \E p \in DOMAIN profiles :
                      \E t \in profiles[p].entity_types :
                          ~(DOMAIN profiles[p].objectives \subseteq DOMAIN FieldsAt(types, t))}

ServiceSloErrors(policy, service) ==
    LET slos == ResolvedSlos(policy, {service}, "prod")
    IN  {x \in {"profile_unknown"} : service.slo.profile \notin
                  DOMAIN policy.slo_profiles.profiles \cup {None}}
            \cup {x \in {"profile_mismatch"} :
                      /\ service.slo.profile \in DOMAIN policy.slo_profiles.profiles
                      /\ service.service_archetype \notin ProfileOf(policy, service).entity_types}
            \cup ErrorsIn(policy, service.slo.objectives)
            \cup {x \in {"rationale"} : \E o \in DOMAIN service.slo.objectives :
                      "rationale" \notin DOMAIN service.slo.objectives[o]}
            \cup {x \in {"sli_side"} : \E s \in slos :
                      s.type = "metric" /\ ~({"numerator", "denominator"} \subseteq DOMAIN s.query)}
            \cup {x \in {"placeholder"} : \E s \in slos :
                      s.type = "metric" /\ \E side \in DOMAIN s.query : s.query[side].marks # {}}
            \cup {x \in {"slo_team"} : \E s \in slos : s.team \notin DOMAIN policy.teams}
            \cup {x \in {"threshold_incomplete"} : \E s \in slos :
                      s.threshold # <<>> /\ ~(Complete \subseteq DOMAIN s.threshold)}

\* Two services may not resolve one id.
DuplicateIds(policy, services) ==
    LET slos == ObjectiveSlos(policy, services, "prod")
    IN  {x \in {"duplicate_id"} : \E s, t \in slos :
            s.service # t.service /\ s.slo_id = t.slo_id}

ValidateSlos(policy, services) ==
    EntityTypeErrors(policy) \cup PlatformErrors(policy) \cup ProfileErrors(policy)
        \cup (UNION {ServiceSloErrors(policy, s) : s \in services})
        \cup DuplicateIds(policy, services)

=============================================================================
