----------------------------- MODULE SelfService -----------------------------
(***************************************************************************)
(* Self-service monitors: one manifest a team writes                       *)
(* (tools/validate_monitors.py), what the scorecard makes of it and what   *)
(* stacks/coverage/locals_custom.tf builds.  A manifest is [name,          *)
(* archetype, service, team, tier, envs, slo, runbook, workflow, priority, *)
(* profile, anomaly, forecast, justified, explained, thresholds, and the   *)
(* optional query, group_by, detection, impact_class, domain, hours: sets  *)
(* of at most one]; priority is 0 when it is not asked for, a threshold is *)
(* a number <<n>> or, for "auto", <<>>.  A query of its own is [text,      *)
(* envs, service, wildcard, behavioral, functions, rising]: the scopes it  *)
(* names, and which way its comparison looks.                              *)
(***************************************************************************)
EXTENDS Scorecard, CoverageStack

Answer(stated, fallback) == IF stated # {} THEN CHOOSE x \in stated : TRUE ELSE fallback

BaseOf(policy, m) ==
    {policy.archetypes[aid] : aid \in {m.archetype} \cap DOMAIN policy.archetypes}

AlertBand(policy, tier) == policy.tiers[tier].alert_band

-----------------------------------------------------------------------------
(* validate: every way to write a bad monitor is rejected before Terraform. *)

\* Only an archetype answers "auto", and a number next to the archetype's query
\* has to be the one that is in it.
ThresholdErrors(policy, m) ==
    LET autos == {k \in DOMAIN m.thresholds : m.thresholds[k] = <<>>}
        nums == (DOMAIN m.thresholds) \ autos
        base == BaseOf(policy, m)
    IN  Rule("critical", {x \in {m.thresholds} : DOMAIN x # {} /\ "critical" \notin DOMAIN x})
        \cup Rule("auto", {k \in autos : \A a \in base : k \notin DOMAIN a.thresholds})
        \cup Rule("overrides", {k \in nums : \E a \in base :
                 k \notin DOMAIN a.thresholds \/ <<a.thresholds[k]>> # m.thresholds[k]})
        \cup Rule("backwards", {q \in m.query :
                 /\ {"warning", "critical"} \subseteq nums
                 /\ LET warning == m.thresholds["warning"][1]
                        critical == m.thresholds["critical"][1]
                    IN  IF q.rising THEN warning > critical ELSE warning < critical})

\* What only the catalog or only the team itself can answer.
DefinitionErrors(policy, m) ==
    LET base == BaseOf(policy, m)
        queries == IF m.query # {} THEN m.query ELSE {a.query : a \in base}
        detection == Answer(m.detection, Answer({a.detection : a \in base}, None))
        Variant(a) == policy.archetypes[Given(a.predictive_variant, m.archetype)]
        keys == Answer(m.group_by, UNION {a.group_by : a \in base})
    IN  Rule("incomplete", {x \in {m} :
                 /\ x.archetype = "custom"
                 /\ \/ ~x.justified
                    \/ {} \in {x.query, x.detection, x.impact_class, x.domain}})
        \cup Rule("impact_class", {x \in m.impact_class :
                 m.archetype = "custom" /\ x \notin DOMAIN policy.matrix})
        \cup Rule("unscoped", {q \in m.query : m.archetype = "custom" /\
                 (~(m.envs \subseteq q.envs) \/ ~q.service \/ q.wildcard)})
        \cup Rule("group_keys", {x \in {keys} : Cardinality(x) > policy.cardinality.max_group_by_keys})
        \cup Rule("identity_key", keys \cap policy.cardinality.forbidden_group_keys)
        \cup Rule("no_variant", {a \in base :
                 m.anomaly /\ Variant(a).detection \notin {"anomaly", "seasonal_anomaly"}})
        \cup Rule("no_forecast", {x \in {detection} : m.forecast /\ x # "forecast"})
        \cup Rule("fixed", {q \in queries : q.behavioral /\ q.functions = {} /\ ~m.justified})
        \cup Rule("covered", {a \in base : ~m.justified})

\* A pager is not to be had by writing a priority into a file.
PagerErrors(policy, services, m) ==
    LET tiers == {s.tier : s \in Registration(services, m.service)}
    IN  Rule("low_tier", {x \in {m.priority} \cap {1, 2} :
                 AlertBand(policy, Answer(tiers, "tier2")) # "critical"})

ManifestErrors(policy, services, m) ==
    LET owners == {s.team : s \in Registration(services, m.service)}
    IN  Rule("team", {m.team} \ DOMAIN policy.teams)
        \cup Rule("slo", {m.slo} \ {s.slo_id : s \in policy.slos})
        \cup Rule("runbook", {m.runbook} \ DOMAIN policy.runbooks)
        \cup Rule("workflow", {m.workflow} \ DOMAIN policy.workflows)
        \cup Rule("archetype", {m.archetype} \ (DOMAIN policy.archetypes \cup {"custom"}))
        \cup Rule("env", m.envs \ {e \in DOMAIN policy.environments : policy.environments[e].alerting})
        \cup Rule("owner", {x \in {m.team} : x \notin owners})
        \cup Rule("profile", {m.profile} \ (DOMAIN policy.notification_profiles \cup {None}))
        \cup ThresholdErrors(policy, m) \cup DefinitionErrors(policy, m)
        \cup PagerErrors(policy, services, m)

-----------------------------------------------------------------------------
(* score_custom: the same seven dimensions, read off the manifest. *)

CustomKind(policy, services, m) ==
    LET types == {a.resource_type : a \in BaseOf(policy, m)}
        archetypes == {s.service_archetype : s \in Registration(services, m.service)}
    IN  IF types # {} THEN EntityKind(policy, Answer(types, None))
        ELSE IF archetypes # {} THEN policy.scorecards.service_archetype_kind[Answer(archetypes, None)]
        ELSE "service"

CustomDimensions(policy, services, m) ==
    LET base == BaseOf(policy, m)
        queries == IF m.query # {} THEN m.query ELSE {a.query : a \in base}
        keys == Answer(m.group_by, UNION {a.group_by : a \in base})
    IN  [actionability |->
            Points(10, m.runbook \in DOMAIN policy.runbooks)
                + Points(10, m.workflow \in DOMAIN policy.workflows) + Points(5, m.explained),
         ownership |-> Points(10, m.team \in DOMAIN policy.teams)
                           + Points(10, Registration(services, m.service) # {}),
         detection |-> IF \E q \in queries : q.functions # {} THEN 15 ELSE Points(10, m.justified),
         slo_linkage |-> Points(15, m.slo \in {s.slo_id : s \in policy.slos}),
         cardinality |->
            AtLeastZero(10 - Points(6, Cardinality(keys) > policy.cardinality.max_group_by_keys)
                           - Points(10, keys \cap policy.cardinality.forbidden_group_keys # {})),
         paging |-> Points(10, PagerErrors(policy, services, m) = {}),
         metadata |-> 5]

\* Re-weighted for the kind, and not checked by its rules.
CustomRow(policy, services, m) ==
    LET points == CustomDimensions(policy, services, m)
        kind == CustomKind(policy, services, m)
        durable == \E a \in BaseOf(policy, m) : a.resource_type \in DurabilityCoveredTypes(policy)
    IN  [instance |-> <<"custom", m.name>>, team |-> m.team, score |-> 10 * Total(points),
         kind |-> kind,
         entity_score |-> EntityScore(policy, kind, points,
                                      {x \in {"durability"} : ~durable}),
         findings |-> {}]

CustomRows(policy, services, manifests) == {CustomRow(policy, services, m) : m \in manifests}

-----------------------------------------------------------------------------
(* custom_instances: one monitor for each environment, under the same      *)
(* ceilings as the packs.                                                  *)

\* The predictive variant, where intent was declared and there is one.
BaseId(policy, m) ==
    IF m.archetype = "custom" \/ ~m.anomaly THEN m.archetype
    ELSE Answer({a.predictive_variant : a \in BaseOf(policy, m)} \ {None}, m.archetype)

CustomTier(docs, m) ==
    Answer({s.tier : s \in Registration(docs, m.service)}, Given(m.tier, "tier2"))

\* The plan looks up an archetype that is not in the catalog, or a band that
\* has no priority and that the factory refuses.
Unbuildable(policy, docs, m) ==
    \/ BaseId(policy, m) \notin DOMAIN policy.archetypes \cup {"custom"}
    \/ AlertBand(policy, CustomTier(docs, m)) = "none"

CustomInstance(policy, docs, m, env) ==
    LET base == {policy.archetypes[aid] : aid \in {BaseId(policy, m)} \cap DOMAIN policy.archetypes}
        place == policy.environments[env]
        band == AlertBand(policy, CustomTier(docs, m))
        impact == Answer(m.impact_class, Answer({a.impact_class : a \in base}, None))
        asked == IF m.priority # 0 THEN m.priority ELSE policy.matrix[impact][band]
        priority == Quieter(asked, place.priority_ceiling)
    IN  [key |-> <<"custom", env, m.name>>,
         text |-> Answer({q.text : q \in m.query}, <<"custom", BaseId(policy, m), env, m.service>>),
         archetype |-> BaseId(policy, m), env |-> env, band |-> band,
         domain |-> Answer(m.domain, Answer({a.domain : a \in base}, None)),
         priority |-> priority,
         pages |-> place.paging_allowed /\ priority = 1 /\ band = "critical",
         team |-> m.team, group_by |-> Answer(m.group_by, UNION {a.group_by : a \in base}),
         timeout_h |-> TimeoutOf(policy, m.hours),
         slo_id |-> m.slo, runbook |-> m.runbook, workflow |-> m.workflow,
         profile |-> IF m.profile # None THEN m.profile
                     ELSE IF env = "dev" THEN "nonprod_dev"
                     ELSE IF env \in {"qa", "stage"} THEN "nonprod_standard"
                     ELSE IF band = "critical" THEN "production_critical"
                     ELSE "production_standard"]

CustomInstances(policy, docs, manifests) ==
    UNION {{CustomInstance(policy, docs, m, env) :
                env \in {e \in m.envs : policy.environments[e].alerting}} :
           m \in {x \in manifests : ~Unbuildable(policy, docs, x)}}

CustomPlanFails(policy, docs, manifests) ==
    \/ \E m \in manifests : Unbuildable(policy, docs, m)
    \/ \E i \in CustomInstances(policy, docs, manifests) : InstanceRefused(policy, i)

==============================================================================
