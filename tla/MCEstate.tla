------------------------------ MODULE MCEstate ------------------------------
(* A small repository: two service archetypes, two environments, one of    *)
(* each kind of policy file, and pull requests that are each fine alone.   *)
EXTENDS Estate

Query(metric, keys, functions) ==
    [metrics |-> {metric}, events |-> {}, scoped |-> TRUE, keys |-> keys,
     functions |-> functions, behavioral |-> TRUE]

Archetype(domain, impact, detection, envs, bands, source, type) ==
    [domain |-> domain, signal |-> "errors", impact_class |-> impact,
     detection |-> detection, rationale |-> detection = "threshold",
     notes |-> detection # "threshold", monitor_type |-> type,
     resource_type |-> domain, envs |-> envs, bands |-> bands, mandatory |-> TRUE,
     thresholds |-> [critical |-> 5], predictive_variant |-> None,
     telemetry |-> {source}, query |-> Query(<<source, "value">>, {"service"}, {detection} \ {"threshold"}),
     group_by |-> {"service"}, notify_by |-> {}, auto_resolve_hours |-> {4},
     slo_id |-> <<"slo-app">>, runbook |-> "rb", workflow |-> "wf",
     slo_relation |-> "supporting"]

Env(ceiling, paging, bands, impact) ==
    [alerting |-> TRUE, bands_instantiated |-> bands, priority_ceiling |-> ceiling,
     paging_allowed |-> paging, slo_impact |-> impact]

Metric(marks) == [numerator |-> [text |-> "good", marks |-> marks],
                  denominator |-> [text |-> "all", marks |-> {"SERVICE"}]]

Matrix(critical, baseline) ==
    [critical |-> critical, standard |-> 2, baseline |-> baseline]

\* The dependencies of both objectives are accepted, and orders is silent on its first day.
Exceptions ==
    LET E(id, control, expires) ==
            [id |-> id, control |-> control, service |-> <<>>, archetype |-> None, env |-> None,
             check |-> None,
             applies_to |-> "all", value |-> None, max |-> 2, owner |-> "sre",
             approved_by |-> "sre", approved_on |-> 0, expires |-> expires]
    IN  <<[E("X1", "finding_acceptance", 2) EXCEPT !.check = "C13",
              !.applies_to = "declared_telemetry_dependency"],
          [E("X2", "monitoring_profile", 0) EXCEPT !.service = <<"orders">>, !.env = "prod",
              !.value = "observe_only"]>>

BasePolicy ==
    [service_archetypes |->
        [api |-> [packs |-> {"api-core"}, packs_by_platform |-> <<>>, domain |-> "application"],
         datastore |-> [packs |-> {"db-core"},
                        packs_by_platform |-> [azure_sql |-> {"sql"}], domain |-> "database"],
         infrastructure_resource |-> [packs |-> {}, packs_by_platform |-> <<>>,
                                      domain |-> "application"]],
     packs |-> ("api-core" :> {"error-rate"}) @@ ("db-core" :> {"db-up"}) @@ ("sql" :> {"deadlock"}),
     archetypes |->
        ("error-rate" :> Archetype("application", "outage", "anomaly", {"prod", "qa"},
                                   {"critical", "baseline"}, "apm", "query alert"))
        @@ ("db-up" :> [Archetype("database", "outage", "threshold", {"prod", "qa"},
                                  {"critical", "baseline"}, "agent", "service check")
                            EXCEPT !.slo_relation = "sli_producing"])
        @@ ("deadlock" :> Archetype("database", "degraded", "anomaly", {"prod"},
                                    {"baseline"}, "agent", "query alert")),
     matrix |-> [outage |-> Matrix(1, 3), degraded |-> Matrix(2, 4)],
     environments |-> [prod |-> Env(1, TRUE, {"critical", "standard", "baseline"}, TRUE),
                       qa |-> Env(3, FALSE, {"baseline"}, FALSE)],
     p2_pages_only_from |-> {"slo_burn", "composite"},
     telemetry_sources |-> [apm |-> [metrics |-> {<<"apm">>}, events |-> {}],
                            agent |-> [metrics |-> {<<"agent">>}, events |-> {}]],
     scorecards |->
        [entity_kinds |->
            [service |-> [min_score |-> 80, weights |->
                [actionability |-> 25, ownership |-> 20, detection |-> 15, slo_linkage |-> 20,
                 cardinality |-> 5, paging |-> 10, metadata |-> 5]],
             datastore |-> [min_score |-> 75, weights |->
                [actionability |-> 25, ownership |-> 20, detection |-> 15, slo_linkage |-> 5,
                 durability |-> 10, cardinality |-> 15, paging |-> 5, metadata |-> 5]]],
         resource_type_kind |-> [application |-> "service", database |-> "datastore"],
         service_archetype_kind |-> [api |-> "service", datastore |-> "datastore",
                                     infrastructure_resource |-> "service"],
         durability_signals |-> {}],
     kind_by_service_archetype |-> [api |-> "service", datastore |-> "datastore",
                                    infrastructure_resource |-> None],
     entity_kinds |->
        [service |-> [datadog_kind |-> "service", emits |-> TRUE, spec_depends_on |-> TRUE,
                      spec_components |-> FALSE, spec_component_of |-> TRUE,
                      requires_archetype |-> TRUE,
                      performance_data |-> TRUE],
         datastore |-> [datadog_kind |-> "datastore", emits |-> TRUE, spec_depends_on |-> FALSE,
                        spec_components |-> FALSE, spec_component_of |-> TRUE,
                        requires_archetype |-> TRUE,
                        performance_data |-> FALSE],
         system |-> [datadog_kind |-> "system", emits |-> TRUE, spec_depends_on |-> FALSE,
                     spec_components |-> TRUE, spec_component_of |-> FALSE,
                     requires_archetype |-> FALSE,
                     performance_data |-> FALSE],
         repository |-> [datadog_kind |-> None, emits |-> FALSE, spec_depends_on |-> FALSE,
                         spec_components |-> FALSE, spec_component_of |-> FALSE,
                         requires_archetype |-> FALSE,
                         performance_data |-> FALSE]],
     datadog_entity_kinds |-> {"service", "datastore", "system"},
     teams |-> [apps |-> [email |-> "apps@"], sre |-> [email |-> "sre@"]],
     tiers |->
        [tier0 |-> [monitoring_profile |-> "critical", alert_band |-> "critical",
                    slo |-> [scope |-> "per_service", objectives |-> [availability |-> 99900, latency |-> 99000],
                             burn_windows |-> {"fast"}]],
         tier2 |-> [monitoring_profile |-> "baseline", alert_band |-> "baseline",
                    slo |-> [scope |-> "domain", objectives |-> [availability |-> 99000, latency |-> 95000],
                             burn_windows |-> {"slow"}]],
         tier3 |-> [monitoring_profile |-> "observe_only", alert_band |-> "none",
                    slo |-> [scope |-> "none", objectives |-> <<>>, burn_windows |-> {}]]],
     profile_to_band |-> [critical |-> "critical", regulated |-> "critical",
                          baseline |-> "baseline", observe_only |-> "none"],
     slo_scopes |-> {"per_service", "domain", "none"},
     domains |-> [application |-> [owner_team |-> "apps", routing_override_team |-> None],
                  database |-> [owner_team |-> "sre", routing_override_team |-> None]],
     collapse_domains |-> {},
     slo_profiles |->
        [profiles |-> [fast |-> [entity_types |-> {"api"},
                                 objectives |-> [latency |-> [enabled |-> TRUE,
                                                   threshold |-> [value |-> <<"num", 200>>]]]]],
         by_entity_type |->
            [api |-> [availability |-> [sli |-> Metric({"SERVICE", "ENV"})],
                      latency |-> [enabled |-> FALSE, sli |-> Metric({"SERVICE", "LATENCY_BUCKET"}),
                                   threshold |-> [statistic |-> "p95", operator |-> "under",
                                                  value |-> <<"num", 500>>, unit |-> "ms"]]],
             datastore |-> [availability |-> [type |-> "monitor", member_archetypes |-> {"db-up"}]]],
         by_platform |-> <<>>, env_overrides |-> <<>>,
         defaults |-> [enabled |-> TRUE, type |-> "metric", target |-> 99000,
                       timeframe |-> "30d", burn_alerts |-> {"slow"}],
         materialize_when_slo_impact |-> TRUE, materialize_when_scope |-> "per_service",
         opt_in_via_service_yaml |-> TRUE, objective_names |-> {"availability", "latency"}],
     burn_rate_windows |-> [fast |-> "outage", slow |-> "degraded"],
     exceptions |-> Exceptions,
     max_duration_days |-> [finding_acceptance |-> 2],
     required_approver |-> [monitoring_profile |-> "sre"],
     unowned_pool |-> "sre",
     slos |-> {[slo_id |-> <<"slo-app">>, service |-> <<"apps">>, domain |-> "application",
                team |-> "apps", type |-> "metric", query |-> TRUE, member_archetypes |-> {},
                burn_alerts |-> {}, dependency |-> TRUE],
               [slo_id |-> <<"slo-db">>, service |-> <<"databases">>, domain |-> "database",
                team |-> "sre", type |-> "monitor", query |-> FALSE,
                member_archetypes |-> {"db-up"}, burn_alerts |-> {}, dependency |-> TRUE]},
     slo_relations |-> {"supporting", "sli_producing"},
     auto_resolve |-> [min_hours |-> 1, max_hours |-> 24, default_hours |-> 6],
     required_monitor_tags |-> {"team", "priority"},
     cardinality |-> [max_group_by_keys |-> 2, forbidden_group_keys |-> {"user_id"},
                      max_total_managed_monitors |-> 12, max_paging_monitors |-> 4,
                      max_p1_monitors |-> 4, max_instances_per_archetype |-> 4],
     behavioral_signals |-> {"errors"},
     notification_profiles |-> [production_critical |-> {1, 2}, nonprod_standard |-> {1, 3}],
     runbooks |-> ("rb" :> "notebook-1") @@ ("slo-error-budget-burn" :> "notebook-2"),
     workflows |-> [wf |-> [team |-> "sre", class |-> "diagnostic_only", declares |-> {},
                            reversible |-> "true", approval |-> None, read_only |-> TRUE]],
     workflow_requires |-> <<>>,
     composites |-> {[id |-> "app-db", members |-> {"error-rate", "db-up"}, envs |-> {"prod"},
                      bands |-> {"critical"}, impact_class |-> "degraded", demote |-> TRUE,
                      domain |-> "application", owner_team |-> "apps", cc_teams |-> {"sre"},
                      slo_id |-> <<"slo-app">>, runbook |-> "rb", workflow |-> "wf"]},
     composite_budget |-> [composites |-> 1, members |-> 2]]

Entity(name, kind, sa, tier, envs, slo) ==
    [name |-> name, kind |-> kind, service_archetype |-> sa, platform |-> None,
     team |-> "apps", owner |-> None, oncall |-> None, criticality |-> tier,
     domain |-> None, env |-> None, envs |-> envs, compliance_scope |-> None,
     monitoring_profile |-> None, slo |-> slo, dependencies |-> {}, components |-> {}]

Scope(scope) == [NoSlo EXCEPT !.scope = scope]

\* It depends on a datastore, and on something nobody registered.
Orders == [Entity(<<"orders">>, "service", "api", "tier0", {"qa", "prod"}, NoSlo)
               EXCEPT !.dependencies = {<<None, <<"orders", "sql">>>>, <<None, <<"entra">>>>}]

\* A system of three, one of which the catalog does not show, in a system.
BaseEntities ==
    {Entity(<<"orders", "code">>, "repository", None, "tier2", {"prod"}, NoSlo),
     [Entity(<<"shop">>, "system", None, "tier2", {"prod"}, NoSlo)
          EXCEPT !.components = {<<None, <<"orders">>>>, <<None, <<"orders", "code">>>>,
                                 <<"datastore", <<"orders", "sql">>>>}],
     [Entity(<<"retail">>, "system", None, "tier2", {"prod"}, NoSlo)
          EXCEPT !.components = {<<None, <<"shop">>>>}]}

\* "qa-pages" and "qa-critical" make a qa monitor page, together.
\* "qa-critical" promises orders a latency objective too, and "latency"
\* registers the service orders-latency: one id.  "retired" leaves the datastore
\* without alerts.
EntitiesOf(S) ==
    {IF "qa-critical" \in S THEN [Orders EXCEPT !.slo.profile = "fast"] ELSE Orders}
        \cup {[Entity(<<"orders", "sql">>, "datastore", "datastore",
                      IF "retired" \in S THEN "tier3" ELSE "tier0", {"prod"}, Scope("domain"))
                   EXCEPT !.platform = "azure_sql", !.oncall = "sre"]}
        \cup BaseEntities
        \cup {e \in {Entity(<<"orders", "latency">>, "service", "api", "tier2", {"prod"},
                            Scope("per_service"))} : "latency" \in S}

\* "qa-pages" takes the ticket's route from qa, "latency" a diagnostic workflow
\* and a note from the archetypes: together they bring the average below 85.
PolicyWith(S) ==
    [BasePolicy EXCEPT
        !.notification_profiles.nonprod_standard = IF "qa-pages" \in S THEN {1} ELSE @,
        !.workflows["wf"].class = IF "latency" \in S THEN "guarded" ELSE @,
        !.archetypes["error-rate"].notes = "latency" \notin S,
        !.environments.qa.paging_allowed = "qa-pages" \in S,
        !.environments.qa.priority_ceiling = IF "qa-critical" \in S THEN 1 ELSE @,
        !.environments.qa.bands_instantiated =
            IF "qa-critical" \in S THEN @ \cup {"critical"} ELSE @]

\* A second monitor of the datastore, which pages: "latency" brings it, for as
\* long as the datastore is not retired.
OrdersSql ==
    [name |-> "orders-sql", archetype |-> "db-up", service |-> <<"orders", "sql">>,
     team |-> "apps", tier |-> None, envs |-> {"prod"}, slo |-> <<"slo-db">>, runbook |-> "rb",
     workflow |-> "wf", priority |-> 1, profile |-> None, anomaly |-> FALSE, forecast |-> FALSE,
     justified |-> TRUE, explained |-> FALSE, thresholds |-> [critical |-> <<5>>], query |-> {},
     group_by |-> {}, detection |-> {}, impact_class |-> {}, domain |-> {}, hours |-> {2}]

MCRepository ==
    [S \in SUBSET Changes |->
        [policy |-> PolicyWith(S), legacy |-> {}, entities |-> EntitiesOf(S),
         manifests |-> {m \in {OrdersSql} : "latency" \in S}]]

Tags(sa, tier) == [service_archetype |-> sa, tier |-> tier, team |-> "apps"]

Resource(id, kind, service, env, tags) ==
    [id |-> id, kind |-> kind, service |-> service, env |-> env, team |-> None, tags |-> tags]

OrdersPod == Resource("r1", "service", <<"orders">>, "prod", Tags("api", "tier0"))
OrdersDb == Resource("r2", "database", <<"orders", "sql">>, "prod",
                     [service_archetype |-> "datastore", tier |-> "tier0", team |-> "apps",
                      platform |-> "azure_sql"])

\* Discovery finds both, or the second under a wrong environment.
MCInventories ==
    {{OrdersPod, OrdersDb}, {OrdersPod, [OrdersDb EXCEPT !.env = "production"]}}

\* The small repository keeps to what the proofs assume.
ASSUME FilesAssumption == ChainsAlign /\ PlanOnlyRules

MCFragile == {<<"db-up">>, <<"slo-app">>}

=============================================================================
