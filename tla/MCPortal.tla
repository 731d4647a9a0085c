------------------------------- MODULE MCPortal -------------------------------
(* Two systems and what the portal reads of them: a fixture (version 0), a  *)
(* healthy estate with one unmet tier-1 promise to come, and a SEV-1.       *)
EXTENDS Portal, TLC

Slo(id, domain, service, sli, budget, error) ==
    [id |-> id, tags |-> [slo_id |-> id, domain |-> domain, service |-> service],
     thresholds |-> <<[timeframe |-> 30, target |-> 999]>>,
     statuses |-> <<[timeframe |-> 7, sli |-> {990}, budget |-> {10}, error |-> FALSE],
                    [timeframe |-> 30, sli |-> sli, budget |-> budget, error |-> error]>>]

\* slo-db carries no tags of its own: the policy completes it.
Slos_(api, db) ==
    {Slo("slo-api", "application", "api", api[1], api[2], FALSE),
     [Slo("slo-db", "", "", db[1], db[2], db[1] = {}) EXCEPT !.tags.slo_id = ""]}

Incident(id, severity, state, services, key) ==
    [id |-> id, severity |-> severity, state |-> state, created |-> {0}, detected |-> {},
     resolved |-> IF state = "resolved" THEN {1} ELSE {}, services |-> services,
     cause |-> "", correlation_key |-> key]

Event(id, key, service, status) ==
    [id |-> id, correlation_key |-> key, dedup_key |-> key, archetype |-> "disk-forecast",
     service |-> service, maintenance |-> FALSE, status |-> status, change |-> FALSE]

Host(version) == [name |-> version, version |-> version]

MCContents ==
    [slos |-> <<Slos_(<<{999}, {80}>>, <<{999}, {80}>>),
                Slos_(<<{998}, {0}>>, <<{}, {}>>)>>,
     incidents |-> <<{Incident("i1", "SEV-2", "resolved", {"api"}, <<"k1">>)},
                     {Incident("i1", "SEV-2", "resolved", {"api"}, <<"k1">>),
                      Incident("i2", "SEV-1", "active", {"api", "legacy"}, <<"k1">>),
                      Incident("i3", "", "active", {}, <<>>)}>>,
     events |-> <<{Event("e1", <<"k1">>, "api", "ok")},
                  {Event("e1", <<"k1">>, "api", "error"), Event("e2", <<"k1">>, "db", "error"),
                   Event("e3", <<>>, "db", "error")}>>,
     oncall |-> <<[schedules |-> {[name |-> "sre", layers |-> {"l1"}]},
                   members |-> [l1 |-> {"ann"}]],
                  [schedules |-> {[name |-> "sre", layers |-> {"l1"}], [name |-> "db", layers |-> {}]},
                   members |-> [l1 |-> {"ann"}]]>>,
     fleet |-> <<[hosts |-> {Host(2)}, total |-> {2}, expected |-> {}],
                 [hosts |-> {Host(2), Host(1)}, total |-> {}, expected |-> {3}]>>,
     cost |-> <<{[day |-> 1, total |-> {10}], [day |-> 2, total |-> {}]}, {}>>,
     policy |-> <<[slos |-> ("slo-api" :> [domain |-> "application", service |-> "api"])
                            @@ ("slo-db" :> [domain |-> "database", service |-> "db"]),
                   domains |-> {"application", "database"},
                   services |-> ("api" :> "tier1") @@ ("legacy" :> "tier3"),
                   forecasts |-> {"disk-forecast"}]>>,
     coverage |-> <<[gaps |-> {"slo-db"}, resources |-> 4, unowned |-> 1, coverage_pct |-> {90}]>>,
     reconciliation |-> [v \in 1..3 |->
        {[id |-> 1, slo |-> "slo-api", service |-> "api", attached |-> TRUE],
         [id |-> 2, slo |-> IF v = 1 THEN "" ELSE "slo-db", service |-> "db", attached |-> v = 2]}],
     scorecard |-> <<[application |-> "A", database |-> "C"]>>]

\* The recordings are the first state, but for the events.
MCRecorded == [source \in DOMAIN MCContents |->
                  [v \in 0..3 |->
                      IF source = "events" /\ v = 0
                      THEN {Event("e0", <<"unranked">>, "api", "error")}
                      ELSE MCContents[source][IF v \in DOMAIN MCContents[source] THEN v ELSE 1]]]

\* One group for a key, the first stage of tools/correlate_events.py.
MCCorrelate(signals) ==
    LET alerts == {s \in signals : s.kind = "alert"}
        Of(key) == {s \in alerts : s.correlation_key = key}
        Parent(key) == CHOOSE s \in Of(key) : TRUE
    IN  {[key |-> key, parent |-> Parent(key).service,
          children |-> {s.service : s \in Of(key) \ {Parent(key)}},
          creates_incident |-> Cardinality(Of(key)) > 1, pages |-> 1] :
            key \in {s.correlation_key : s \in alerts}}

\* A family whose cause and symptom have a priority no rank knows.
MCCorrelates(signals) == ~\E s \in signals : s.correlation_key = <<"unranked">>

MCJourneys == {<<<<"overview">>, <<"slo", "slo-db">>, <<"overview">>>>,
               <<<<"system", "database">>, <<"service", "api">>>>,
               <<<<"incident", "i2">>, <<"sources">>>>,
               <<<<"systems">>, <<"slos">>>>}
MCCallers == {[authenticated |-> TRUE, groups |-> {"exec"}],
              [authenticated |-> TRUE, groups |-> {}]}
MCGlance == {<<<<"overview">>>>}
MCCostOnly == {{"cost"}}
MCFlaky == {{"slos", "incidents"}, {"cost", "policy"}}
MCStaleAfter == [datadog |-> 2, report |-> 1, fixture |-> 2]

Symmetry == Permutations(Threads)

===============================================================================
