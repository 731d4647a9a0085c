------------------------------ MODULE Scorecard ------------------------------
(***************************************************************************)
(* tools/monitor_scorecard.py: every instance of the catalog scored in     *)
(* seven dimensions, re-weighted for the kind of thing it watches, and     *)
(* averaged into gates. Points are whole, scores are in tenths rounded     *)
(* half up. Metadata is left out: the lint requires every field it counts. *)
(***************************************************************************)
EXTENDS PolicyLint

Weights ==
    [actionability |-> 25, ownership |-> 20, detection |-> 15, slo_linkage |-> 15,
     cardinality |-> 10, paging |-> 10, metadata |-> 5]

Points(n, condition) == IF condition THEN n ELSE 0
AtLeastZero(n) == IF n > 0 THEN n ELSE 0

TeamOf(policy, i) ==
    Given(policy.domains[i.domain].routing_override_team, policy.domains[i.domain].owner_team)

SloOf(policy, a) == {s \in policy.slos : s.slo_id = a.slo_id}

\* What the catalog expands to, and nothing Terraform adds to it: neither an
\* exception's floor nor a composite's demotion is scored.
Dimensions(policy, i) ==
    LET a == policy.archetypes[i.archetype]
        profile == ResolveNotificationProfile(i.domain, i.env, i.band)
        keys == Cardinality(a.group_by)
        card == policy.cardinality
    IN  [actionability |->
            Points(10, a.runbook \in DOMAIN policy.runbooks)
                + Points(8, a.workflow \in DOMAIN policy.workflows)
                + Points(2, /\ a.workflow \in DOMAIN policy.workflows
                            /\ policy.workflows[a.workflow].class = "diagnostic_only")
                + Points(5, a.notes \/ a.rationale),
         ownership |->
            Points(10, TeamOf(policy, i) \in DOMAIN policy.teams)
                + Points(10, /\ profile \in DOMAIN policy.notification_profiles
                             /\ i.priority \in policy.notification_profiles[profile]),
         detection |->
            IF a.query.functions # {} THEN 15
            ELSE IF a.signal \notin policy.behavioral_signals THEN 13
            ELSE Points(10, a.rationale),
         slo_linkage |->
            Points(12, SloOf(policy, a) # {})
                + Points(3, \E s \in SloOf(policy, a) : ~s.dependency),
         cardinality |->
            AtLeastZero(10 - Points(6, keys > card.max_group_by_keys)
                           - Points(10, a.group_by \cap card.forbidden_group_keys # {})
                           - Points(4, /\ i.domain \in policy.collapse_domains
                                       /\ keys >= 2 /\ a.notify_by = {})),
         paging |-> Points(10, i.pages => i.env = "prod" /\ i.priority = 1),
         metadata |-> 5]

Total(points) == FoldFunction(LAMBDA x, y : x + y, 0, points)

\* The two rules of a datastore, the one of a service and the one of a fleet.
EntityFindings(policy, kind, i) ==
    LET a == policy.archetypes[i.archetype]
    IN  {x \in {"no_objective"} : /\ kind = "service" /\ a.impact_class = "customer_impact"
                                  /\ SloOf(policy, a) = {}}
            \cup {x \in {"durability"} : /\ kind = "datastore"
                                         /\ a.resource_type \notin DurabilityCoveredTypes(policy)}
            \cup {x \in {"capacity_pages"} : /\ kind = "datastore" /\ i.pages
                                             /\ a.signal \in {"capacity", "saturation"}}
            \cup {x \in {"no_collapse"} : /\ kind = "infrastructure"
                                          /\ Cardinality(a.group_by) >= 2 /\ a.notify_by = {}}

\* The same dimensions as ratios, under the weights of the kind; durability
\* belongs to a technology and not to one of its monitors.
EntityScore(policy, kind, points, findings) ==
    LET weights == policy.scorecards.entity_kinds[kind].weights
    IN  Total([d \in DOMAIN weights |->
            IF d = "durability" THEN Points(10 * weights[d], "durability" \notin findings)
            ELSE (20 * points[d] * weights[d] + Weights[d]) \div (2 * Weights[d])])

ScoreRow(policy, i) ==
    LET points == Dimensions(policy, i)
        kind == EntityKind(policy, policy.archetypes[i.archetype].resource_type)
        findings == EntityFindings(policy, kind, i)
    IN  [instance |-> <<i.archetype, i.env, i.band>>, team |-> TeamOf(policy, i),
         score |-> 10 * Total(points), kind |-> kind,
         entity_score |-> EntityScore(policy, kind, points, findings), findings |-> findings]

ScoreRows(policy) == {ScoreRow(policy, i) : i \in ExpandInstances(policy)}

Average(total, n) == IF n = 0 THEN 0 ELSE (2 * total + n) \div (2 * n)
FleetAverage(rows) == Average(MapThenSumSet(LAMBDA r : r.score, rows), Cardinality(rows))
KindAverage(rows, kind) ==
    LET group == {r \in rows : r.kind = kind}
    IN  Average(MapThenSumSet(LAMBDA r : r.entity_score, group), Cardinality(group))

\* --min-fleet-score 85 --max-failing 0
FleetPasses(rows) == FleetAverage(rows) >= 850 /\ \A r \in rows : r.score >= 600

\* --enforce-entity-minimums
MinimumsMet(policy, rows) ==
    \A kind \in DOMAIN policy.scorecards.entity_kinds :
        KindAverage(rows, kind) >= 10 * policy.scorecards.entity_kinds[kind].min_score

\* What the test suite asserts of the committed policy, before anything is
\* applied: both gates, a score for every owning team, no open finding but the
\* durability backlog.
SuiteAccepts(policy, rows) ==
    /\ FleetPasses(rows) /\ MinimumsMet(policy, rows)
    /\ {TeamOf(policy, [domain |-> d]) : d \in DOMAIN policy.domains} \subseteq {r.team : r \in rows}
    /\ \A r \in rows : r.findings \subseteq {"durability"}

=============================================================================
