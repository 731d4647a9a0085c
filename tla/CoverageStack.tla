---------------------------- MODULE CoverageStack ----------------------------
(***************************************************************************)
(* stacks/coverage: the objectives and the monitors Terraform builds, from *)
(* the same YAML as the Python tools and in a transcription of its own.  A *)
(* try() chain is a sequence of blocks, latest layer first: the first one  *)
(* that states the field answers.                                          *)
(***************************************************************************)
EXTENDS SloResolver

\* local.service_docs: every registration under one shape.
ServiceDocs(legacy, entities) == LoadServices(legacy, entities)

\* Which services get objectives of their own.
\* (Or any that declares an slo block.)
SvcSloServicesAnyBlock(policy, docs) ==
    {s \in docs : /\ "prod" \in s.envs
                  /\ \/ s.slo # NoSlo
                     \/ policy.tiers[s.tier].slo.scope
                            = policy.slo_profiles.materialize_when_scope}
SvcSloServices(policy, docs) ==
    {s \in docs : /\ "prod" \in s.envs
                  /\ Given(s.slo.scope, policy.tiers[s.tier].slo.scope)
                         = policy.slo_profiles.materialize_when_scope}

\* try(block1.field, block2.field, ..., fallback).
Try(blocks, field, fallback) ==
    IF \E i \in DOMAIN blocks : field \in DOMAIN blocks[i]
    THEN blocks[CHOOSE i \in DOMAIN blocks :
                    /\ field \in DOMAIN blocks[i]
                    /\ \A j \in 1..(i - 1) : field \notin DOMAIN blocks[j]][field]
    ELSE fallback

\* One objective of one service, field by field.
SvcResolved(policy, s, objective) ==
    LET doc == policy.slo_profiles
        own == FieldsAt(s.slo.objectives, objective)
        profile == IF s.slo.profile \in DOMAIN doc.profiles
                   THEN FieldsAt(doc.profiles[s.slo.profile].objectives, objective) ELSE <<>>
        platform == FieldsAt(FieldsAt(doc.by_platform,
                        policy.service_archetypes[s.service_archetype].domain), objective)
        type == FieldsAt(FieldsAt(doc.by_entity_type, s.service_archetype), objective)
        slo == policy.tiers[s.tier].slo
        target == IF objective \in DOMAIN slo.objectives
                  THEN [target |-> slo.objectives[objective]] ELSE <<>>
        windows == [burn_alerts |-> slo.burn_windows]
    IN  [enabled |-> Try(<<own, profile, type>>, "enabled", doc.defaults.enabled),
         type |-> Try(<<own, profile, platform, type>>, "type", doc.defaults.type),
         target |-> Try(<<own, profile, target, type>>, "target", doc.defaults.target),
         burn_alerts |-> Try(<<own, profile, windows, type>>, "burn_alerts", doc.defaults.burn_alerts),
         member_archetypes |-> Try(<<profile, type>>, "member_archetypes", {})]

\* The windows a burn alert is built for: none with a member Datadog refuses.
SvcBurnWindows(policy, r) ==
    IF /\ r.type = "monitor"
       /\ \E m \in r.member_archetypes : \/ m \notin DOMAIN policy.archetypes
                                         \/ policy.archetypes[m].monitor_type # "query alert"
    THEN {} ELSE r.burn_alerts

\* Every (service, objective) that is enabled.
SvcObjectives(policy, docs) ==
    UNION {{[slo_id |-> SloIdFor(s.name, o), service |-> s.name, team |-> s.team,
             domain |-> policy.service_archetypes[s.service_archetype].domain,
             type |-> SvcResolved(policy, s, o).type,
             member_archetypes |-> SvcResolved(policy, s, o).member_archetypes,
             target |-> SvcResolved(policy, s, o).target,
             burn_alerts |-> SvcBurnWindows(policy, SvcResolved(policy, s, o))] :
                o \in {x \in DOMAIN FieldsAt(policy.slo_profiles.by_entity_type,
                                             s.service_archetype) :
                          SvcResolved(policy, s, x).enabled}} :
           s \in SvcSloServices(policy, docs)}

-----------------------------------------------------------------------------
(* The monitors. An instance is [key, text, archetype, env, band, domain,  *)
(* priority, pages, team, group_by, timeout_h, slo_id, runbook, workflow,  *)
(* profile]: text is what its query reads.                                 *)

Rank == [P1 |-> 1, P2 |-> 2, P3 |-> 3, P4 |-> 4]

PriorityExceptions(policy, scope) ==
    {e \in {policy.exceptions[i] : i \in DOMAIN policy.exceptions} :
        e.control = "priority" /\ <<e.archetype, e.env>> = scope}

\* The rank an exception asks for: its own environment's, or any one's.
Floor(policy, aid, env) ==
    LET own == PriorityExceptions(policy, <<aid, env>>)
        any == PriorityExceptions(policy, <<aid, None>>)
    IN  IF own # {} THEN Rank[(CHOOSE e \in own : TRUE).value]
        ELSE IF any # {} THEN Rank[(CHOOSE e \in any : TRUE).value] ELSE 1

OwningTeam(domain) == Given(domain.routing_override_team, domain.owner_team)

\* coalesce(): the archetype's own window, or what the policy's tables say.
TimeoutOf(policy, hours) ==
    IF hours # {} THEN CHOOSE h \in hours : TRUE ELSE policy.auto_resolve.default_hours

\* archetype x environment x band, where all three agree.
Candidates(policy) ==
    UNION {{<<p[1], p[2], band>> : band \in policy.archetypes[p[1]].bands
                                             \cap policy.environments[p[2]].bands_instantiated} :
           p \in {q \in (DOMAIN policy.archetypes) \X (DOMAIN policy.environments) :
               q[2] \in policy.archetypes[q[1]].envs /\ policy.environments[q[2]].alerting}}

\* An exception may make an instance quieter, and so may the ceiling; only P1
\* in the critical band pages.
InstanceOf(policy, c) ==
    LET a == policy.archetypes[c[1]]
        env == policy.environments[c[2]]
        priority == Quieter(Quieter(policy.matrix[a.impact_class][c[3]], env.priority_ceiling),
                            Floor(policy, c[1], c[2]))
    IN  [key |-> <<"instance">> \o c, text |-> c, archetype |-> c[1], env |-> c[2], band |-> c[3],
         domain |-> a.domain, priority |-> priority,
         pages |-> env.paging_allowed /\ c[3] = "critical" /\ priority = 1,
         team |-> OwningTeam(policy.domains[a.domain]), group_by |-> a.group_by,
         timeout_h |-> TimeoutOf(policy, a.auto_resolve_hours),
         slo_id |-> a.slo_id, runbook |-> a.runbook, workflow |-> a.workflow,
         profile |-> ResolveNotificationProfile(a.domain, c[2], c[3])]

\* A composite exists for an environment and band when each member does.
Resolvable(policy) ==
    {t \in UNION {{c} \X c.envs \X c.bands : c \in policy.composites} :
        /\ policy.environments[t[2]].alerting
        /\ \A m \in t[1].members : <<m, t[2], t[3]>> \in Candidates(policy)}

Demoted(policy) ==
    UNION {{<<"instance", m, t[2], t[3]>> : m \in t[1].members \cap DOMAIN policy.archetypes} :
           t \in {x \in Resolvable(policy) : x[1].demote}}

\* The composite carries the page of the members it demotes.
ArchetypeInstances(policy) ==
    LET demoted == Demoted(policy)
    IN  {IF i.key \in demoted
         THEN [i EXCEPT !.priority = 4, !.pages = FALSE,
                        !.profile = IF i.env \in {"dev", "qa", "stage"} THEN "nonprod_standard"
                                    ELSE IF i.domain = "security" THEN "security_operational"
                                    ELSE "production_baseline"]
         ELSE i : i \in {InstanceOf(policy, c) : c \in Candidates(policy)}}

CompositeInstances(policy) ==
    {LET c == t[1]
         env == policy.environments[t[2]]
         priority == Quieter(policy.matrix[c.impact_class][t[3]], env.priority_ceiling)
     IN  [key |-> <<"composite", c.id, t[2], t[3]>>, text |-> <<"composite", c.id, t[2], t[3]>>,
          archetype |-> "composite",
          env |-> t[2], band |-> t[3], domain |-> c.domain, priority |-> priority,
          pages |-> env.paging_allowed /\ t[3] = "critical" /\ priority <= 2,
          team |-> c.owner_team, group_by |-> {}, timeout_h |-> TimeoutOf(policy, {}),
          slo_id |-> c.slo_id, runbook |-> c.runbook, workflow |-> c.workflow,
          profile |-> IF t[2] \in {"dev", "qa", "stage"} THEN "nonprod_standard"
                      ELSE "production_critical"] : t \in Resolvable(policy)}

\* What a burn alert is made for: domain objectives and services' own.
BurnSource(policy, docs) ==
    {<<s.slo_id, s.team, s.domain, s.burn_alerts>> : s \in policy.slos}
        \cup {<<o.slo_id, o.team, o.domain, o.burn_alerts>> : o \in SvcObjectives(policy, docs)}

\* In production only, critical, and paging at P2 too.
BurnInstances(policy, docs) ==
    UNION {{LET impact == policy.burn_rate_windows[w]
                priority == policy.matrix[impact]["critical"]
            IN  [key |-> <<"burn", s[1], w>>, text |-> <<"burn", s[1], w>>, archetype |-> "slo_burn", env |-> "prod",
                 band |-> "critical", domain |-> s[3], priority |-> priority,
                 pages |-> priority <= 2, team |-> s[2], group_by |-> {},
                 timeout_h |-> TimeoutOf(policy, {}), slo_id |-> s[1],
                 runbook |-> "slo-error-budget-burn", workflow |-> "auto-major-incident",
                 profile |-> "production_critical"] : w \in s[4]} :
           s \in BurnSource(policy, docs)}

Instances(policy, docs) ==
    ArchetypeInstances(policy) \cup BurnInstances(policy, docs) \cup CompositeInstances(policy)

\* The monitor factory: identity is in the tags, the runbook in one of them.
MonitorTags(policy, i) ==
    [managed_by |-> "terraform", archetype |-> i.archetype, env |-> i.env,
     alert_band |-> i.band, team |-> i.team, priority |-> <<"P1", "P2", "P3", "P4">>[i.priority],
     pages |-> IF i.pages THEN "true" ELSE "false", notification_profile |-> i.profile,
     slo_id |-> i.slo_id, runbook |-> i.runbook,
     runbook_notebook |-> TagOf(policy.runbooks, i.runbook), automation_ref |-> i.workflow,
     dedup_key |-> i.key]

\* What a monitor-type objective is measured by: the production, critical
\* instances of its members, and no service check under a burn alert.
MemberInstances(policy, s) ==
    {c \in Candidates(policy) :
        /\ c[1] \in s.member_archetypes /\ c[2] = "prod" /\ c[3] = "critical"
        /\ s.burn_alerts = {} \/ policy.archetypes[c[1]].monitor_type = "query alert"}

-----------------------------------------------------------------------------
(* When a plan fails: an object built with one key twice, or a             *)
(* precondition of a module.  The budgets of main.tf are check blocks,     *)
(* which only warn.                                                        *)

InstanceRefused(policy, i) ==
    LET card == policy.cardinality
    IN  \/ Cardinality(i.group_by) > card.max_group_by_keys
        \/ i.group_by \cap card.forbidden_group_keys # {}
        \/ i.timeout_h \notin policy.auto_resolve.min_hours..policy.auto_resolve.max_hours
        \/ None \in {i.runbook, i.workflow, i.team}
        \/ i.slo_id = <<>>
        \/ i.env = "dev" /\ i.priority # 4
        \/ i.pages /\ (i.env # "prod" \/ i.priority > 2)

CompositeRefused(policy, c) ==
    LET members == {policy.archetypes[m] : m \in c.members}
    IN  \/ Cardinality(c.members) \notin 2..policy.composite_budget.members
        \/ Cardinality({a.group_by : a \in members}) > 1
        \/ ~({OwningTeam(policy.domains[a.domain]) : a \in members}
                 \subseteq {c.owner_team} \cup c.cc_teams)

PlanFails(policy, docs) ==
    \/ \E x, y \in SvcObjectives(policy, docs) : x # y /\ x.slo_id = y.slo_id
    \/ \E i \in Instances(policy, docs) : InstanceRefused(policy, i)
    \/ \E t \in Resolvable(policy) : CompositeRefused(policy, t[1])
    \/ \E i, j \in DOMAIN policy.exceptions :
           LET e == policy.exceptions[i]
               f == policy.exceptions[j]
           IN  /\ i # j /\ e.control = "priority" /\ f.control = "priority"
               /\ <<e.archetype, e.env>> = <<f.archetype, f.env>>

==============================================================================
