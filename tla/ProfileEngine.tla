---------------------------- MODULE ProfileEngine ----------------------------
(***************************************************************************)
(* tools/applicability.py and tools/profile_engine.py: which monitors can  *)
(* fire on a resource, and the owner, tier, profile and band a resource is *)
(* assigned.  A resource is [id, kind, service, env, team, tags]; a name   *)
(* is a sequence of words and <<>> is no name; tags is a function.         *)
(* A telemetry survey is [estate, entities]: sources enabled for all, and  *)
(* [id, service, telemetry] records.                                       *)
(***************************************************************************)
EXTENDS PolicyCore

-----------------------------------------------------------------------------
(* Applicability. *)

Missing(policy, aid, available) ==
    ArchetypeTelemetry(policy, policy.archetypes[aid]) \ available

EvaluateArchetypes(policy, aids, available) ==
    [applicable |-> {a \in aids : Missing(policy, a, available) = {}},
     blocked |-> {a \in aids : Missing(policy, a, available) # {}}]

-----------------------------------------------------------------------------
(* The profile engine, in the order of its numbered steps. *)

KindServiceArchetype ==
    [host |-> "infrastructure_resource", vm |-> "infrastructure_resource",
     database |-> "datastore", queue |-> "event_consumer", service |-> "api",
     certificate |-> "platform_service", log_source |-> "platform_service"]

\* The approved exceptions on the profile: of two with one scope the later of
\* the file stays.  Their dates are not looked at.
ProfileExceptions(policy, service, env) ==
    {i \in DOMAIN policy.exceptions :
        /\ policy.exceptions[i].control = "monitoring_profile"
        /\ policy.exceptions[i].service = service
        /\ policy.exceptions[i].env = env}
ExceptionOf(policy, service, env) ==
    LET exact == ProfileExceptions(policy, service, env)
        any == ProfileExceptions(policy, service, None)
        Latest(S) == CHOOSE i \in S : \A j \in S : j <= i
    IN  IF exact # {} THEN {policy.exceptions[Latest(exact)]}
        ELSE IF any # {} THEN {policy.exceptions[Latest(any)]} ELSE {}

\* 1. An environment the vocabulary does not have is production.
Environment(policy, r) ==
    LET env == Given(r.env, TagOf(r.tags, "env"))
    IN  IF env \in DOMAIN policy.environments
        THEN [is |-> env, bad |-> {}]
        ELSE [is |-> "prod", bad |-> {"invalid_env"}]

\* 2. The archetype of the tag, or the one of the kind.
ServiceArchetype(policy, r) ==
    LET sa == TagOf(r.tags, "service_archetype")
    IN  IF sa \in DOMAIN policy.service_archetypes
        THEN [is |-> sa, bad |-> {}]
        ELSE [is |-> IF r.kind \in DOMAIN KindServiceArchetype
                     THEN KindServiceArchetype[r.kind] ELSE "infrastructure_resource",
              bad |-> {"service_archetype_inferred"}
                          \cup (IF sa # None THEN {"invalid_service_archetype"} ELSE {})]

\* 2b. A registration outranks a tag.
Platform(registered, r) ==
    IF \E s \in registered : s.platform # None
    THEN (CHOOSE s \in registered : TRUE).platform
    ELSE TagOf(r.tags, "platform")

\* 3. The same precedence for the tier; production is the stricter guess.
Tier(policy, registered, r, env) ==
    LET tag == TagOf(r.tags, "tier")
    IN  IF \E s \in registered : s.tier \in DOMAIN policy.tiers
        THEN [is |-> (CHOOSE s \in registered : TRUE).tier, bad |-> {}]
        ELSE IF tag \in DOMAIN policy.tiers THEN [is |-> tag, bad |-> {}]
        ELSE [is |-> IF env = "prod" THEN "tier2" ELSE "tier3",
              bad |-> {"tier_inferred"} \cup (IF tag # None THEN {"invalid_tier"} ELSE {})]

\* 4. Somebody owns it: the registration, the tag, the domain's team, and the
\* unowned pool for a team nobody registered.
Owner(policy, registered, r, domain) ==
    LET tagged == Given(TagOf(r.tags, "team"), r.team)
        team == IF \E s \in registered : s.team # None
                THEN (CHOOSE s \in registered : TRUE).team
                ELSE Given(tagged, policy.domains[domain].owner_team)
        source == IF \E s \in registered : s.team # None THEN "registry"
                  ELSE IF tagged # None THEN "tag" ELSE "domain_default"
    IN  IF team \in DOMAIN policy.teams
        THEN [is |-> team, source |-> source,
              bad |-> {x \in {"owner_inferred"} : source = "domain_default"}]
        ELSE [is |-> policy.unowned_pool, source |-> "unowned_pool",
              bad |-> {"unknown_team", "owner_inferred"}]

Regulated(registered, r, domain) ==
    \/ domain = "security"
    \/ TagOf(r.tags, "compliance_scope") # None
    \/ \E s \in registered : s.compliance_scope # None

\* QA and DEV only ever run the baseline packs, whatever the tier says.
Clamped(profile, env) ==
    IF env \in {"qa", "dev"} /\ profile \in {"standard", "critical"} THEN "baseline" ELSE profile

\* 5. The profile the policy gives, and why when it is observe_only.
ProfileByPolicy(policy, registered, r, env, domain, tier) ==
    LET exc == ExceptionOf(policy, r.service, env)
        byTier == Clamped(policy.tiers[tier].monitoring_profile, env)
    IN  CASE exc # {} -> [is |-> (CHOOSE e \in exc : TRUE).value, reason |-> "exception"]
          [] exc = {} /\ ~policy.environments[env].alerting ->
                [is |-> "observe_only", reason |-> "environment"]
          [] exc = {} /\ policy.environments[env].alerting /\ Regulated(registered, r, domain) ->
                [is |-> "regulated", reason |-> None]
          [] OTHER -> [is |-> byTier,
                       reason |-> IF byTier = "observe_only" THEN "tier" ELSE None]

\* What the survey says a resource emits: by its id, and by its service.
TelemetryFor(survey, r) ==
    survey.estate
        \cup UNION {e.telemetry : e \in {x \in survey.entities :
                 x.id = r.id \/ (x.service # <<>> /\ x.service = r.service)}}

\* 7. A profile none of whose monitors can fire is observe_only.
Blind(v) == v.applicable = {} /\ v.blocked # {}

AssignOne(policy, services, surveys, r) ==
    LET registered == Registration(services, r.service)
        env == Environment(policy, r)
        sa == ServiceArchetype(policy, r)
        domain == policy.service_archetypes[sa.is].domain
        tier == Tier(policy, registered, r, env.is)
        owner == Owner(policy, registered, r, domain)
        byPolicy == ProfileByPolicy(policy, registered, r, env.is, domain, tier.is)
        aimed == ArchetypesFor(policy, sa.is, Platform(registered, r), FALSE)
        verdicts == {EvaluateArchetypes(policy, aimed, TelemetryFor(s, r)) : s \in surveys}
        demoted == byPolicy.is # "observe_only" /\ \E v \in verdicts : Blind(v)
        profile == IF demoted THEN "observe_only" ELSE byPolicy.is
        missing == UNION {UNION {Missing(policy, a, TelemetryFor(s, r)) : a \in aimed} :
                          s \in surveys}
    IN  [id |-> r.id, kind |-> r.kind, service |-> r.service, env |-> env.is,
         service_archetype |-> sa.is, platform |-> Platform(registered, r),
         domain |-> domain, team |-> owner.is, owner_source |-> owner.source,
         tier |-> tier.is, monitoring_profile |-> profile,
         alert_band |-> policy.profile_to_band[profile],
         observe_only_reason |-> IF profile # "observe_only" THEN None
                                 ELSE IF demoted THEN "telemetry" ELSE byPolicy.reason,
         telemetry_missing |-> missing,
         registered |-> registered # {},
         violations |-> env.bad \cup sa.bad \cup tier.bad \cup owner.bad
                            \cup {x \in {"telemetry_missing"} : missing # {}}]

\* surveys is {} when no --telemetry file is given, and one survey otherwise.
Assign(policy, services, surveys, resources) ==
    {AssignOne(policy, services, surveys, r) : r \in resources}

Alertable(assignments) == {a \in assignments : a.alert_band # "none"}

=============================================================================
