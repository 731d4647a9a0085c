---------------------------- MODULE EntityCatalog ----------------------------
(***************************************************************************)
(* tools/entity_resolver.py: an entity document of platform/entities/ and  *)
(* the catalog entity it resolves to.  Entities are a set of documents     *)
(* with distinct names; a reference is <<kind, name>>, its kind None when  *)
(* the document writes the bare name.                                      *)
(***************************************************************************)
EXTENDS PolicyCore

\* The kind: declared, or the one the service archetype implies.
InferKind(policy, e) ==
    IF e.kind # None THEN e.kind
    ELSE IF e.service_archetype \in DOMAIN policy.kind_by_service_archetype
         THEN policy.kind_by_service_archetype[e.service_archetype] ELSE None

\* entity_kinds.yaml's entry; a kind it does not know can do nothing.
KindPolicy(policy, kind) ==
    IF kind \in DOMAIN policy.entity_kinds THEN policy.entity_kinds[kind]
    ELSE [datadog_kind |-> None, emits |-> FALSE, spec_depends_on |-> FALSE,
          spec_components |-> FALSE, spec_component_of |-> FALSE,
          requires_archetype |-> FALSE,
          performance_data |-> FALSE]

PolicyOfEntity(policy, e) == KindPolicy(policy, InferKind(policy, e))
DatadogKind(policy, e) == PolicyOfEntity(policy, e).datadog_kind
Emits(policy, e) == PolicyOfEntity(policy, e).emits

EntityNamed(entities, name) == CHOOSE e \in entities : e.name = name

-----------------------------------------------------------------------------
(* References, dependencies, systems. *)

\* A typed reference is itself; a bare name takes the registered entity's
\* kind, and is a service when nothing registers it.
EntityRef(policy, entities, ref) ==
    IF ref[1] # None THEN ref
    ELSE IF \E e \in entities : e.name = ref[2]
         THEN <<Given(DatadogKind(policy, EntityNamed(entities, ref[2])), "service"), ref[2]>>
         ELSE <<"service", ref[2]>>

ResolveDependencies(policy, entities, e) ==
    IF PolicyOfEntity(policy, e).spec_depends_on
    THEN {EntityRef(policy, entities, d) : d \in e.dependencies} ELSE {}

ResolveComponents(policy, entities, e) ==
    IF PolicyOfEntity(policy, e).spec_components
    THEN {EntityRef(policy, entities, c) : c \in e.components} ELSE {}

\* Derived from the systems' lists and from nothing else.
SystemsOf(policy, entities, name) ==
    {s.name : s \in {x \in entities : /\ PolicyOfEntity(policy, x).spec_components
                                      /\ \E c \in x.components : c[2] = name}}

-----------------------------------------------------------------------------
(* Ownership and the values derived from policy. *)

OncallTeam(e) == Given(e.oncall, e.team)

ResolveOwnership(policy, e) ==
    [team |-> e.team,
     owner |-> IF e.owner # None THEN e.owner
               ELSE IF e.team \in DOMAIN policy.teams THEN policy.teams[e.team].email
               ELSE None,
     oncall_team |-> OncallTeam(e),
     contacts |-> {policy.teams[t].email : t \in {e.team} \cap DOMAIN policy.teams},
     additional_owners |-> {OncallTeam(e)} \ {e.team}]

ResolveDomain(policy, e) ==
    IF e.domain # None THEN e.domain
    ELSE IF e.service_archetype # None
         THEN policy.service_archetypes[e.service_archetype].domain ELSE "platform"

ResolveMonitoringProfile(policy, e) ==
    Given(e.monitoring_profile, policy.tiers[e.criticality].monitoring_profile)

ResolveAlertBand(policy, e) ==
    policy.profile_to_band[ResolveMonitoringProfile(policy, e)]

ResolveSloScope(policy, e) == Given(e.slo.scope, policy.tiers[e.criticality].slo.scope)

\* The facets that relate an entity to what is built for it.
ResolveTags(policy, e) ==
    {<<"entity_kind", InferKind(policy, e)>>, <<"team", e.team>>,
     <<"tier", e.criticality>>, <<"domain", ResolveDomain(policy, e)>>,
     <<"monitoring_profile", ResolveMonitoringProfile(policy, e)>>,
     <<"alert_band", ResolveAlertBand(policy, e)>>,
     <<"slo_scope", ResolveSloScope(policy, e)>>}
        \cup (IF PolicyOfEntity(policy, e).performance_data
              THEN {<<"service", e.name>>} ELSE {})
        \cup {p \in {<<"service_archetype", e.service_archetype>>,
                     <<"platform", e.platform>>,
                     <<"compliance_scope", e.compliance_scope>>} : p[2] # None}
        \cup {<<"oncall_team", t>> : t \in {OncallTeam(e)} \ {e.team}}

-----------------------------------------------------------------------------
(* The whole resolution, the v3 document, the census. *)

Resolve(policy, entities, e) ==
    [name |-> e.name, kind |-> InferKind(policy, e),
     datadog_kind |-> DatadogKind(policy, e), emits |-> Emits(policy, e),
     tier |-> e.criticality, tags |-> ResolveTags(policy, e),
     depends_on |-> ResolveDependencies(policy, entities, e),
     components |-> ResolveComponents(policy, entities, e),
     component_of |-> SystemsOf(policy, entities, e.name),
     ownership |-> ResolveOwnership(policy, e)]

EntityDocument(r) ==
    [kind |-> r.datadog_kind, name |-> r.name, tags |-> r.tags,
     owner |-> r.ownership.team, contacts |-> r.ownership.contacts,
     additionalOwners |-> r.ownership.additional_owners,
     tier |-> r.tier, dependsOn |-> r.depends_on, components |-> r.components,
     componentOf |-> r.component_of]

\* The documents the catalog receives.
Census(policy, entities) ==
    {EntityDocument(r) : r \in {x \in {Resolve(policy, entities, e) : e \in entities} : x.emits}}

-----------------------------------------------------------------------------
(* What JSON Schema cannot check. *)

\* A typed reference must name its target as the catalog types it.
WronglyTyped(policy, entities, ref) ==
    /\ ref[1] # None
    /\ \E t \in entities : t.name = ref[2]
    /\ ref # EntityRef(policy, entities, <<None, ref[2]>>)

ArchetypeErrors(policy, e) ==
    LET sa == e.service_archetype
    IN  IF sa = None
        THEN IF PolicyOfEntity(policy, e).requires_archetype
             THEN {"archetype_required"} ELSE {}
        ELSE IF sa \notin DOMAIN policy.service_archetypes THEN {"archetype_unknown"}
        ELSE IF policy.kind_by_service_archetype[sa] = None THEN {"infrastructure"}
        ELSE IF policy.kind_by_service_archetype[sa] # e.kind THEN {"kind_mismatch"}
        ELSE {}

\* A profile is read only by an entity that has an objective of its own.
SloErrors(policy, e) ==
    {x \in {"slo_scope"} : e.slo.scope \notin policy.slo_scopes \cup {None}}
        \cup {x \in {"slo_profile"} : e.slo.profile \notin
                  DOMAIN policy.slo_profiles.profiles \cup {None}}
        \cup {x \in {"profile_never_read"} : /\ e.slo.profile # None
                                             /\ ResolveSloScope(policy, e) # "per_service"}

ReferenceErrors(policy, entities, e) ==
    {x \in {"dependencies_discarded"} : /\ e.dependencies # {}
                                        /\ ~PolicyOfEntity(policy, e).spec_depends_on}
        \cup {x \in {"component"} : \E r \in e.components :
                  \/ r[2] \notin {t.name : t \in entities}
                  \/ WronglyTyped(policy, entities, r)}
        \cup {x \in {"dependency"} : \E r \in e.dependencies :
                  WronglyTyped(policy, entities, r)}

ValidateEntity(policy, entities, e) ==
    IF e.kind \notin DOMAIN policy.entity_kinds THEN {"kind"}
    ELSE {x \in {"datadog_kind"} :
              DatadogKind(policy, e) \notin policy.datadog_entity_kinds \cup {None}}
             \cup ArchetypeErrors(policy, e)
             \cup {x \in {"team"} : e.team \notin DOMAIN policy.teams}
             \cup {x \in {"oncall"} : e.oncall \notin DOMAIN policy.teams \cup {None}}
             \cup {x \in {"env"} : e.env \notin e.envs \cup {None}}
             \cup {x \in {"domain"} : e.domain \notin DOMAIN policy.domains \cup {None}}
             \cup SloErrors(policy, e)
             \cup ReferenceErrors(policy, entities, e)

=============================================================================
