---------------------------- MODULE CatalogStack ----------------------------
(***************************************************************************)
(* stacks/foundation and modules/catalog_entity: the catalog Terraform     *)
(* builds from the entity documents, a transcription of what               *)
(* entity_resolver.py resolves.  Only these documents reach Datadog.       *)
(***************************************************************************)
EXTENDS EntityCatalog

EntityKindOf(policy, e) ==
    IF e.kind # None THEN e.kind ELSE policy.kind_by_service_archetype[e.service_archetype]

KindSpec(policy, e) == policy.entity_kinds[EntityKindOf(policy, e)]

\* name -> "kind:name", and "service:" for what is not registered.
\* (Every bare name is a service.)
CatalogRefUntyped(policy, entities, ref) ==
    IF ref[1] # None THEN ref ELSE <<"service", ref[2]>>
CatalogRef(policy, entities, ref) ==
    LET target == {e \in entities : e.name = ref[2]}
        kinds == {KindSpec(policy, e).datadog_kind : e \in target} \ {None}
    IN  IF ref[1] # None \/ kinds = {} THEN <<Given(ref[1], "service"), ref[2]>>
        ELSE <<CHOOSE k \in kinds : TRUE, ref[2]>>

SystemMembers(policy, entities) ==
    UNION {{<<e.name, c[2]>> : c \in e.components} :
               e \in {x \in entities : KindSpec(policy, x).spec_components}}

\* local.entity_tags: the objective's facet is the profile, where one is
\* declared, and the tier's scope where none is.
CatalogTags(policy, e) ==
    LET tier == policy.tiers[e.criticality]
        profile == Given(e.monitoring_profile, tier.monitoring_profile)
        domain == IF e.domain # None THEN e.domain
                  ELSE IF e.service_archetype \in DOMAIN policy.service_archetypes
                       THEN policy.service_archetypes[e.service_archetype].domain
                       ELSE "platform"
    IN  {<<"entity_kind", EntityKindOf(policy, e)>>, <<"team", e.team>>,
         <<"tier", e.criticality>>, <<"domain", domain>>,
         <<"monitoring_profile", profile>>,
         <<"alert_band", policy.profile_to_band[profile]>>,
         <<"slo_profile", Given(e.slo.profile, tier.slo.scope)>>}
            \cup {<<"service", x.name>> : x \in {y \in {e} : KindSpec(policy, y).performance_data}}
            \cup {p \in {<<"service_archetype", e.service_archetype>>,
                         <<"platform", e.platform>>,
                         <<"compliance_scope", e.compliance_scope>>} : p[2] # None}
            \cup {<<"oncall_team", e.oncall>> : x \in {e.oncall} \ {None, e.team}}

CatalogDocument(policy, entities, e) ==
    LET spec == KindSpec(policy, e)
        Edges(carried, edges) == IF carried THEN edges ELSE {}
    IN  [kind |-> spec.datadog_kind, name |-> e.name, tags |-> CatalogTags(policy, e),
         owner |-> e.team, contacts |-> {policy.teams[e.team].email},
         additionalOwners |-> {Given(e.oncall, e.team)} \ {e.team}, tier |-> e.criticality,
         dependsOn |-> Edges(spec.spec_depends_on,
                             {CatalogRef(policy, entities, d) : d \in e.dependencies}),
         components |-> Edges(spec.spec_components,
                              {CatalogRef(policy, entities, c) : c \in e.components}),
         componentOf |-> Edges(spec.spec_component_of,
                               {s \in {x.name : x \in entities} :
                                    <<s, e.name>> \in SystemMembers(policy, entities)})]

\* datadog_software_catalog.this
Catalog(policy, entities) ==
    {CatalogDocument(policy, entities, e) : e \in {x \in entities : KindSpec(policy, x).emits}}

\* The precondition: the provider would not see an unknown kind before apply.
CatalogRefused(policy, entities) ==
    \E d \in Catalog(policy, entities) : d.kind \notin policy.datadog_entity_kinds

=============================================================================
