--------------------------- MODULE EstateDeployProofs ---------------------------
(***************************************************************************)
(* Proofs about Estate, continued: Terraform builds the objectives the     *)
(* resolver promises (ChainsAlign), and what the suite accepted a plan     *)
(* accepts (PlanOnlyRules).  Both read one field of one objective, or one  *)
(* monitor, at a time.                                                     *)
(***************************************************************************)
EXTENDS EstateProofs, SequenceTheorems

-------------------------------------------------------------------------------
(* The two ways to resolve a field.                                        *)

\* A layer that states nothing is the empty record.
LEMMA NothingStated == DOMAIN <<>> = {}
OBVIOUS

\* The later layer wins, but for the two fields that are merged key by key.
LEMMA LaterLayerWins ==
  ASSUME NEW acc, NEW fields, NEW k, k \notin DeepMergeKeys
  PROVE  /\ k \in DOMAIN MergeLayer(acc, fields) <=> k \in DOMAIN acc \/ k \in DOMAIN fields
         /\ k \in DOMAIN fields => MergeLayer(acc, fields)[k] = fields[k]
         /\ k \in DOMAIN acc \ DOMAIN fields => MergeLayer(acc, fields)[k] = acc[k]
BY DEF MergeLayer

\* A try() chain answers with its first block that states the field.
LEMMA TryOfTwo ==
  ASSUME NEW a, NEW b, NEW field, NEW fallback
  PROVE  Try(<<a, b>>, field, fallback)
           = IF field \in DOMAIN a THEN a[field]
             ELSE IF field \in DOMAIN b THEN b[field] ELSE fallback
<1> DEFINE blocks == <<a, b>>
           First(i) == /\ field \in DOMAIN blocks[i]
                       /\ \A j \in 1..(i - 1) : field \notin DOMAIN blocks[j]
           first == CHOOSE i \in DOMAIN blocks : First(i)
<1>1. DOMAIN blocks = {1, 2} /\ blocks[1] = a /\ blocks[2] = b
  OBVIOUS
<1>2. Try(blocks, field, fallback)
        = IF \E i \in DOMAIN blocks : field \in DOMAIN blocks[i]
          THEN blocks[first][field] ELSE fallback
  BY DEF Try
<1>3. CASE field \in DOMAIN a
  <2>1. \A i \in DOMAIN blocks : First(i) <=> i = 1
    BY <1>1, <1>3
  <2>2. first = 1
    BY <1>1, <2>1
  <2> QED
    BY <1>1, <1>2, <1>3, <2>2
<1>4. CASE field \notin DOMAIN a /\ field \in DOMAIN b
  <2>1. \A i \in DOMAIN blocks : First(i) <=> i = 2
    BY <1>1, <1>4
  <2>2. first = 2
    BY <1>1, <2>1
  <2> QED
    BY <1>1, <1>2, <1>4, <2>2
<1>5. CASE field \notin DOMAIN a /\ field \notin DOMAIN b
  BY <1>1, <1>2, <1>5
<1> QED
  BY <1>3, <1>4, <1>5

LEMMA TryOfThree ==
  ASSUME NEW a, NEW b, NEW c, NEW field, NEW fallback
  PROVE  Try(<<a, b, c>>, field, fallback)
           = IF field \in DOMAIN a THEN a[field]
             ELSE IF field \in DOMAIN b THEN b[field]
             ELSE IF field \in DOMAIN c THEN c[field] ELSE fallback
<1> DEFINE blocks == <<a, b, c>>
           First(i) == /\ field \in DOMAIN blocks[i]
                       /\ \A j \in 1..(i - 1) : field \notin DOMAIN blocks[j]
           first == CHOOSE i \in DOMAIN blocks : First(i)
<1>1. DOMAIN blocks = {1, 2, 3} /\ blocks[1] = a /\ blocks[2] = b /\ blocks[3] = c
  OBVIOUS
<1>2. Try(blocks, field, fallback)
        = IF \E i \in DOMAIN blocks : field \in DOMAIN blocks[i]
          THEN blocks[first][field] ELSE fallback
  BY DEF Try
<1>3. CASE field \in DOMAIN a
  <2>1. \A i \in DOMAIN blocks : First(i) <=> i = 1
    BY <1>1, <1>3
  <2>2. first = 1
    BY <1>1, <2>1
  <2> QED
    BY <1>1, <1>2, <1>3, <2>2
<1>4. CASE field \notin DOMAIN a /\ field \in DOMAIN b
  <2>1. \A i \in DOMAIN blocks : First(i) <=> i = 2
    BY <1>1, <1>4
  <2>2. first = 2
    BY <1>1, <2>1
  <2> QED
    BY <1>1, <1>2, <1>4, <2>2
<1>5. CASE field \notin DOMAIN a /\ field \notin DOMAIN b /\ field \in DOMAIN c
  <2>1. \A i \in DOMAIN blocks : First(i) <=> i = 3
    BY <1>1, <1>5
  <2>2. first = 3
    BY <1>1, <2>1
  <2> QED
    BY <1>1, <1>2, <1>5, <2>2
<1>6. CASE field \notin DOMAIN a /\ field \notin DOMAIN b /\ field \notin DOMAIN c
  BY <1>1, <1>2, <1>6
<1> QED
  BY <1>3, <1>4, <1>5, <1>6

LEMMA TryOfFour ==
  ASSUME NEW a, NEW b, NEW c, NEW d, NEW field, NEW fallback
  PROVE  Try(<<a, b, c, d>>, field, fallback)
           = IF field \in DOMAIN a THEN a[field]
             ELSE IF field \in DOMAIN b THEN b[field]
             ELSE IF field \in DOMAIN c THEN c[field]
             ELSE IF field \in DOMAIN d THEN d[field] ELSE fallback
<1> DEFINE blocks == <<a, b, c, d>>
           First(i) == /\ field \in DOMAIN blocks[i]
                       /\ \A j \in 1..(i - 1) : field \notin DOMAIN blocks[j]
           first == CHOOSE i \in DOMAIN blocks : First(i)
<1>1. DOMAIN blocks = {1, 2, 3, 4} /\ blocks[1] = a /\ blocks[2] = b /\ blocks[3] = c /\ blocks[4] = d
  OBVIOUS
<1>2. Try(blocks, field, fallback)
        = IF \E i \in DOMAIN blocks : field \in DOMAIN blocks[i]
          THEN blocks[first][field] ELSE fallback
  BY DEF Try
<1>3. CASE field \in DOMAIN a
  <2>1. \A i \in DOMAIN blocks : First(i) <=> i = 1
    BY <1>1, <1>3
  <2>2. first = 1
    BY <1>1, <2>1
  <2> QED
    BY <1>1, <1>2, <1>3, <2>2
<1>4. CASE field \notin DOMAIN a /\ field \in DOMAIN b
  <2>1. \A i \in DOMAIN blocks : First(i) <=> i = 2
    BY <1>1, <1>4
  <2>2. first = 2
    BY <1>1, <2>1
  <2> QED
    BY <1>1, <1>2, <1>4, <2>2
<1>5. CASE field \notin DOMAIN a /\ field \notin DOMAIN b /\ field \in DOMAIN c
  <2>1. \A i \in DOMAIN blocks : First(i) <=> i = 3
    BY <1>1, <1>5
  <2>2. first = 3
    BY <1>1, <2>1
  <2> QED
    BY <1>1, <1>2, <1>5, <2>2
<1>6. CASE field \notin DOMAIN a /\ field \notin DOMAIN b /\ field \notin DOMAIN c /\ field \in DOMAIN d
  <2>1. \A i \in DOMAIN blocks : First(i) <=> i = 4
    BY <1>1, <1>6
  <2>2. first = 4
    BY <1>1, <2>1
  <2> QED
    BY <1>1, <1>2, <1>6, <2>2
<1>7. CASE field \notin DOMAIN a /\ field \notin DOMAIN b /\ field \notin DOMAIN c /\ field \notin DOMAIN d
  BY <1>1, <1>2, <1>7
<1> QED
  BY <1>3, <1>4, <1>5, <1>6, <1>7

-------------------------------------------------------------------------------
(* The layers of one objective of one service in production.               *)

OfType(policy, s, o) ==
    FieldsAt(FieldsAt(policy.slo_profiles.by_entity_type, s.service_archetype), o)
OfPlatform(policy, s, o) ==
    FieldsAt(FieldsAt(policy.slo_profiles.by_platform,
                      policy.service_archetypes[s.service_archetype].domain), o)
OfTier(policy, s, o) == FieldsAt(CriticalityLayer(policy, s.tier), o)
OfPlace(policy, o) == FieldsAt(EnvironmentLayer(policy, "prod"), o)
OfProfile(policy, s, o) ==
    IF s.slo.profile \in DOMAIN policy.slo_profiles.profiles
    THEN FieldsAt(policy.slo_profiles.profiles[s.slo.profile].objectives, o) ELSE <<>>
OfService(s, o) == FieldsAt(s.slo.objectives, o)

\* The resolver's answer for one field of an objective: what the last of the
\* seven layers that states it says, whatever the earlier ones say.
THEOREM LastLayerWins ==
  ASSUME NEW policy, NEW s, NEW o, NEW k, k \notin DeepMergeKeys
  PROVE  LET merged == MergedObjective(policy, s, "prod", o)
             stated == <<OfService(s, o), OfProfile(policy, s, o), OfPlace(policy, o),
                         OfTier(policy, s, o), OfPlatform(policy, s, o), OfType(policy, s, o)>>
             defaults == policy.slo_profiles.defaults
         IN  /\ k \in DOMAIN merged <=>
                    k \in DOMAIN defaults \/ \E i \in 1..6 : k \in DOMAIN stated[i]
             /\ k \in DOMAIN merged => merged[k] =
                    IF k \in DOMAIN OfService(s, o) THEN OfService(s, o)[k]
                    ELSE IF k \in DOMAIN OfProfile(policy, s, o) THEN OfProfile(policy, s, o)[k]
                    ELSE IF k \in DOMAIN OfPlace(policy, o) THEN OfPlace(policy, o)[k]
                    ELSE IF k \in DOMAIN OfTier(policy, s, o) THEN OfTier(policy, s, o)[k]
                    ELSE IF k \in DOMAIN OfPlatform(policy, s, o) THEN OfPlatform(policy, s, o)[k]
                    ELSE IF k \in DOMAIN OfType(policy, s, o) THEN OfType(policy, s, o)[k]
                    ELSE defaults[k]
<1> DEFINE doc == policy.slo_profiles
           typed == MergeLayer(doc.defaults, OfType(policy, s, o))
           placed == MergeLayer(typed, OfPlatform(policy, s, o))
           promised == MergeLayer(placed, OfTier(policy, s, o))
           located == MergeLayer(promised, OfPlace(policy, o))
           profiled == MergeLayer(located, OfProfile(policy, s, o))
           merged == MergeLayer(profiled, OfService(s, o))
<1>1. FieldsAt(IF s.slo.profile \in DOMAIN doc.profiles
               THEN ProfileOf(policy, s).objectives ELSE <<>>, o) = OfProfile(policy, s, o)
  BY NothingStated DEF FieldsAt, OfProfile, ProfileOf
<1>2. MergedObjective(policy, s, "prod", o) = merged
  BY <1>1 DEF MergedObjective, OfType, OfPlatform, OfTier, OfPlace, OfService
<1> DEFINE A == OfService(s, o)  B == OfProfile(policy, s, o)  C == OfPlace(policy, o)
           D == OfTier(policy, s, o)  E == OfPlatform(policy, s, o)  F == OfType(policy, s, o)
           G == doc.defaults
<1> HIDE DEF A, B, C, D, E, F, G, typed, placed, promised, located, profiled, merged
<1>3. /\ k \in DOMAIN typed <=> k \in DOMAIN G \/ k \in DOMAIN F
      /\ k \in DOMAIN F => typed[k] = F[k]
      /\ k \in DOMAIN G \ DOMAIN F => typed[k] = G[k]
  BY LaterLayerWins DEF typed, F, G
<1>4. /\ k \in DOMAIN placed <=> k \in DOMAIN typed \/ k \in DOMAIN E
      /\ k \in DOMAIN E => placed[k] = E[k]
      /\ k \in DOMAIN typed \ DOMAIN E => placed[k] = typed[k]
  BY LaterLayerWins DEF placed, E
<1>5. /\ k \in DOMAIN promised <=> k \in DOMAIN placed \/ k \in DOMAIN D
      /\ k \in DOMAIN D => promised[k] = D[k]
      /\ k \in DOMAIN placed \ DOMAIN D => promised[k] = placed[k]
  BY LaterLayerWins DEF promised, D
<1>6. /\ k \in DOMAIN located <=> k \in DOMAIN promised \/ k \in DOMAIN C
      /\ k \in DOMAIN C => located[k] = C[k]
      /\ k \in DOMAIN promised \ DOMAIN C => located[k] = promised[k]
  BY LaterLayerWins DEF located, C
<1>7. /\ k \in DOMAIN profiled <=> k \in DOMAIN located \/ k \in DOMAIN B
      /\ k \in DOMAIN B => profiled[k] = B[k]
      /\ k \in DOMAIN located \ DOMAIN B => profiled[k] = located[k]
  BY LaterLayerWins DEF profiled, B
<1>8. /\ k \in DOMAIN merged <=> k \in DOMAIN profiled \/ k \in DOMAIN A
      /\ k \in DOMAIN A => merged[k] = A[k]
      /\ k \in DOMAIN profiled \ DOMAIN A => merged[k] = profiled[k]
  BY LaterLayerWins DEF merged, A
<1>9. k \in DOMAIN merged <=> k \in DOMAIN G \/ k \in DOMAIN A \/ k \in DOMAIN B
          \/ k \in DOMAIN C \/ k \in DOMAIN D \/ k \in DOMAIN E \/ k \in DOMAIN F
  BY <1>3, <1>4, <1>5, <1>6, <1>7, <1>8
<1>10. k \in DOMAIN merged => merged[k] =
          IF k \in DOMAIN A THEN A[k] ELSE IF k \in DOMAIN B THEN B[k]
          ELSE IF k \in DOMAIN C THEN C[k] ELSE IF k \in DOMAIN D THEN D[k]
          ELSE IF k \in DOMAIN E THEN E[k] ELSE IF k \in DOMAIN F THEN F[k] ELSE G[k]
  BY <1>3, <1>4, <1>5, <1>6, <1>7, <1>8
<1>11. (\E i \in 1..6 : k \in DOMAIN <<A, B, C, D, E, F>>[i])
          <=> k \in DOMAIN A \/ k \in DOMAIN B \/ k \in DOMAIN C
                \/ k \in DOMAIN D \/ k \in DOMAIN E \/ k \in DOMAIN F
  <2> DEFINE stated == <<A, B, C, D, E, F>>
  <2>1. 1..6 = {1, 2, 3, 4, 5, 6}
    OBVIOUS
  <2>2. /\ stated[1] = A /\ stated[2] = B /\ stated[3] = C
        /\ stated[4] = D /\ stated[5] = E /\ stated[6] = F
    OBVIOUS
  <2> HIDE DEF stated
  <2>3. (\E i \in {1, 2, 3, 4, 5, 6} : k \in DOMAIN stated[i])
          <=> k \in DOMAIN A \/ k \in DOMAIN B \/ k \in DOMAIN C
                \/ k \in DOMAIN D \/ k \in DOMAIN E \/ k \in DOMAIN F
    BY <2>2
  <2> QED
    BY <2>1, <2>3 DEF stated
<1> QED
  BY <1>2, <1>9, <1>10, <1>11, Zenon DEF A, B, C, D, E, F, G

-------------------------------------------------------------------------------
(* Terraform's reading of one objective is the resolver's.                 *)

\* The services in production.
Running(commit) == {s \in Services(commit) : "prod" \in s.envs}

\* What the two readings build objectives for.
LEMMA SameServices ==
  ASSUME ChainsAlign, NEW commit \in Commits, Accepted(commit)
  PROVE  SvcSloServices(Policy(commit), Docs(commit))
           = {x \in Running(commit) : MaterializesPerServiceSlos(Policy(commit), x)}
<1>1. Policy(commit).slo_profiles.opt_in_via_service_yaml
  BY DEF ChainsAlign
<1>2. Docs(commit) = Services(commit)
  BY DEF Docs, Services, ServiceDocs
<1> QED
  BY <1>1, <1>2 DEF SvcSloServices, Running, MaterializesPerServiceSlos

\* What is known of the layers of an objective that both resolve.
LEMMA LayersOf ==
  ASSUME ChainsAlign, NEW commit \in Commits, Accepted(commit),
         NEW s \in SvcSloServices(Policy(commit), Docs(commit)),
         NEW o \in DOMAIN FieldsAt(Policy(commit).slo_profiles.by_entity_type,
                                   s.service_archetype)
  PROVE  LET policy == Policy(commit)
             slo == policy.tiers[s.tier].slo
         IN  /\ EnvironmentGate(policy, "prod")
             /\ {"enabled", "type", "target", "burn_alerts"} \subseteq
                    DOMAIN policy.slo_profiles.defaults
             /\ "member_archetypes" \notin DOMAIN policy.slo_profiles.defaults
             /\ o \in DOMAIN slo.objectives
             /\ OfTier(policy, s, o) = [target |-> slo.objectives[o],
                                        burn_alerts |-> slo.burn_windows]
             /\ DOMAIN OfPlace(policy, o) \cap Resolving = {}
             /\ DOMAIN OfPlatform(policy, s, o) \cap Resolving \subseteq {"type"}
             /\ "member_archetypes" \notin DOMAIN OfService(s, o)
<1> DEFINE policy == Policy(commit)
           doc == policy.slo_profiles
           slo == policy.tiers[s.tier].slo
           domain == policy.service_archetypes[s.service_archetype].domain
           platforms == doc.by_platform
<1>1. /\ EnvironmentGate(policy, "prod")
      /\ DOMAIN doc.defaults \cap Resolving = Resolving \ {"member_archetypes"}
      /\ o \in DOMAIN slo.objectives
      /\ DOMAIN OfPlace(policy, o) \cap Resolving = {}
      /\ DOMAIN OfPlatform(policy, s, o) \cap {"enabled", "member_archetypes"} = {}
      /\ DOMAIN OfService(s, o) \cap {"member_archetypes"} = {}
  <2>1. s \in {x \in Services(commit) :
                 "prod" \in x.envs /\ MaterializesPerServiceSlos(policy, x)}
    BY SameServices DEF Running
  <2> QED
    BY <2>1, Zenon DEF ChainsAlign, OfPlace, OfPlatform, OfService
<1>2. OfTier(policy, s, o) = [target |-> slo.objectives[o], burn_alerts |-> slo.burn_windows]
  BY <1>1 DEF OfTier, CriticalityLayer, FieldsAt
<1>3. DOMAIN OfPlatform(policy, s, o) \cap {"target", "burn_alerts"} = {}
  <2>1. PlatformErrors(policy) = {}
    BY AcceptedPasses, PolicyOfCommit, Zenon DEF Lint, ValidateSlos
  <2>2. ~ \E p \in DOMAIN platforms : \E x \in DOMAIN platforms[p] :
            DOMAIN platforms[p][x] \cap {"target", "burn_alerts"} # {}
    BY <2>1 DEF PlatformErrors
  <2>3. CASE domain \in DOMAIN platforms /\ o \in DOMAIN platforms[domain]
    BY <2>2, <2>3 DEF OfPlatform, FieldsAt
  <2>4. CASE domain \notin DOMAIN platforms
    BY <2>4, NothingStated DEF OfPlatform, FieldsAt
  <2>5. CASE domain \in DOMAIN platforms /\ o \notin DOMAIN platforms[domain]
    BY <2>5, NothingStated DEF OfPlatform, FieldsAt
  <2> QED
    BY <2>3, <2>4, <2>5
<1> QED
  BY <1>1, <1>2, <1>3 DEF Resolving

\* Field by field, what is left when the gate, the defaults and the vendor's
\* rule have been applied is what the try() chains answer.
LEMMA SameObjective ==
  ASSUME ChainsAlign, NEW commit \in Commits, Accepted(commit),
         NEW s \in SvcSloServices(Policy(commit), Docs(commit)),
         NEW o \in DOMAIN FieldsAt(Policy(commit).slo_profiles.by_entity_type,
                                   s.service_archetype)
  PROVE  LET policy == Policy(commit)
             built == SvcResolved(policy, s, o)
             resolved == ResolveObjectives(policy, s, "prod")[o]
         IN  /\ resolved.enabled = built.enabled /\ resolved.type = built.type
             /\ resolved.target = built.target
             /\ resolved.burn_alerts = SvcBurnWindows(policy, built)
<1> DEFINE policy == Policy(commit)
           doc == policy.slo_profiles
           slo == policy.tiers[s.tier].slo
           own == OfService(s, o)
           profile == OfProfile(policy, s, o)
           place == OfPlace(policy, o)
           tier == OfTier(policy, s, o)
           platform == OfPlatform(policy, s, o)
           type == OfType(policy, s, o)
           built == SvcResolved(policy, s, o)
           merged == MergedObjective(policy, s, "prod", o)
           blank == [member_archetypes |-> {}, burn_alerts |-> {}]
           filled == Overlay(blank, merged)
<1>1. /\ EnvironmentGate(policy, "prod")
      /\ {"enabled", "type", "target", "burn_alerts"} \subseteq DOMAIN doc.defaults
      /\ "member_archetypes" \notin DOMAIN doc.defaults
      /\ o \in DOMAIN slo.objectives
      /\ tier = [target |-> slo.objectives[o], burn_alerts |-> slo.burn_windows]
      /\ DOMAIN place \cap Resolving = {}
      /\ DOMAIN platform \cap Resolving \subseteq {"type"}
      /\ "member_archetypes" \notin DOMAIN own
  BY LayersOf
<1>2. /\ DOMAIN tier = {"target", "burn_alerts"}
      /\ tier.target = slo.objectives[o] /\ tier.burn_alerts = slo.burn_windows
  BY <1>1
<1>3. built =
        [enabled |-> Try(<<own, profile, type>>, "enabled", doc.defaults.enabled),
         type |-> Try(<<own, profile, platform, type>>, "type", doc.defaults.type),
         target |-> Try(<<own, profile, [target |-> slo.objectives[o]], type>>, "target",
                        doc.defaults.target),
         burn_alerts |-> Try(<<own, profile, [burn_alerts |-> slo.burn_windows], type>>,
                             "burn_alerts", doc.defaults.burn_alerts),
         member_archetypes |-> Try(<<profile, type>>, "member_archetypes", {})]
  BY <1>1 DEF SvcResolved, OfService, OfProfile, OfPlatform, OfType
<1>4. Resolving \cap DeepMergeKeys = {}
  BY DEF Resolving, DeepMergeKeys
<1> HIDE DEF policy, doc, slo, own, profile, place, tier, platform, type, merged
<1>5. ASSUME NEW k \in Resolving
      PROVE  /\ k \in DOMAIN merged <=>
                    k \in DOMAIN doc.defaults \/ k \in DOMAIN own \/ k \in DOMAIN profile
                    \/ k \in DOMAIN place \/ k \in DOMAIN tier \/ k \in DOMAIN platform
                    \/ k \in DOMAIN type
             /\ k \in DOMAIN merged => merged[k] =
                    IF k \in DOMAIN own THEN own[k]
                    ELSE IF k \in DOMAIN profile THEN profile[k]
                    ELSE IF k \in DOMAIN place THEN place[k]
                    ELSE IF k \in DOMAIN tier THEN tier[k]
                    ELSE IF k \in DOMAIN platform THEN platform[k]
                    ELSE IF k \in DOMAIN type THEN type[k]
                    ELSE doc.defaults[k]
  <2> DEFINE stated == <<own, profile, place, tier, platform, type>>
  <2>1. k \notin DeepMergeKeys
    BY <1>4
  <2>2. (\E i \in 1..6 : k \in DOMAIN stated[i])
            <=> k \in DOMAIN own \/ k \in DOMAIN profile \/ k \in DOMAIN place
                \/ k \in DOMAIN tier \/ k \in DOMAIN platform \/ k \in DOMAIN type
    <3>1. 1..6 = {1, 2, 3, 4, 5, 6}
      OBVIOUS
    <3>2. /\ stated[1] = own /\ stated[2] = profile /\ stated[3] = place
          /\ stated[4] = tier /\ stated[5] = platform /\ stated[6] = type
      OBVIOUS
    <3> HIDE DEF stated
    <3> QED
      BY <3>1, <3>2
  <2> QED
    BY <2>1, <2>2, LastLayerWins DEF doc, own, profile, place, tier, platform, type, merged
<1>6. merged.enabled = built.enabled /\ "enabled" \in DOMAIN merged
  <2>1. built.enabled = IF "enabled" \in DOMAIN own THEN own.enabled
                        ELSE IF "enabled" \in DOMAIN profile THEN profile.enabled
                        ELSE IF "enabled" \in DOMAIN type THEN type.enabled
                        ELSE doc.defaults.enabled
    BY <1>3, TryOfThree
  <2> QED
    BY <1>1, <1>2, <1>5, <2>1 DEF Resolving
<1>7. merged.type = built.type /\ "type" \in DOMAIN merged
  <2>1. built.type = IF "type" \in DOMAIN own THEN own.type
                     ELSE IF "type" \in DOMAIN profile THEN profile.type
                     ELSE IF "type" \in DOMAIN platform THEN platform.type
                     ELSE IF "type" \in DOMAIN type THEN type.type
                     ELSE doc.defaults.type
    BY <1>3, TryOfFour
  <2> QED
    BY <1>1, <1>2, <1>5, <2>1 DEF Resolving
<1>8. merged.target = built.target /\ "target" \in DOMAIN merged
  <2>1. built.target = IF "target" \in DOMAIN own THEN own.target
                       ELSE IF "target" \in DOMAIN profile THEN profile.target
                       ELSE slo.objectives[o]
    BY <1>3, TryOfFour
  <2> QED
    BY <1>1, <1>2, <1>5, <2>1 DEF Resolving
<1>9. merged.burn_alerts = built.burn_alerts /\ "burn_alerts" \in DOMAIN merged
  <2>1. built.burn_alerts = IF "burn_alerts" \in DOMAIN own THEN own.burn_alerts
                            ELSE IF "burn_alerts" \in DOMAIN profile THEN profile.burn_alerts
                            ELSE slo.burn_windows
    BY <1>3, TryOfFour
  <2> QED
    BY <1>1, <1>2, <1>5, <2>1 DEF Resolving
<1>10. filled.member_archetypes = built.member_archetypes
  <2>1. built.member_archetypes =
            IF "member_archetypes" \in DOMAIN profile THEN profile.member_archetypes
            ELSE IF "member_archetypes" \in DOMAIN type THEN type.member_archetypes
            ELSE {}
    BY <1>3, TryOfTwo
  <2>2. filled.member_archetypes =
            IF "member_archetypes" \in DOMAIN merged THEN merged.member_archetypes ELSE {}
    BY DEF Overlay
  <2> QED
    BY <1>1, <1>2, <1>5, <2>1, <2>2 DEF Resolving
<1>11. /\ DOMAIN filled = DOMAIN merged \cup {"member_archetypes", "burn_alerts"}
       /\ filled.enabled = built.enabled /\ filled.type = built.type
       /\ filled.target = built.target /\ filled.burn_alerts = built.burn_alerts
  BY <1>6, <1>7, <1>8, <1>9 DEF Overlay
<1>12. ResolveObjectives(policy, s, "prod")[o] = ApplyInvariants(policy, filled)
  BY <1>1 DEF ResolveObjectives, policy, merged
<1> HIDE DEF filled, built
<1>13. NonMetricMembers(policy, filled) # {}
          <=> \E m \in built.member_archetypes :
                  \/ m \notin DOMAIN policy.archetypes
                  \/ policy.archetypes[m].monitor_type # "query alert"
  BY <1>10 DEF NonMetricMembers
<1>14. /\ ApplyInvariants(policy, filled).enabled = built.enabled
       /\ ApplyInvariants(policy, filled).type = built.type
       /\ ApplyInvariants(policy, filled).target = built.target
       /\ ApplyInvariants(policy, filled).burn_alerts = SvcBurnWindows(policy, built)
  <2>1. CASE /\ filled.type = "monitor" /\ filled.burn_alerts # {}
             /\ NonMetricMembers(policy, filled) # {}
    <3>1. ApplyInvariants(policy, filled) = [filled EXCEPT !.burn_alerts = {}]
      BY <2>1 DEF ApplyInvariants
    <3>2. SvcBurnWindows(policy, built) = {}
      BY <1>11, <1>13, <2>1 DEF SvcBurnWindows
    <3> QED
      BY <1>6, <1>7, <1>8, <1>11, <3>1, <3>2
  <2>2. CASE ~ (/\ filled.type = "monitor" /\ filled.burn_alerts # {}
                /\ NonMetricMembers(policy, filled) # {})
    <3>1. ApplyInvariants(policy, filled) = filled
      BY <2>2 DEF ApplyInvariants
    <3>2. SvcBurnWindows(policy, built) = built.burn_alerts
      BY <1>11, <1>13, <2>2 DEF SvcBurnWindows
    <3> QED
      BY <1>11, <3>1, <3>2
  <2> QED
    BY <2>1, <2>2
<1> QED
  BY <1>12, <1>14 DEF policy, built

-------------------------------------------------------------------------------
(* And so is the whole set of objectives.                                  *)

\* A name in production, as anywhere, is registered once.
LEMMA ServiceNames ==
  ASSUME NEW commit \in Commits, Accepted(commit)
  PROVE  /\ \A s \in Services(commit) : s.name \in Seq(STRING)
         /\ \A s, t \in Services(commit) : s.name = t.name => s = t
<1> DEFINE repo == Repository[commit]
<1>1. RepositoryOK(repo)
  BY PolicyOfCommit
<1>2. \A e \in repo.entities : EntityAsService(e).name = e.name
  BY DEF EntityAsService
<1>3. ASSUME NEW s \in Services(commit)
      PROVE  \/ s \in repo.legacy
             \/ \E e \in repo.entities : /\ s = EntityAsService(e)
                                         /\ e.name \notin {x.name : x \in repo.legacy}
  BY DEF Services, LoadServices
<1>4. \A s \in Services(commit) : s.name \in Seq(STRING)
  BY <1>1, <1>2, <1>3 DEF RepositoryOK
<1>5. ASSUME NEW s \in Services(commit), NEW t \in Services(commit), s.name = t.name
      PROVE  s = t
  <2>1. CASE s \in repo.legacy /\ t \in repo.legacy
    BY <1>1, <1>5, <2>1 DEF RepositoryOK
  <2>2. CASE s \in repo.legacy /\ t \notin repo.legacy
    BY <1>2, <1>3, <1>5, <2>2
  <2>3. CASE s \notin repo.legacy /\ t \in repo.legacy
    BY <1>2, <1>3, <1>5, <2>3
  <2>4. CASE s \notin repo.legacy /\ t \notin repo.legacy
    <3>1. PICK d \in repo.entities : s = EntityAsService(d)
      BY <1>3, <2>4
    <3>2. PICK e \in repo.entities : t = EntityAsService(e)
      BY <1>3, <2>4
    <3>3. d = e
      BY <1>1, <1>2, <1>5, <3>1, <3>2 DEF RepositoryOK
    <3> QED
      BY <3>1, <3>2, <3>3
  <2> QED
    BY <2>1, <2>2, <2>3, <2>4
<1> QED
  BY <1>4, <1>5

\* The enabled objectives of a service, and what is promised by each.
Enabled(policy, s) ==
    {o \in DOMAIN FieldsAt(policy.slo_profiles.by_entity_type, s.service_archetype) :
        SvcResolved(policy, s, o).enabled}
Promised(policy, s, o) ==
    <<SloIdFor(s.name, o), s.name, s.team, SvcResolved(policy, s, o).type,
      SvcResolved(policy, s, o).target, SvcBurnWindows(policy, SvcResolved(policy, s, o))>>

LEMMA BuiltPromises ==
  ASSUME NEW commit \in Commits, NEW t
  PROVE  t \in Promise(SvcObjectives(Policy(commit), Docs(commit)))
           <=> \E s \in SvcSloServices(Policy(commit), Docs(commit)) :
                   \E o \in Enabled(Policy(commit), s) : t = Promised(Policy(commit), s, o)
<1> DEFINE policy == Policy(commit)
           Objective(s, o) ==
             [slo_id |-> SloIdFor(s.name, o), service |-> s.name, team |-> s.team,
              domain |-> policy.service_archetypes[s.service_archetype].domain,
              type |-> SvcResolved(policy, s, o).type,
              member_archetypes |-> SvcResolved(policy, s, o).member_archetypes,
              target |-> SvcResolved(policy, s, o).target,
              burn_alerts |-> SvcBurnWindows(policy, SvcResolved(policy, s, o))]
           Of(x) == <<x.slo_id, x.service, x.team, x.type, x.target, x.burn_alerts>>
<1>1. \A s, o : Of(Objective(s, o)) = Promised(policy, s, o)
  BY DEF Promised
<1>2. SvcObjectives(policy, Docs(commit))
        = UNION {{Objective(s, o) : o \in Enabled(policy, s)} :
                 s \in SvcSloServices(policy, Docs(commit))}
  BY DEF SvcObjectives, Enabled
<1>3. \A x : x \in SvcObjectives(policy, Docs(commit))
          <=> \E s \in SvcSloServices(policy, Docs(commit)) :
                  \E o \in Enabled(policy, s) : x = Objective(s, o)
  <2> HIDE DEF Objective
  <2>1. ASSUME NEW x
        PROVE  x \in UNION {{Objective(s, o) : o \in Enabled(policy, s)} :
                            s \in SvcSloServices(policy, Docs(commit))}
                 <=> \E s \in SvcSloServices(policy, Docs(commit)) :
                         x \in {Objective(s, o) : o \in Enabled(policy, s)}
    BY Zenon
  <2>2. ASSUME NEW x, NEW s
        PROVE  x \in {Objective(s, o) : o \in Enabled(policy, s)}
                 <=> \E o \in Enabled(policy, s) : x = Objective(s, o)
    BY Zenon
  <2> QED
    BY <1>2, <2>1, <2>2, Zenon
<1> HIDE DEF Objective
<1>4. t \in Promise(SvcObjectives(policy, Docs(commit)))
          <=> \E x \in SvcObjectives(policy, Docs(commit)) : t = Of(x)
  BY Zenon DEF Promise
<1> HIDE DEF Of, policy
<1>5. t \in Promise(SvcObjectives(policy, Docs(commit)))
          <=> \E s \in SvcSloServices(policy, Docs(commit)) :
                  \E o \in Enabled(policy, s) : t = Promised(policy, s, o)
  <2>1. ASSUME NEW x \in SvcObjectives(policy, Docs(commit)), t = Of(x)
        PROVE  \E s \in SvcSloServices(policy, Docs(commit)) :
                   \E o \in Enabled(policy, s) : t = Promised(policy, s, o)
    <3>1. PICK s \in SvcSloServices(policy, Docs(commit)) :
              \E o \in Enabled(policy, s) : x = Objective(s, o)
      BY <1>3
    <3>2. PICK o \in Enabled(policy, s) : x = Objective(s, o)
      BY <3>1
    <3> QED
      BY <1>1, <2>1, <3>2
  <2>2. ASSUME NEW s \in SvcSloServices(policy, Docs(commit)), NEW o \in Enabled(policy, s),
               t = Promised(policy, s, o)
        PROVE  \E x \in SvcObjectives(policy, Docs(commit)) : t = Of(x)
    BY <1>1, <1>3, <2>2
  <2> QED
    BY <1>4, <2>1, <2>2
<1> QED
  BY <1>5 DEF policy

\* The resolver's objective o of a service, in the shape the report gives it.
Asked(policy, s, env, o) ==
    LET objective == ResolveObjectives(policy, s, env)[o]
    IN  [slo_id |-> SloIdFor(s.name, o), service |-> s.name, team |-> s.team,
         tier |-> s.tier, env |-> env, objective |-> o,
         type |-> objective.type, target |-> objective.target,
         burn_alerts |-> objective.burn_alerts,
         threshold |-> FieldsAt(objective, "threshold"),
         dependency |-> "telemetry_dependency" \in DOMAIN objective,
         query |-> QueryOf(objective, s.name, env)]
Materialized(policy, services) == {y \in services : MaterializesPerServiceSlos(policy, y)}
AskedOf(policy, s, env) ==
    {o \in DOMAIN ResolveObjectives(policy, s, env) :
        ResolveObjectives(policy, s, env)[o].enabled}

LEMMA ObjectivesAsked ==
  ASSUME NEW policy, NEW services, NEW env, NEW x
  PROVE  x \in ObjectiveSlos(policy, services, env)
           <=> \E s \in Materialized(policy, services) :
                   \E o \in AskedOf(policy, s, env) : x = Asked(policy, s, env, o)
<1> DEFINE S == Materialized(policy, services)
<1>1. ObjectiveSlos(policy, services, env)
        = UNION {{Asked(policy, s, env, o) : o \in AskedOf(policy, s, env)} : s \in S}
  BY DEF ObjectiveSlos, Asked, AskedOf, Materialized
<1> HIDE DEF S
<1>2. x \in UNION {{Asked(policy, s, env, o) : o \in AskedOf(policy, s, env)} : s \in S}
        <=> \E s \in S : x \in {Asked(policy, s, env, o) : o \in AskedOf(policy, s, env)}
  BY Zenon
<1>3. ASSUME NEW s
      PROVE  x \in {Asked(policy, s, env, o) : o \in AskedOf(policy, s, env)}
               <=> \E o \in AskedOf(policy, s, env) : x = Asked(policy, s, env, o)
  BY Zenon
<1>4. x \in ObjectiveSlos(policy, services, env)
        <=> \E s \in S : \E o \in AskedOf(policy, s, env) : x = Asked(policy, s, env, o)
  BY <1>1, <1>2, <1>3, Zenon
<1> QED
  BY <1>4 DEF S

\* The lint lets no two services ask for one id, so each is created.
LEMMA EachIsCreated ==
  ASSUME NEW commit \in Commits, Accepted(commit), NEW S \in SUBSET Services(commit)
  PROVE  ResolvedSlos(Policy(commit), S, "prod") = ObjectiveSlos(Policy(commit), S, "prod")
<1> DEFINE policy == Policy(commit)
           all == ObjectiveSlos(policy, S, "prod")
<1>1. ASSUME NEW x \in all
      PROVE  x \in ObjectiveSlos(policy, Services(commit), "prod") /\ Len(x.service) \in Nat
  <2>1. PICK s \in Materialized(policy, S) :
            \E o \in AskedOf(policy, s, "prod") : x = Asked(policy, s, "prod", o)
    <3>1. x \in ObjectiveSlos(policy, S, "prod")
      BY <1>1
    <3> HIDE DEF all, policy
    <3> QED
      BY <3>1, ObjectivesAsked
  <2>2. s \in Materialized(policy, Services(commit)) /\ s \in Services(commit)
    BY DEF Materialized
  <2>3. x \in ObjectiveSlos(policy, Services(commit), "prod")
    BY <2>1, <2>2, ObjectivesAsked, Zenon
  <2>4. x.service = s.name
    BY <2>1 DEF Asked
  <2>5. s.name \in Seq(STRING)
    BY <2>2, ServiceNames
  <2> QED
    BY <2>3, <2>4, <2>5, LenProperties
<1>2. \A x, y \in ObjectiveSlos(policy, Services(commit), "prod") :
          x.slo_id = y.slo_id => x.service = y.service
  <2>1. DuplicateIds(policy, Services(commit)) = {}
    BY AcceptedPasses, PolicyOfCommit, Zenon DEF Lint, ValidateSlos, Services
  <2> QED
    BY <2>1 DEF DuplicateIds
<1> HIDE DEF all
<1>3. \A x, y \in all : x.slo_id = y.slo_id => Len(y.service) <= Len(x.service)
  <2> SUFFICES ASSUME NEW x \in all, NEW y \in all, x.slo_id = y.slo_id
               PROVE  Len(y.service) <= Len(x.service)
    OBVIOUS
  <2>1. x.service = y.service
    BY <1>1, <1>2
  <2> QED
    BY <1>1, <2>1
<1> QED
  BY <1>3 DEF ResolvedSlos, all

\* An objective is enabled in both readings or in neither, and asks for what
\* is promised.
LEMMA AskedEnabled ==
  ASSUME ChainsAlign, NEW commit \in Commits, Accepted(commit),
         NEW s \in SvcSloServices(Policy(commit), Docs(commit))
  PROVE  LET Of(x) == <<x.slo_id, x.service, x.team, x.type, x.target, x.burn_alerts>>
         IN  /\ AskedOf(Policy(commit), s, "prod") = Enabled(Policy(commit), s)
             /\ \A o \in Enabled(Policy(commit), s) :
                    Of(Asked(Policy(commit), s, "prod", o)) = Promised(Policy(commit), s, o)
<1> DEFINE policy == Policy(commit)
           Of(x) == <<x.slo_id, x.service, x.team, x.type, x.target, x.burn_alerts>>
<1>1. DOMAIN ResolveObjectives(policy, s, "prod")
        = DOMAIN FieldsAt(policy.slo_profiles.by_entity_type, s.service_archetype)
  BY DEF ResolveObjectives
<1>2. \A o \in DOMAIN FieldsAt(policy.slo_profiles.by_entity_type, s.service_archetype) :
          LET built == SvcResolved(policy, s, o)
              resolved == ResolveObjectives(policy, s, "prod")[o]
          IN  /\ resolved.enabled = built.enabled /\ resolved.type = built.type
              /\ resolved.target = built.target
              /\ resolved.burn_alerts = SvcBurnWindows(policy, built)
  BY SameObjective, Zenon
<1>3. AskedOf(policy, s, "prod") = Enabled(policy, s)
  BY <1>1, <1>2 DEF AskedOf, Enabled
<1>4. ASSUME NEW o \in Enabled(policy, s)
      PROVE  Of(Asked(policy, s, "prod", o)) = Promised(policy, s, o)
  <2>1. o \in DOMAIN FieldsAt(policy.slo_profiles.by_entity_type, s.service_archetype)
    BY DEF Enabled
  <2> QED
    BY <1>2, <2>1 DEF Asked, Promised
<1> QED
  BY <1>3, <1>4

LEMMA ResolvedPromises ==
  ASSUME ChainsAlign, NEW commit \in Commits, Accepted(commit), NEW t
  PROVE  t \in Promise(ResolvedSlos(Policy(commit), Running(commit), "prod"))
           <=> \E s \in SvcSloServices(Policy(commit), Docs(commit)) :
                   \E o \in Enabled(Policy(commit), s) : t = Promised(Policy(commit), s, o)
<1> DEFINE policy == Policy(commit)
           S == SvcSloServices(policy, Docs(commit))
           slos == ResolvedSlos(policy, Running(commit), "prod")
           Of(x) == <<x.slo_id, x.service, x.team, x.type, x.target, x.burn_alerts>>
<1>1. slos = ObjectiveSlos(policy, Running(commit), "prod")
  BY EachIsCreated DEF Running
<1>2. \A x : x \in slos <=> \E s \in S : \E o \in AskedOf(policy, s, "prod") :
                                x = Asked(policy, s, "prod", o)
  <2> SUFFICES ASSUME NEW x
               PROVE  x \in slos <=> \E s \in S : \E o \in AskedOf(policy, s, "prod") :
                                         x = Asked(policy, s, "prod", o)
    OBVIOUS
  <2>1. Materialized(policy, Running(commit)) = S
    BY SameServices DEF Materialized
  <2> HIDE DEF slos, policy, S
  <2>2. x \in ObjectiveSlos(policy, Running(commit), "prod")
          <=> \E s \in Materialized(policy, Running(commit)) :
                  \E o \in AskedOf(policy, s, "prod") : x = Asked(policy, s, "prod", o)
    BY ObjectivesAsked
  <2> QED
    BY <1>1, <2>1, <2>2, Zenon
<1>3. ASSUME NEW s \in S
      PROVE  /\ AskedOf(policy, s, "prod") = Enabled(policy, s)
             /\ \A o \in Enabled(policy, s) :
                    Of(Asked(policy, s, "prod", o)) = Promised(policy, s, o)
  BY AskedEnabled
<1>4. t \in Promise(slos) <=> \E x \in slos : t = Of(x)
  BY Zenon DEF Promise
<1> HIDE DEF Of, policy, S, slos
<1>5. ASSUME NEW x \in slos, t = Of(x)
      PROVE  \E s \in S : \E o \in Enabled(policy, s) : t = Promised(policy, s, o)
  <2>1. PICK s \in S : \E o \in AskedOf(policy, s, "prod") : x = Asked(policy, s, "prod", o)
    BY <1>2
  <2>2. PICK o \in AskedOf(policy, s, "prod") : x = Asked(policy, s, "prod", o)
    BY <2>1
  <2> QED
    BY <1>3, <1>5, <2>2
<1>6. ASSUME NEW s \in S, NEW o \in Enabled(policy, s), t = Promised(policy, s, o)
      PROVE  \E x \in slos : t = Of(x)
  <2>1. Asked(policy, s, "prod", o) \in slos
    BY <1>2, <1>3
  <2> QED
    BY <1>3, <1>6, <2>1
<1>7. t \in Promise(slos)
        <=> \E s \in S : \E o \in Enabled(policy, s) : t = Promised(policy, s, o)
  BY <1>4, <1>5, <1>6
<1> QED
  BY <1>7 DEF policy, S, slos

\* Whatever is live, Terraform built the objectives of the services in
\* production that the resolver answers with: the ids, the owners, the types,
\* the targets and the burn alerts, under the layers that both chains have.
THEOREM BuiltAsResolvedHolds ==
  ASSUME ChainsAlign
  PROVE  Spec => []BuiltAsResolved
<1>1. ASSUME NEW commit \in Commits, Accepted(commit)
      PROVE  AgreesOn[commit]
  <2>1. AgreesOn = [x \in Commits |->
            Promise(SvcObjectives(Policy(x), Docs(x)))
                = Promise(ResolvedSlos(Policy(x), {s \in Services(x) : "prod" \in s.envs}, "prod"))]
    BY TableIsFunction, Zenon DEF AgreesOn
  <2>2. Promise(SvcObjectives(Policy(commit), Docs(commit)))
            = Promise(ResolvedSlos(Policy(commit), Running(commit), "prod"))
    <3> DEFINE Made(t) == \E s \in SvcSloServices(Policy(commit), Docs(commit)) :
                              \E o \in Enabled(Policy(commit), s) :
                                  t = Promised(Policy(commit), s, o)
               built == Promise(SvcObjectives(Policy(commit), Docs(commit)))
               asked == Promise(ResolvedSlos(Policy(commit), Running(commit), "prod"))
    <3>1. ASSUME NEW t PROVE t \in built <=> Made(t)
      BY BuiltPromises
    <3>2. ASSUME NEW t PROVE t \in asked <=> Made(t)
      BY <1>1, ResolvedPromises
    <3> HIDE DEF Made, built, asked
    <3>3. built = asked
      BY <3>1, <3>2
    <3> QED
      BY <3>3 DEF built, asked
  <2> QED
    BY <1>1, <2>1, <2>2, Zenon DEF Running
<1>2. TypeOK /\ LiveInv => BuiltAsResolved
  BY <1>1 DEF TypeOK, LiveInv, BuiltAsResolved
<1> QED
  BY <1>2, TypeCorrect, LiveAccepted, PTL

-------------------------------------------------------------------------------
(* What the lint has established of the archetypes.                        *)

LEMMA LintedRules ==
  ASSUME NEW commit \in Commits, Accepted(commit)
  PROVE  LET policy == Policy(commit)
         IN  /\ SchemaErrors(policy) = {} /\ ReferencesErrors(policy) = {}
             /\ QueryErrors(policy) = {} /\ PriorityErrors(policy) = {}
             /\ CompositeErrors(policy) = {} /\ CatalogSloErrors(policy) = {}
             /\ EntityErrors(Repository[commit]) = {}
             /\ ValidateSlos(policy, Services(commit)) = {}
BY AcceptedPasses, PolicyOfCommit DEF Lint, Services

LEMMA LintedArchetype ==
  ASSUME NEW commit \in Commits, Accepted(commit), NEW aid \in DOMAIN Policy(commit).archetypes
  PROVE  LET policy == Policy(commit)
             a == policy.archetypes[aid]
             auto == policy.auto_resolve
             card == policy.cardinality
         IN  /\ a.impact_class \in DOMAIN policy.matrix /\ a.domain \in DOMAIN policy.domains
             /\ a.bands \subseteq Bands
             /\ a.auto_resolve_hours \subseteq auto.min_hours..auto.max_hours
             /\ a.slo_id \in {s.slo_id : s \in policy.slos}
             /\ a.runbook \in DOMAIN policy.runbooks /\ a.workflow \in DOMAIN policy.workflows
             /\ ~(Cardinality(a.group_by) > card.max_group_by_keys)
             /\ a.group_by \cap card.forbidden_group_keys = {}
<1> DEFINE policy == Policy(commit)
           a == policy.archetypes[aid]
<1>1. a \in Archetypes(policy)
  BY DEF Archetypes
<1>2. SchemaErrors(policy) = {} /\ ReferencesErrors(policy) = {} /\ QueryErrors(policy) = {}
  BY LintedRules
<1> HIDE DEF policy, a
<1>3. /\ a.impact_class \in DOMAIN policy.matrix /\ a.domain \in DOMAIN policy.domains
      /\ a.bands \subseteq Bands
      /\ a.auto_resolve_hours \subseteq policy.auto_resolve.min_hours..policy.auto_resolve.max_hours
  BY <1>1, <1>2 DEF SchemaErrors, Rule
<1>4. /\ a.slo_id \in {s.slo_id : s \in policy.slos}
      /\ a.runbook \in DOMAIN policy.runbooks /\ a.workflow \in DOMAIN policy.workflows
  BY <1>1, <1>2 DEF ReferencesErrors, Rule
<1>5. /\ ~(Cardinality(a.group_by) > policy.cardinality.max_group_by_keys)
      /\ a.group_by \cap policy.cardinality.forbidden_group_keys = {}
  BY <1>1, <1>2 DEF QueryErrors, Rule
<1> QED
  BY <1>3, <1>4, <1>5 DEF policy, a

\* What a plan instantiates.
LEMMA CandidateOf ==
  ASSUME NEW policy, NEW c \in Candidates(policy)
  PROVE  /\ c[1] \in DOMAIN policy.archetypes /\ c[2] \in DOMAIN policy.environments
         /\ c[2] \in policy.archetypes[c[1]].envs
         /\ c[3] \in policy.archetypes[c[1]].bands
         /\ c[3] \in policy.environments[c[2]].bands_instantiated
<1> DEFINE Of(p) == {<<p[1], p[2], band>> : band \in policy.archetypes[p[1]].bands
                                                 \cap policy.environments[p[2]].bands_instantiated}
           pairs == {q \in (DOMAIN policy.archetypes) \X (DOMAIN policy.environments) :
                       q[2] \in policy.archetypes[q[1]].envs /\ policy.environments[q[2]].alerting}
<1>1. \E p \in pairs : c \in Of(p)
  BY Zenon DEF Candidates
<1>2. PICK p \in pairs : c \in Of(p)
  BY <1>1
<1>3. PICK band \in policy.archetypes[p[1]].bands \cap policy.environments[p[2]].bands_instantiated :
          c = <<p[1], p[2], band>>
  BY <1>2
<1> QED
  BY <1>2, <1>3

\* The rank that an exception asks for is one of the four.
LEMMA FloorIsRank ==
  ASSUME PlanOnlyRules, NEW commit \in Commits, Accepted(commit), NEW aid, NEW env
  PROVE  Floor(Policy(commit), aid, env) \in 1..4
<1> DEFINE policy == Policy(commit)
<1>1. \A i \in DOMAIN policy.exceptions :
          policy.exceptions[i].control = "priority" => policy.exceptions[i].value \in DOMAIN Rank
  BY DEF PlanOnlyRules
<1>2. \A scope : \A e \in PriorityExceptions(policy, scope) : e.value \in DOMAIN Rank
  BY <1>1 DEF PriorityExceptions
<1>3. \A value \in DOMAIN Rank : Rank[value] \in 1..4
  BY DEF Rank
<1> HIDE DEF policy
<1>4. \A scope : PriorityExceptions(policy, scope) # {} =>
          Rank[(CHOOSE e \in PriorityExceptions(policy, scope) : TRUE).value] \in 1..4
  BY <1>2, <1>3
<1> QED
  BY <1>4 DEF Floor, policy

LEMMA QuieterOf ==
  ASSUME NEW p \in 1..4, NEW q \in 1..4
  PROVE  /\ Quieter(p, q) \in 1..4
         /\ Quieter(p, q) = 1 => p = 1
         /\ p = 4 \/ q = 4 => Quieter(p, q) = 4
BY DEF Quieter

LEMMA TimeoutInRange ==
  ASSUME PlanOnlyRules, NEW commit \in Commits, Accepted(commit), NEW hours,
         hours \subseteq Policy(commit).auto_resolve.min_hours..Policy(commit).auto_resolve.max_hours
  PROVE  TimeoutOf(Policy(commit), hours)
           \in Policy(commit).auto_resolve.min_hours..Policy(commit).auto_resolve.max_hours
BY DEF TimeoutOf, PlanOnlyRules

\* No archetype's instance is refused: neither its fields nor, whatever the
\* environment's ceiling and an exception's floor, its priority.
LEMMA InstanceAccepted ==
  ASSUME PlanOnlyRules, NEW commit \in Commits, Accepted(commit),
         NEW c \in Candidates(Policy(commit))
  PROVE  LET i == InstanceOf(Policy(commit), c)
         IN  ~InstanceRefused(Policy(commit), i) /\ i.env = c[2]
<1> DEFINE policy == Policy(commit)
           a == policy.archetypes[c[1]]
           env == policy.environments[c[2]]
           i == InstanceOf(policy, c)
           resolved == Quieter(policy.matrix[a.impact_class][c[3]], env.priority_ceiling)
           floor == Floor(policy, c[1], c[2])
<1>1. /\ c[1] \in DOMAIN policy.archetypes /\ c[2] \in DOMAIN policy.environments
      /\ c[2] \in a.envs /\ c[3] \in a.bands /\ c[3] \in env.bands_instantiated
  BY CandidateOf
<1>2. /\ a.impact_class \in DOMAIN policy.matrix /\ a.domain \in DOMAIN policy.domains
      /\ c[3] \in Bands
      /\ a.auto_resolve_hours \subseteq policy.auto_resolve.min_hours..policy.auto_resolve.max_hours
      /\ a.slo_id \in {s.slo_id : s \in policy.slos}
      /\ a.runbook \in DOMAIN policy.runbooks /\ a.workflow \in DOMAIN policy.workflows
      /\ ~(Cardinality(a.group_by) > policy.cardinality.max_group_by_keys)
      /\ a.group_by \cap policy.cardinality.forbidden_group_keys = {}
  BY <1>1, LintedArchetype
<1>3. /\ policy.matrix[a.impact_class][c[3]] \in 1..4 /\ env.priority_ceiling \in 1..4
      /\ None \notin DOMAIN policy.runbooks \cup DOMAIN policy.workflows
  BY <1>1, <1>2, PolicyOfCommit DEF RepositoryOK
<1>4. floor \in 1..4
  BY FloorIsRank
<1>5. /\ OwningTeam(policy.domains[a.domain]) # None /\ a.slo_id # <<>>
      /\ c[2] = "dev" => env.priority_ceiling = 4
  BY <1>1, <1>2 DEF PlanOnlyRules
<1>6. TimeoutOf(policy, a.auto_resolve_hours)
          \in policy.auto_resolve.min_hours..policy.auto_resolve.max_hours
  BY <1>2, TimeoutInRange
<1>7. /\ resolved \in 1..4 /\ Quieter(resolved, floor) \in 1..4
      /\ c[2] = "dev" => Quieter(resolved, floor) = 4
      /\ Quieter(resolved, floor) = 1 => resolved = 1
  BY <1>3, <1>4, <1>5, QuieterOf
<1>8. /\ i.env = c[2] /\ i.priority = Quieter(resolved, floor)
      /\ i.pages = (env.paging_allowed /\ c[3] = "critical" /\ i.priority = 1)
      /\ i.team = OwningTeam(policy.domains[a.domain]) /\ i.group_by = a.group_by
      /\ i.timeout_h = TimeoutOf(policy, a.auto_resolve_hours)
      /\ i.slo_id = a.slo_id /\ i.runbook = a.runbook /\ i.workflow = a.workflow
  BY DEF InstanceOf
<1>9. i.pages => i.env = "prod"
  <2> SUFFICES ASSUME i.pages, c[2] # "prod" PROVE FALSE
    BY <1>8
  <2>1. Pages(policy, ResolvePriority(policy, a.impact_class, c[3], c[2]), c[3], c[2], "archetype")
    BY <1>7, <1>8 DEF Pages, ResolvePriority
  <2>2. <<a, c[2], c[3]>> \in Archetypes(policy) \X (DOMAIN policy.environments) \X Bands
    BY <1>1, <1>2 DEF Archetypes
  <2>3. PriorityErrors(policy) = {}
    BY LintedRules
  <2> HIDE DEF policy, a, env, i, resolved, floor
  <2>4. \A t \in Archetypes(policy) \X (DOMAIN policy.environments) \X Bands :
            ~ (/\ t[2] \in t[1].envs
               /\ t[3] \in t[1].bands \cap policy.environments[t[2]].bands_instantiated
               /\ t[2] # "prod"
               /\ Pages(policy, ResolvePriority(policy, t[1].impact_class, t[3], t[2]),
                        t[3], t[2], "archetype"))
    BY <2>3 DEF PriorityErrors, Rule
  <2> DEFINE t == <<a, c[2], c[3]>>
  <2>5. t[1] = a /\ t[2] = c[2] /\ t[3] = c[3]
    OBVIOUS
  <2> HIDE DEF t
  <2> QED
    BY <1>1, <2>1, <2>2, <2>4, <2>5 DEF t, env
<1>10. /\ None \notin {i.runbook, i.workflow, i.team} /\ i.slo_id # <<>>
       /\ ~(i.env = "dev" /\ i.priority # 4)
       /\ ~(i.pages /\ (i.env # "prod" \/ i.priority > 2))
  <2> HIDE DEF i, policy, a, env, resolved, floor
  <2>1. None \notin {i.runbook, i.workflow, i.team} /\ i.slo_id # <<>>
    BY <1>2, <1>3, <1>5, <1>8
  <2>2. i.env = "dev" => i.priority = 4
    BY <1>7, <1>8
  <2>3. i.pages => i.priority = 1
    BY <1>8
  <2>4. i.priority = 1 => ~(i.priority > 2)
    OBVIOUS
  <2> QED
    BY <1>9, <2>1, <2>2, <2>3, <2>4
<1>11. i.group_by = a.group_by
       /\ i.timeout_h \in policy.auto_resolve.min_hours..policy.auto_resolve.max_hours
  BY <1>6, <1>8
<1> HIDE DEF i, policy, a
<1>12. ~InstanceRefused(policy, i)
  BY <1>2, <1>10, <1>11 DEF InstanceRefused
<1> QED
  BY <1>8, <1>12 DEF i, policy

\* Nor is one that a composite demotes: it is P4 and does not page.
LEMMA PackInstanceAccepted ==
  ASSUME PlanOnlyRules, NEW commit \in Commits, Accepted(commit),
         NEW x \in ArchetypeInstances(Policy(commit))
  PROVE  ~InstanceRefused(Policy(commit), x)
<1> DEFINE policy == Policy(commit)
           Quiet(i) == [i EXCEPT !.priority = 4, !.pages = FALSE,
                           !.profile = IF i.env \in {"dev", "qa", "stage"} THEN "nonprod_standard"
                                       ELSE IF i.domain = "security" THEN "security_operational"
                                       ELSE "production_baseline"]
<1>1. ArchetypeInstances(policy)
        = {IF i.key \in Demoted(policy) THEN Quiet(i) ELSE i :
             i \in {InstanceOf(policy, c) : c \in Candidates(policy)}}
  BY DEF ArchetypeInstances
<1>2. \E i \in {InstanceOf(policy, c) : c \in Candidates(policy)} :
          x = IF i.key \in Demoted(policy) THEN Quiet(i) ELSE i
  <2> HIDE DEF Quiet
  <2> QED
    BY <1>1, Zenon
<1>3. PICK c \in Candidates(policy) :
          x = IF InstanceOf(policy, c).key \in Demoted(policy)
              THEN Quiet(InstanceOf(policy, c)) ELSE InstanceOf(policy, c)
  <2> HIDE DEF Quiet
  <2> QED
    BY <1>2, Zenon
<1> DEFINE i == InstanceOf(policy, c)
<1>4. ~InstanceRefused(policy, i)
  BY InstanceAccepted
<1>5. CASE i.key \notin Demoted(policy)
  BY <1>3, <1>4, <1>5
<1>6. CASE i.key \in Demoted(policy)
  <2>1. x = Quiet(i)
    BY <1>3, <1>6
  <2>2. /\ x.group_by = i.group_by /\ x.timeout_h = i.timeout_h /\ x.runbook = i.runbook
        /\ x.workflow = i.workflow /\ x.team = i.team /\ x.slo_id = i.slo_id
        /\ x.priority = 4 /\ x.pages = FALSE
    <3>1. {"priority", "pages", "profile"} \subseteq DOMAIN i
      BY DEF InstanceOf
    <3>2. DOMAIN x = DOMAIN i /\ \A k \in DOMAIN i \ {"priority", "pages", "profile"} : x[k] = i[k]
      BY <2>1
    <3>3. {"group_by", "timeout_h", "runbook", "workflow", "team", "slo_id"} \subseteq DOMAIN i
      BY DEF InstanceOf
    <3>4. x.priority = 4 /\ x.pages = FALSE
      <4> HIDE DEF i
      <4> QED
        BY <2>1, <3>1
    <3> HIDE DEF i, Quiet
    <3> QED
      BY <3>2, <3>3, <3>4
  <2> HIDE DEF i, policy
  <2> QED
    BY <1>4, <2>2 DEF InstanceRefused, policy
<1> QED
  BY <1>5, <1>6

\* The same for a monitor without an archetype: its team, its objective and,
\* outside production, its silence decide.
LEMMA SimpleAccepted ==
  ASSUME PlanOnlyRules, NEW commit \in Commits, Accepted(commit), NEW i,
         i.group_by = {}, i.timeout_h = TimeoutOf(Policy(commit), {}),
         None \notin {i.runbook, i.workflow, i.team}, i.slo_id # <<>>,
         i.env = "dev" => i.priority = 4, i.priority \in 1..4,
         i.pages => i.env = "prod" /\ i.priority <= 2
  PROVE  ~InstanceRefused(Policy(commit), i)
<1> DEFINE policy == Policy(commit)
<1>1. Cardinality({}) = 0
  BY FS_EmptySet
<1>2. policy.cardinality.max_group_by_keys \in Nat
  BY PolicyOfCommit DEF RepositoryOK
<1>3. TimeoutOf(policy, {}) \in policy.auto_resolve.min_hours..policy.auto_resolve.max_hours
  BY TimeoutInRange
<1>4. ~(0 > policy.cardinality.max_group_by_keys)
  BY <1>2
<1>5. i.pages => ~(i.priority > 2)
  OBVIOUS
<1> HIDE DEF policy
<1> QED
  BY <1>1, <1>3, <1>4, <1>5 DEF InstanceRefused, policy

\* Where an objective that Terraform builds comes from.
LEMMA BuiltFrom ==
  ASSUME NEW policy, NEW docs, NEW x \in SvcObjectives(policy, docs)
  PROVE  \E s \in SvcSloServices(policy, docs) : \E o \in Enabled(policy, s) :
             x = [slo_id |-> SloIdFor(s.name, o), service |-> s.name, team |-> s.team,
                  domain |-> policy.service_archetypes[s.service_archetype].domain,
                  type |-> SvcResolved(policy, s, o).type,
                  member_archetypes |-> SvcResolved(policy, s, o).member_archetypes,
                  target |-> SvcResolved(policy, s, o).target,
                  burn_alerts |-> SvcBurnWindows(policy, SvcResolved(policy, s, o))]
<1> DEFINE Built(s, o) ==
             [slo_id |-> SloIdFor(s.name, o), service |-> s.name, team |-> s.team,
              domain |-> policy.service_archetypes[s.service_archetype].domain,
              type |-> SvcResolved(policy, s, o).type,
              member_archetypes |-> SvcResolved(policy, s, o).member_archetypes,
              target |-> SvcResolved(policy, s, o).target,
              burn_alerts |-> SvcBurnWindows(policy, SvcResolved(policy, s, o))]
<1>1. SvcObjectives(policy, docs)
        = UNION {{Built(s, o) : o \in Enabled(policy, s)} : s \in SvcSloServices(policy, docs)}
  BY DEF SvcObjectives, Enabled
<1> SUFFICES \E s \in SvcSloServices(policy, docs) : \E o \in Enabled(policy, s) : x = Built(s, o)
  OBVIOUS
<1> HIDE DEF Built
<1>2. PICK s \in SvcSloServices(policy, docs) : x \in {Built(s, o) : o \in Enabled(policy, s)}
  BY <1>1, Zenon
<1>3. \E o \in Enabled(policy, s) : x = Built(s, o)
  BY <1>2, Zenon
<1> QED
  BY <1>3

\* An id says that it is one, and of one service it says which objective.
LEMMA SloIdStarts ==
  ASSUME NEW name \in Seq(STRING), NEW o, NEW p
  PROVE  /\ SloIdFor(name, o) # <<>>
         /\ SloIdFor(name, o) = SloIdFor(name, p) => o = p
<1> DEFINE T == STRING \cup {"slo-svc", o, p}
           head == <<"slo-svc">> \o name
           Ending(x) == IF x = "availability" THEN <<>> ELSE <<x>>
<1>1. <<"slo-svc">> \in Seq(T) /\ name \in Seq(T) /\ <<"slo-svc">> # <<>>
  <2>1. STRING \subseteq T /\ "slo-svc" \in T
    BY Zenon
  <2> HIDE DEF T
  <2>2. name \in Seq(T)
    BY <2>1, SeqMonotonic
  <2> QED
    BY <2>1, <2>2
<1>2. Ending(o) \in Seq(T) /\ Ending(p) \in Seq(T)
  <2>1. o \in T /\ p \in T
    OBVIOUS
  <2> HIDE DEF T
  <2>2. <<>> \in Seq(T) /\ <<o>> \in Seq(T) /\ <<p>> \in Seq(T)
    BY <2>1
  <2> QED
    BY <2>2
<1>3. Ending(o) = Ending(p) => o = p
  OBVIOUS
<1>4. SloIdFor(name, o) = head \o Ending(o) /\ SloIdFor(name, p) = head \o Ending(p)
  BY DEF SloIdFor
<1> HIDE DEF T, Ending
<1>5. head \in Seq(T) /\ head # <<>>
  BY <1>1, ConcatProperties, ConcatEqualIffEmpty
<1> HIDE DEF head
<1>6. head \o Ending(o) # <<>>
  BY <1>2, <1>5, ConcatEqualIffEmpty
<1>7. head \o Ending(o) = head \o Ending(p) => Ending(o) = Ending(p)
  BY <1>2, <1>5, ConcatSimplifications
<1> QED
  BY <1>3, <1>4, <1>6, <1>7

\* A service with objectives of its own has a team.
LEMMA AskedTeam ==
  ASSUME ChainsAlign, NEW commit \in Commits, Accepted(commit),
         NEW s \in SvcSloServices(Policy(commit), Docs(commit)),
         NEW o \in Enabled(Policy(commit), s)
  PROVE  s.team \in DOMAIN Policy(commit).teams
<1> DEFINE policy == Policy(commit)
           x == Asked(policy, s, "prod", o)
<1>1. s \in Services(commit) /\ s \in Materialized(policy, {s})
  BY SameServices DEF Running, Materialized
<1>2. o \in AskedOf(policy, s, "prod")
  BY AskedEnabled
<1>3. x \in ObjectiveSlos(policy, {s}, "prod")
  BY <1>1, <1>2, ObjectivesAsked
<1>4. x \in ResolvedSlos(policy, {s}, "prod")
  BY <1>1, <1>3, EachIsCreated
<1>5. ServiceSloErrors(policy, s) = {}
  BY <1>1, LintedRules DEF ValidateSlos
<1>6. x.team = s.team
  BY DEF Asked
<1> HIDE DEF x, policy
<1>7. x.team \in DOMAIN policy.teams
  BY <1>4, <1>5 DEF ServiceSloErrors
<1> QED
  BY <1>6, <1>7 DEF policy

\* No burn alert is refused, whoever owns the objective.
LEMMA BurnAccepted ==
  ASSUME ChainsAlign, PlanOnlyRules, NEW commit \in Commits, Accepted(commit),
         NEW i \in BurnInstances(Policy(commit), Docs(commit))
  PROVE  ~InstanceRefused(Policy(commit), i)
<1> DEFINE policy == Policy(commit)
           docs == Docs(commit)
           Burn(s, w) ==
             LET impact == policy.burn_rate_windows[w]
                 priority == policy.matrix[impact]["critical"]
             IN  [key |-> <<"burn", s[1], w>>, text |-> <<"burn", s[1], w>>,
                  archetype |-> "slo_burn", env |-> "prod",
                  band |-> "critical", domain |-> s[3], priority |-> priority,
                  pages |-> priority <= 2, team |-> s[2], group_by |-> {},
                  timeout_h |-> TimeoutOf(policy, {}), slo_id |-> s[1],
                  runbook |-> "slo-error-budget-burn", workflow |-> "auto-major-incident",
                  profile |-> "production_critical"]
<1>1. BurnInstances(policy, docs) = UNION {{Burn(s, w) : w \in s[4]} : s \in BurnSource(policy, docs)}
  BY DEF BurnInstances
<1>2. PICK s \in BurnSource(policy, docs) : i \in {Burn(s, w) : w \in s[4]}
  <2> HIDE DEF Burn
  <2> QED
    BY <1>1, Zenon
<1>3. PICK w \in s[4] : i = Burn(s, w)
  <2> HIDE DEF Burn
  <2> QED
    BY <1>2, Zenon
<1>4. policy.burn_rate_windows[w] \in DOMAIN policy.matrix
  BY DEF PlanOnlyRules
<1>5. policy.matrix[policy.burn_rate_windows[w]]["critical"] \in 1..4
  BY <1>4, PolicyOfCommit DEF RepositoryOK, Bands
<1>6. s[2] # None /\ s[1] # <<>>
  <2>1. None \notin DOMAIN policy.teams
    BY PolicyOfCommit DEF RepositoryOK
  <2>2. CASE s \in {<<x.slo_id, x.team, x.domain, x.burn_alerts>> : x \in policy.slos}
    <3>1. PICK x \in policy.slos : s = <<x.slo_id, x.team, x.domain, x.burn_alerts>>
      BY <2>2
    <3>2. CatalogSloErrors(policy) = {}
      BY LintedRules
    <3> HIDE DEF policy
    <3>3. x.team \in DOMAIN policy.teams
      BY <3>2 DEF CatalogSloErrors, Rule
    <3>4. x.slo_id # <<>>
      BY DEF PlanOnlyRules, policy
    <3> QED
      BY <2>1, <3>1, <3>3, <3>4
  <2>3. CASE s \in {<<x.slo_id, x.team, x.domain, x.burn_alerts>> : x \in SvcObjectives(policy, docs)}
    <3>1. PICK x \in SvcObjectives(policy, docs) :
              s = <<x.slo_id, x.team, x.domain, x.burn_alerts>>
      BY <2>3, Zenon
    <3>2. PICK y \in SvcSloServices(policy, docs) : \E o \in Enabled(policy, y) :
              x.slo_id = SloIdFor(y.name, o) /\ x.team = y.team
      BY BuiltFrom
    <3> PICK o \in Enabled(policy, y) : x.slo_id = SloIdFor(y.name, o) /\ x.team = y.team
      BY <3>2
    <3>3. y.team \in DOMAIN policy.teams
      BY AskedTeam
    <3>4. y.name \in Seq(STRING)
      BY SameServices, ServiceNames DEF Running
    <3>5. SloIdFor(y.name, o) # <<>>
      BY <3>4, SloIdStarts
    <3> QED
      BY <2>1, <3>1, <3>2, <3>3, <3>5
  <2> QED
    BY <2>2, <2>3 DEF BurnSource
<1>7. /\ i.group_by = {} /\ i.timeout_h = TimeoutOf(policy, {})
      /\ i.runbook = "slo-error-budget-burn" /\ i.workflow = "auto-major-incident"
      /\ i.team = s[2] /\ i.slo_id = s[1] /\ i.env = "prod"
      /\ i.priority = policy.matrix[policy.burn_rate_windows[w]]["critical"]
      /\ i.pages = (i.priority <= 2)
  BY <1>3
<1> HIDE DEF policy
<1>8. None \notin {i.runbook, i.workflow, i.team}
  BY <1>6, <1>7 DEF None
<1> QED
  BY <1>5, <1>6, <1>7, <1>8, SimpleAccepted DEF policy

\* No composite is refused, and no instance of one: its members agree with it
\* on the environments and the bands, and with one another on the grouping.
LEMMA CompositeAccepted ==
  ASSUME PlanOnlyRules, NEW commit \in Commits, Accepted(commit),
         NEW c \in Policy(commit).composites
  PROVE  ~CompositeRefused(Policy(commit), c)
<1> DEFINE policy == Policy(commit)
<1>1. CompositeErrors(policy) = {}
  BY LintedRules
<1>2. Cardinality(c.members) >= 2
  BY DEF PlanOnlyRules
<1>3. policy.composite_budget.members \in Nat /\ Cardinality(c.members) \in Nat
  BY PolicyOfCommit, FS_CardinalityType DEF RepositoryOK
<1> HIDE DEF policy
<1>4. /\ ~(Cardinality(c.members) > policy.composite_budget.members)
      /\ c.members \subseteq DOMAIN policy.archetypes
  BY <1>1 DEF CompositeErrors, Rule, policy
<1>5. c.members \cap DOMAIN policy.archetypes = c.members
  BY <1>4
<1> DEFINE members == {policy.archetypes[m] : m \in c.members}
<1>6. /\ ~(Cardinality({a.group_by : a \in members}) > 1)
      /\ {OwningTeam(policy.domains[a.domain]) : a \in members} \subseteq {c.owner_team} \cup c.cc_teams
  BY <1>1, <1>5 DEF CompositeErrors, Rule, OwningTeam, policy
<1>7. Cardinality(c.members) \in 2..policy.composite_budget.members
  BY <1>2, <1>3, <1>4
<1> QED
  BY <1>6, <1>7 DEF CompositeRefused, policy

LEMMA CompositeInstanceAccepted ==
  ASSUME PlanOnlyRules, NEW commit \in Commits, Accepted(commit),
         NEW i \in CompositeInstances(Policy(commit))
  PROVE  ~InstanceRefused(Policy(commit), i)
<1> DEFINE policy == Policy(commit)
           Priority(t) == Quieter(policy.matrix[t[1].impact_class][t[3]],
                                  policy.environments[t[2]].priority_ceiling)
           Of(t) ==
             [key |-> <<"composite", t[1].id, t[2], t[3]>>,
              text |-> <<"composite", t[1].id, t[2], t[3]>>, archetype |-> "composite",
              env |-> t[2], band |-> t[3], domain |-> t[1].domain, priority |-> Priority(t),
              pages |-> policy.environments[t[2]].paging_allowed /\ t[3] = "critical"
                           /\ Priority(t) <= 2,
              team |-> t[1].owner_team, group_by |-> {}, timeout_h |-> TimeoutOf(policy, {}),
              slo_id |-> t[1].slo_id, runbook |-> t[1].runbook, workflow |-> t[1].workflow,
              profile |-> IF t[2] \in {"dev", "qa", "stage"} THEN "nonprod_standard"
                          ELSE "production_critical"]
<1>1. CompositeInstances(policy) = {Of(t) : t \in Resolvable(policy)}
  BY DEF CompositeInstances
<1>2. PICK t \in Resolvable(policy) : i = Of(t)
  <2> HIDE DEF Of
  <2> QED
    BY <1>1, Zenon
<1>3. /\ t[1] \in policy.composites /\ t[2] \in t[1].envs
      /\ \A m \in t[1].members : <<m, t[2], t[3]>> \in Candidates(policy)
  <2>1. PICK c \in policy.composites : t \in {c} \X c.envs \X c.bands
    BY DEF Resolvable
  <2> QED
    BY <2>1 DEF Resolvable
<1>4. /\ t[1].impact_class \in DOMAIN policy.matrix
      /\ None \notin {t[1].runbook, t[1].workflow} /\ t[1].slo_id # <<>>
      /\ policy.environments[t[2]].paging_allowed => t[2] = "prod"
      /\ Cardinality(t[1].members) >= 2
  BY <1>3 DEF PlanOnlyRules
<1>5. t[2] \in DOMAIN policy.environments /\ t[3] \in Bands
  <2>1. t[1].members # {}
    BY <1>4, FS_EmptySet
  <2>2. PICK m \in t[1].members : TRUE
    BY <2>1
  <2>3. <<m, t[2], t[3]>> \in Candidates(policy)
    BY <1>3
  <2>4. /\ m \in DOMAIN policy.archetypes /\ t[2] \in DOMAIN policy.environments
        /\ t[3] \in policy.archetypes[m].bands
    BY <2>3, CandidateOf
  <2> QED
    BY <2>4, LintedArchetype
<1>6. t[1].owner_team # None
  <2>1. CompositeErrors(policy) = {} /\ None \notin DOMAIN policy.teams
    BY LintedRules, PolicyOfCommit DEF RepositoryOK
  <2> HIDE DEF policy
  <2>2. t[1].owner_team \in DOMAIN policy.teams
    BY <1>3, <2>1 DEF CompositeErrors, Rule
  <2> QED
    BY <2>1, <2>2
<1>7. /\ policy.matrix[t[1].impact_class][t[3]] \in 1..4
      /\ policy.environments[t[2]].priority_ceiling \in 1..4
  BY <1>4, <1>5, PolicyOfCommit DEF RepositoryOK
<1>8. t[2] = "dev" => policy.environments[t[2]].priority_ceiling = 4
  BY <1>5 DEF PlanOnlyRules
<1>9. Priority(t) \in 1..4 /\ (t[2] = "dev" => Priority(t) = 4)
  BY <1>7, <1>8, QuieterOf
<1>10. /\ i.group_by = {} /\ i.timeout_h = TimeoutOf(policy, {})
       /\ i.runbook = t[1].runbook /\ i.workflow = t[1].workflow
       /\ i.team = t[1].owner_team /\ i.slo_id = t[1].slo_id /\ i.env = t[2]
       /\ i.priority = Priority(t)
       /\ i.pages = (/\ policy.environments[t[2]].paging_allowed
                     /\ t[3] = "critical" /\ Priority(t) <= 2)
  BY <1>2
<1> HIDE DEF Priority, Of, policy
<1>11. i.pages => i.env = "prod" /\ i.priority <= 2
  BY <1>4, <1>10
<1>12. None \notin {i.runbook, i.workflow, i.team} /\ i.slo_id # <<>>
  BY <1>4, <1>6, <1>10
<1> QED
  BY <1>9, <1>10, <1>11, <1>12, SimpleAccepted DEF policy

\* One id is one objective: the lint tells two services apart, and the
\* objectives of one service have names of their own.
LEMMA IdsApart ==
  ASSUME ChainsAlign, NEW commit \in Commits, Accepted(commit),
         NEW x \in SvcObjectives(Policy(commit), Docs(commit)),
         NEW y \in SvcObjectives(Policy(commit), Docs(commit)), x.slo_id = y.slo_id
  PROVE  x = y
<1> DEFINE policy == Policy(commit)
           S == SvcSloServices(policy, Docs(commit))
           Built(s, o) ==
             [slo_id |-> SloIdFor(s.name, o), service |-> s.name, team |-> s.team,
              domain |-> policy.service_archetypes[s.service_archetype].domain,
              type |-> SvcResolved(policy, s, o).type,
              member_archetypes |-> SvcResolved(policy, s, o).member_archetypes,
              target |-> SvcResolved(policy, s, o).target,
              burn_alerts |-> SvcBurnWindows(policy, SvcResolved(policy, s, o))]
<1>1. PICK s \in S : \E o \in Enabled(policy, s) : x = Built(s, o)
  BY BuiltFrom
<1>2. PICK o \in Enabled(policy, s) : x = Built(s, o)
  BY <1>1
<1>3. PICK t \in S : \E p \in Enabled(policy, t) : y = Built(t, p)
  BY BuiltFrom
<1>4. PICK p \in Enabled(policy, t) : y = Built(t, p)
  BY <1>3
<1>5. SloIdFor(s.name, o) = SloIdFor(t.name, p)
  BY <1>2, <1>4
<1> HIDE DEF Built
<1>6. /\ s \in Services(commit) /\ s \in Materialized(policy, Services(commit))
      /\ t \in Services(commit) /\ t \in Materialized(policy, Services(commit))
  BY SameServices DEF Running, Materialized
<1>7. o \in AskedOf(policy, s, "prod") /\ p \in AskedOf(policy, t, "prod")
  BY AskedEnabled
<1>8. /\ Asked(policy, s, "prod", o) \in ObjectiveSlos(policy, Services(commit), "prod")
      /\ Asked(policy, t, "prod", p) \in ObjectiveSlos(policy, Services(commit), "prod")
  BY <1>6, <1>7, ObjectivesAsked
<1>9. s.name = t.name
  <2>1. DuplicateIds(policy, Services(commit)) = {}
    BY LintedRules DEF ValidateSlos
  <2>2. \A a, b \in ObjectiveSlos(policy, Services(commit), "prod") :
            a.slo_id = b.slo_id => a.service = b.service
    BY <2>1 DEF DuplicateIds
  <2>3. /\ Asked(policy, s, "prod", o).slo_id = SloIdFor(s.name, o)
        /\ Asked(policy, s, "prod", o).service = s.name
        /\ Asked(policy, t, "prod", p).slo_id = SloIdFor(t.name, p)
        /\ Asked(policy, t, "prod", p).service = t.name
    BY DEF Asked
  <2> HIDE DEF policy
  <2> QED
    BY <1>5, <1>8, <2>2, <2>3
<1>10. s = t
  BY <1>6, <1>9, ServiceNames
<1>11. s.name \in Seq(STRING)
  BY <1>6, ServiceNames
<1>12. o = p
  BY <1>5, <1>10, <1>11, SloIdStarts
<1> QED
  BY <1>2, <1>4, <1>10, <1>12

\* Nothing in the plan of coverage fails.
LEMMA PlanAccepted ==
  ASSUME ChainsAlign, PlanOnlyRules, NEW commit \in Commits, Accepted(commit)
  PROVE  ~PlanFails(Policy(commit), Docs(commit))
<1> DEFINE policy == Policy(commit)
           docs == Docs(commit)
<1>1. \A x, y \in SvcObjectives(policy, docs) : x.slo_id = y.slo_id => x = y
  BY IdsApart
<1>2. \A i \in Instances(policy, docs) : ~InstanceRefused(policy, i)
  <2> SUFFICES ASSUME NEW i \in Instances(policy, docs) PROVE ~InstanceRefused(policy, i)
    OBVIOUS
  <2>1. CASE i \in ArchetypeInstances(policy)
    BY <2>1, PackInstanceAccepted
  <2>2. CASE i \in BurnInstances(policy, docs)
    BY <2>2, BurnAccepted
  <2>3. CASE i \in CompositeInstances(policy)
    BY <2>3, CompositeInstanceAccepted
  <2> QED
    BY <2>1, <2>2, <2>3 DEF Instances
<1>3. \A t \in Resolvable(policy) : ~CompositeRefused(policy, t[1])
  <2> SUFFICES ASSUME NEW t \in Resolvable(policy) PROVE ~CompositeRefused(policy, t[1])
    OBVIOUS
  <2>1. PICK c \in policy.composites : t \in {c} \X c.envs \X c.bands
    BY DEF Resolvable
  <2> QED
    BY <2>1, CompositeAccepted
<1>4. \A i, j \in DOMAIN policy.exceptions :
          /\ policy.exceptions[i].control = "priority" /\ policy.exceptions[j].control = "priority"
          /\ <<policy.exceptions[i].archetype, policy.exceptions[i].env>>
                 = <<policy.exceptions[j].archetype, policy.exceptions[j].env>>
          => i = j
  BY DEF PlanOnlyRules
<1> HIDE DEF policy, docs
<1>5. ~PlanFails(policy, docs)
  BY <1>1, <1>2, <1>3, <1>4 DEF PlanFails
<1> QED
  BY <1>5 DEF policy, docs

-------------------------------------------------------------------------------
(* Self-service monitors.                                                  *)

\* What validate_monitors has established of a manifest.
LEMMA LintedManifest ==
  ASSUME NEW commit \in Commits, Accepted(commit), NEW m \in Manifests(commit)
  PROVE  LET policy == Policy(commit)
             owners == Registration(Services(commit), m.service)
             keys == Answer(m.group_by, UNION {a.group_by : a \in BaseOf(policy, m)})
         IN  /\ m.team \in DOMAIN policy.teams /\ m.runbook \in DOMAIN policy.runbooks
             /\ m.workflow \in DOMAIN policy.workflows
             /\ m.slo \in {s.slo_id : s \in policy.slos}
             /\ m.archetype \in DOMAIN policy.archetypes \cup {"custom"}
             /\ m.envs \subseteq DOMAIN policy.environments
             /\ owners # {}
             /\ m.archetype = "custom" => m.impact_class # {}
             /\ ~(Cardinality(keys) > policy.cardinality.max_group_by_keys)
             /\ keys \cap policy.cardinality.forbidden_group_keys = {}
             /\ m.priority \in {1, 2} =>
                    AlertBand(policy, Answer({s.tier : s \in owners}, "tier2")) = "critical"
<1> DEFINE policy == Policy(commit)
           services == Services(commit)
           owners == Registration(services, m.service)
           keys == Answer(m.group_by, UNION {a.group_by : a \in BaseOf(policy, m)})
<1>1. ManifestErrors(policy, services, m) = {}
  BY AcceptedPasses
<1> HIDE DEF policy, services
<1>2. /\ m.team \in DOMAIN policy.teams /\ m.runbook \in DOMAIN policy.runbooks
      /\ m.workflow \in DOMAIN policy.workflows
      /\ m.slo \in {s.slo_id : s \in policy.slos}
      /\ m.archetype \in DOMAIN policy.archetypes \cup {"custom"}
  BY <1>1 DEF ManifestErrors, Rule
<1>3. m.envs \subseteq DOMAIN policy.environments
  BY <1>1 DEF ManifestErrors, Rule
<1>4. owners # {}
  BY <1>1 DEF ManifestErrors, Rule
<1>5. DefinitionErrors(policy, m) = {} /\ PagerErrors(policy, services, m) = {}
  BY <1>1 DEF ManifestErrors
<1>6. m.archetype = "custom" => m.impact_class # {}
  BY <1>5 DEF DefinitionErrors, Rule
<1>7. Rule("group_keys", {x \in {keys} : Cardinality(x) > policy.cardinality.max_group_by_keys}) = {}
      /\ Rule("identity_key", keys \cap policy.cardinality.forbidden_group_keys) = {}
  BY <1>5 DEF DefinitionErrors
<1> HIDE DEF keys, owners
<1>8. /\ ~(Cardinality(keys) > policy.cardinality.max_group_by_keys)
      /\ keys \cap policy.cardinality.forbidden_group_keys = {}
  BY <1>7 DEF Rule
<1>9. m.priority \in {1, 2} =>
          AlertBand(policy, Answer({s.tier : s \in owners}, "tier2")) = "critical"
  BY <1>5 DEF PagerErrors, Rule, owners
<1> QED
  BY <1>2, <1>3, <1>4, <1>6, <1>8, <1>9 DEF policy, services, owners, keys

\* What is stated is the answer.
LEMMA AnswerOf ==
  ASSUME NEW stated, NEW fallback
  PROVE  /\ stated # {} => Answer(stated, fallback) \in stated
         /\ stated = {} => Answer(stated, fallback) = fallback
BY DEF Answer

\* The archetype behind a manifest exists, and its band has a priority.
LEMMA ManifestBuilds ==
  ASSUME PlanOnlyRules, NEW commit \in Commits, Accepted(commit), NEW m \in Manifests(commit)
  PROVE  LET policy == Policy(commit)
         IN  /\ m.archetype \in DOMAIN policy.archetypes => BaseId(policy, m) \in DOMAIN policy.archetypes
             /\ BaseId(policy, m) \in DOMAIN policy.archetypes \cup {"custom"}
             /\ AlertBand(policy, CustomTier(Docs(commit), m)) \in Bands
             /\ ~Unbuildable(policy, Docs(commit), m)
<1> DEFINE policy == Policy(commit)
           variants == {a.predictive_variant : a \in BaseOf(policy, m)} \ {None}
           band == AlertBand(policy, CustomTier(Docs(commit), m))
<1>1. m.archetype \in DOMAIN policy.archetypes \cup {"custom"}
  BY LintedManifest
<1>2. variants \subseteq DOMAIN policy.archetypes
  <2>1. \A aid \in DOMAIN policy.archetypes :
            policy.archetypes[aid].predictive_variant \in DOMAIN policy.archetypes \cup {None}
    BY DEF PlanOnlyRules
  <2> QED
    BY <2>1 DEF BaseOf
<1>3. Answer(variants, m.archetype) \in DOMAIN policy.archetypes \cup {m.archetype}
  BY <1>2, AnswerOf
<1>4. BaseId(policy, m) \in DOMAIN policy.archetypes \cup {m.archetype}
  BY <1>3 DEF BaseId
<1>5. band \in Bands
  <2>1. CASE m.priority \in {1, 2}
    <3> DEFINE tiers == {s.tier : s \in Registration(Services(commit), m.service)}
    <3>1. /\ Registration(Services(commit), m.service) # {}
          /\ AlertBand(policy, Answer(tiers, "tier2")) = "critical"
      BY <2>1, LintedManifest
    <3>2. tiers # {}
      BY <3>1
    <3>3. CustomTier(Docs(commit), m) = Answer(tiers, Given(m.tier, "tier2"))
      BY DEF CustomTier, Docs, Services, ServiceDocs
    <3> HIDE DEF tiers
    <3>4. CustomTier(Docs(commit), m) = Answer(tiers, "tier2")
      BY <3>2, <3>3 DEF Answer
    <3> QED
      BY <3>1, <3>4 DEF Bands
  <2>2. CASE m.priority \notin {1, 2}
    BY <2>2 DEF PlanOnlyRules
  <2> QED
    BY <2>1, <2>2
<1>6. band # "none"
  BY <1>5 DEF Bands
<1> QED
  BY <1>1, <1>4, <1>5, <1>6 DEF Unbuildable

\* The keys a team's monitor groups by: its own, or those of the archetype
\* behind it, which is the predictive variant where one was asked for.
LEMMA CustomKeys ==
  ASSUME PlanOnlyRules, NEW commit \in Commits, Accepted(commit), NEW m \in Manifests(commit)
  PROVE  LET policy == Policy(commit)
             base == {policy.archetypes[aid] :
                         aid \in {BaseId(policy, m)} \cap DOMAIN policy.archetypes}
             keys == Answer(m.group_by, UNION {a.group_by : a \in base})
         IN  /\ ~(Cardinality(keys) > policy.cardinality.max_group_by_keys)
             /\ keys \cap policy.cardinality.forbidden_group_keys = {}
<1> DEFINE policy == Policy(commit)
           aid == BaseId(policy, m)
           base == {policy.archetypes[x] : x \in {aid} \cap DOMAIN policy.archetypes}
           keys == Answer(m.group_by, UNION {a.group_by : a \in base})
           stated == Answer(m.group_by, UNION {a.group_by : a \in BaseOf(policy, m)})
<1>1. CASE m.group_by # {}
  <2>1. /\ ~(Cardinality(stated) > policy.cardinality.max_group_by_keys)
        /\ stated \cap policy.cardinality.forbidden_group_keys = {}
    BY LintedManifest
  <2>2. keys = stated
    BY <1>1 DEF Answer
  <2> QED
    BY <2>1, <2>2
<1>2. CASE m.group_by = {} /\ aid \in DOMAIN policy.archetypes
  <2> DEFINE a == policy.archetypes[aid]
  <2>1. base = {a}
    BY <1>2
  <2>2. UNION {x.group_by : x \in {a}} = a.group_by
    OBVIOUS
  <2>3. keys = a.group_by
    <3> HIDE DEF a, base, aid, policy
    <3>1. UNION {x.group_by : x \in base} = a.group_by
      BY <2>1, <2>2
    <3> QED
      BY <1>2, <3>1 DEF Answer
  <2>4. /\ ~(Cardinality(a.group_by) > policy.cardinality.max_group_by_keys)
        /\ a.group_by \cap policy.cardinality.forbidden_group_keys = {}
    BY <1>2, LintedArchetype
  <2> QED
    BY <2>3, <2>4
<1>3. CASE m.group_by = {} /\ aid \notin DOMAIN policy.archetypes
  <2>1. base = {}
    BY <1>3
  <2>2. keys = {}
    BY <1>3, <2>1, AnswerOf
  <2>3. Cardinality({}) = 0 /\ policy.cardinality.max_group_by_keys \in Nat
    BY FS_EmptySet, PolicyOfCommit DEF RepositoryOK
  <2>4. ~(0 > policy.cardinality.max_group_by_keys)
    BY <2>3
  <2> HIDE DEF policy, keys
  <2>5. ~(Cardinality(keys) > policy.cardinality.max_group_by_keys)
    BY <2>2, <2>3, <2>4
  <2>6. keys \cap policy.cardinality.forbidden_group_keys = {}
    BY <2>2
  <2> QED
    BY <2>5, <2>6 DEF policy, keys
<1> QED
  BY <1>1, <1>2, <1>3

\* No monitor of a team is refused.
LEMMA CustomAccepted ==
  ASSUME PlanOnlyRules, NEW commit \in Commits, Accepted(commit), NEW m \in Manifests(commit),
         NEW env \in m.envs
  PROVE  ~InstanceRefused(Policy(commit), CustomInstance(Policy(commit), Docs(commit), m, env))
<1> DEFINE policy == Policy(commit)
           docs == Docs(commit)
           i == CustomInstance(policy, docs, m, env)
           base == {policy.archetypes[aid] :
                       aid \in {BaseId(policy, m)} \cap DOMAIN policy.archetypes}
           place == policy.environments[env]
           band == AlertBand(policy, CustomTier(docs, m))
           implied == {a.impact_class : a \in base}
           impact == Answer(m.impact_class, Answer(implied, None))
           asked == IF m.priority # 0 THEN m.priority ELSE policy.matrix[impact][band]
           priority == Quieter(asked, place.priority_ceiling)
<1>1. /\ i.env = env /\ i.priority = priority /\ i.team = m.team
      /\ i.pages => place.paging_allowed /\ priority = 1
      /\ i.group_by = Answer(m.group_by, UNION {a.group_by : a \in base})
      /\ i.timeout_h = TimeoutOf(policy, m.hours)
      /\ i.slo_id = m.slo /\ i.runbook = m.runbook /\ i.workflow = m.workflow
  BY DEF CustomInstance
<1>2. /\ m.team \in DOMAIN policy.teams /\ m.runbook \in DOMAIN policy.runbooks
      /\ m.workflow \in DOMAIN policy.workflows
      /\ m.slo \in {s.slo_id : s \in policy.slos}
      /\ m.archetype \in DOMAIN policy.archetypes \cup {"custom"}
      /\ m.envs \subseteq DOMAIN policy.environments
      /\ m.archetype = "custom" => m.impact_class # {}
  BY LintedManifest
<1>3. /\ m.archetype \in DOMAIN policy.archetypes => BaseId(policy, m) \in DOMAIN policy.archetypes
      /\ band \in Bands
  BY ManifestBuilds
<1>4. /\ None \notin DOMAIN policy.teams \cup DOMAIN policy.runbooks \cup DOMAIN policy.workflows
      /\ m.priority \in 0..4 /\ m.impact_class \subseteq DOMAIN policy.matrix
      /\ m.hours \subseteq policy.auto_resolve.min_hours..policy.auto_resolve.max_hours
      /\ place.priority_ceiling \in 1..4
  BY <1>2, PolicyOfCommit DEF RepositoryOK, Manifests
<1>5. /\ \A s \in policy.slos : s.slo_id # <<>>
      /\ env = "dev" => place.priority_ceiling = 4
      /\ place.paging_allowed => env = "prod"
  BY <1>2 DEF PlanOnlyRules
<1>6. impact \in DOMAIN policy.matrix
  <2>1. CASE m.impact_class # {}
    BY <1>4, <2>1, AnswerOf
  <2>2. CASE m.impact_class = {}
    <3>1. BaseId(policy, m) \in DOMAIN policy.archetypes
      BY <1>2, <1>3, <2>2
    <3>2. implied = {policy.archetypes[BaseId(policy, m)].impact_class}
      BY <3>1
    <3>3. impact = policy.archetypes[BaseId(policy, m)].impact_class
      BY <2>2, <3>2, AnswerOf
    <3> QED
      BY <3>1, <3>3, LintedArchetype
  <2> QED
    BY <2>1, <2>2
<1>7. policy.matrix[impact][band] \in 1..4
  BY <1>3, <1>6, PolicyOfCommit DEF RepositoryOK
<1>8. asked \in 1..4
  <2> HIDE DEF policy, impact, band
  <2> QED
    BY <1>4, <1>7
<1>9. env = "dev" => priority = 4
  BY <1>4, <1>5, <1>8, QuieterOf
<1>10. /\ ~(Cardinality(i.group_by) > policy.cardinality.max_group_by_keys)
       /\ i.group_by \cap policy.cardinality.forbidden_group_keys = {}
  <2> DEFINE keys == Answer(m.group_by, UNION {a.group_by : a \in base})
  <2>1. /\ ~(Cardinality(keys) > policy.cardinality.max_group_by_keys)
        /\ keys \cap policy.cardinality.forbidden_group_keys = {}
    BY CustomKeys
  <2>2. i.group_by = keys
    BY <1>1
  <2> HIDE DEF i, keys, policy
  <2> QED
    BY <2>1, <2>2
<1>11. i.timeout_h \in policy.auto_resolve.min_hours..policy.auto_resolve.max_hours
  BY <1>1, <1>4, TimeoutInRange
<1> HIDE DEF i, policy, priority, place
<1>12. None \notin {i.runbook, i.workflow, i.team} /\ i.slo_id # <<>>
  BY <1>1, <1>2, <1>4, <1>5
<1>13. ~(i.env = "dev" /\ i.priority # 4) /\ (i.pages => i.env = "prod" /\ i.priority = 1)
  BY <1>1, <1>5, <1>9
<1>14. i.priority = 1 => ~(i.priority > 2)
  OBVIOUS
<1>15. ~InstanceRefused(policy, i)
  BY <1>10, <1>11, <1>12, <1>13, <1>14 DEF InstanceRefused
<1> QED
  BY <1>15 DEF i, policy

LEMMA CustomPlanAccepted ==
  ASSUME PlanOnlyRules, NEW commit \in Commits, Accepted(commit)
  PROVE  ~CustomPlanFails(Policy(commit), Docs(commit), Manifests(commit))
<1> DEFINE policy == Policy(commit)
           docs == Docs(commit)
           Envs(m) == {e \in m.envs : policy.environments[e].alerting}
           Of(m, env) == CustomInstance(policy, docs, m, env)
           built == {x \in Manifests(commit) : ~Unbuildable(policy, docs, x)}
<1>1. \A m \in Manifests(commit) : ~Unbuildable(policy, docs, m)
  BY ManifestBuilds
<1>2. ASSUME NEW i \in CustomInstances(policy, docs, Manifests(commit))
      PROVE  ~InstanceRefused(policy, i)
  <2>1. CustomInstances(policy, docs, Manifests(commit))
          = UNION {{Of(m, env) : env \in Envs(m)} : m \in built}
    BY DEF CustomInstances
  <2> HIDE DEF Of, built, Envs
  <2>2. PICK m \in built : i \in {Of(m, env) : env \in Envs(m)}
    BY <2>1, Zenon
  <2>3. PICK env \in Envs(m) : i = Of(m, env)
    BY <2>2, Zenon
  <2> USE DEF Of, built, Envs
  <2>4. m \in Manifests(commit) /\ env \in m.envs
    OBVIOUS
  <2> QED
    BY <2>3, <2>4, CustomAccepted
<1> QED
  BY <1>1, <1>2 DEF CustomPlanFails

-------------------------------------------------------------------------------
(* What was validated can be deployed.                                     *)

\* An emitted kind has a Datadog kind, and the lint knows it.
LEMMA CatalogAccepted ==
  ASSUME NEW commit \in Commits, Accepted(commit)
  PROVE  ~CatalogRefused(Policy(commit), Repository[commit].entities)
<1> DEFINE policy == Policy(commit)
           entities == Repository[commit].entities
<1> SUFFICES ASSUME NEW d \in Catalog(policy, entities)
             PROVE  d.kind \in policy.datadog_entity_kinds
  BY DEF CatalogRefused
<1>1. PICK e \in entities : KindSpec(policy, e).emits /\ d = CatalogDocument(policy, entities, e)
  BY DEF Catalog
<1>2. /\ e.kind \in DOMAIN policy.entity_kinds /\ EntityKindOf(policy, e) = e.kind
      /\ PolicyOfEntity(policy, e) = KindSpec(policy, e)
  BY LintedEntity
<1>3. KindSpec(policy, e).datadog_kind # None
  BY <1>1, <1>2, RepositoryAssumption, PolicyOfCommit DEF KindSpec
<1>4. ValidateEntity(policy, entities, e) = {}
  <2>1. EntityErrors(Repository[commit]) = {}
    BY LintedRules
  <2> QED
    BY <2>1, PolicyOfCommit DEF EntityErrors
<1>5. DatadogKind(policy, e) \in policy.datadog_entity_kinds \cup {None}
  BY <1>2, <1>4 DEF ValidateEntity
<1>6. d.kind = KindSpec(policy, e).datadog_kind
  BY <1>1 DEF CatalogDocument
<1> QED
  BY <1>2, <1>3, <1>5, <1>6 DEF DatadogKind

\* A commit that passed Validate fails neither at one of the two plans nor at
\* the scorecard after the apply, whatever was merged with it.
THEOREM ValidatedIsDeployableHolds ==
  ASSUME ChainsAlign, PlanOnlyRules
  PROVE  Spec => []ValidatedIsDeployable
<1>1. ASSUME NEW commit \in Commits, Accepted(commit)
      PROVE  ~CatalogFails[commit] /\ ~PlanFailsFor[commit] /\ FleetScored[commit]
  <2>1. CatalogFails
          = [x \in Commits |-> CatalogRefused(Policy(x), Repository[x].entities)]
    BY TableIsFunction, Zenon DEF CatalogFails
  <2>2. PlanFailsFor
          = [x \in Commits |-> \/ PlanFails(Policy(x), Docs(x))
                               \/ CustomPlanFails(Policy(x), Docs(x), Manifests(x))]
    BY TableIsFunction, Zenon DEF PlanFailsFor
  <2>3. FleetScored = [x \in Commits |-> FleetPasses(Scores[x])]
    BY TableIsFunction, Zenon DEF FleetScored
  <2>4. FleetPasses(Scores[commit])
    BY <1>1, AcceptedPasses DEF SuiteAccepts
  <2>5. ~CatalogFails[commit]
    BY <1>1, <2>1, CatalogAccepted, Zenon
  <2>6. ~PlanFailsFor[commit]
    BY <1>1, <2>2, PlanAccepted, CustomPlanAccepted, Zenon
  <2> QED
    BY <2>3, <2>4, <2>5, <2>6, Zenon
<1>2. TypeOK /\ LiveInv => ValidatedIsDeployable
  BY <1>1 DEF TypeOK, LiveInv, ValidatedIsDeployable
<1> QED
  BY <1>2, TypeCorrect, LiveAccepted, PTL

===============================================================================
