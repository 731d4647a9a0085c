------------------------------- MODULE Estate -------------------------------
(***************************************************************************)
(* The policy repository over time: pull requests linted on the main they  *)
(* were checked against, pipeline runs that validate a commit, wait for an *)
(* approval, apply it and gate on the estate, and the scheduled governance *)
(* run that joins a commit, an inventory and the live organisation.  The   *)
(* two runs share no lock: the pipeline is Azure's, the schedule GitHub's. *)
(*                                                                         *)
(* A commit is the set of pull requests merged into it.  What a commit     *)
(* lints to, builds and assigns is a function of it, computed once.        *)
(***************************************************************************)
EXTENDS SelfService, CoverageReport, CatalogStack

CONSTANTS
    Changes,        \* the pull requests
    Repository,     \* [commit -> [policy, legacy, entities, manifests]]
    Inventories,    \* what discovery may find: sets of resources
    MaxDay,         \* bound on the days that pass
    MaxHands,       \* bound on what people do by hand in Datadog or to a tag
    Fragile         \* bound: the archetypes and slo_ids that they touch there

Commits == SUBSET Changes
Days == 0..MaxDay

ASSUME EstateAssumption ==
    /\ IsFiniteSet(Changes)
    /\ DOMAIN Repository = Commits
    /\ \A found \in Inventories : IsFiniteSet(found)
    /\ MaxDay \in Nat /\ MaxHands \in Nat

VARIABLES
    pr,             \* pr[c]: a pull request is open, green or merged
    day,
    deploy,         \* the pipeline run and the commit it is for
    governance,     \* the governance run: its commit and its inventory
    live,           \* what Datadog holds
    inventory,      \* what discovery finds today
    verdict,        \* how the last governance run ended
    hands           \* hand-made changes so far

vars == <<pr, day, deploy, governance, live, inventory, verdict, hands>>

Main == {c \in Changes : pr[c] = "merged"}

-----------------------------------------------------------------------------
(* Functions of a commit. *)

\* The same function, which TLC computes once instead of at every application.
Table(f) == CHOOSE g \in {f} : g = f

Policies == Table([commit \in Commits |-> Repository[commit].policy])
Policy(commit) == Policies[commit]
Services(commit) == LoadServices(Repository[commit].legacy, Repository[commit].entities)
Docs(commit) == ServiceDocs(Repository[commit].legacy, Repository[commit].entities)

Manifests(commit) == Repository[commit].manifests

Scores ==
    Table([commit \in Commits |->
        ScoreRows(Policy(commit))
            \cup CustomRows(Policy(commit), Services(commit), Manifests(commit))])

\* The days on which the lint and the test suite accept it.
SuitePasses ==
    Table([commit \in Commits |->
        {d \in Days :
            /\ Lint(Repository[commit], d) = {}
            /\ SuiteAccepts(Policy(commit), Scores[commit])
            /\ \A m \in Manifests(commit) :
                   ManifestErrors(Policy(commit), Services(commit), m) = {}}])

Accepted(commit) == SuitePasses[commit] # {}

CatalogFails ==
    Table([commit \in Commits |-> CatalogRefused(Policy(commit), Repository[commit].entities)])

PlanFailsFor ==
    Table([commit \in Commits |->
        \/ PlanFails(Policy(commit), Docs(commit))
        \/ CustomPlanFails(Policy(commit), Docs(commit), Manifests(commit))])

FleetScored == Table([commit \in Commits |-> FleetPasses(Scores[commit])])

KindsScored ==
    Table([commit \in Commits |-> MinimumsMet(Policy(commit), Scores[commit])])

\* What any commit builds, in some order: Datadog's ids.
InSomeOrder(S) == FoldSet(LAMBDA x, seq : Append(seq, x), <<>>, S)
IdOf(key, seq) == CHOOSE n \in DOMAIN seq : seq[n] = key

InstancesOf ==
    Table([commit \in Commits |->
        Instances(Policy(commit), Docs(commit))
            \cup CustomInstances(Policy(commit), Docs(commit), Manifests(commit))])

\* Of these the packs' own, without a team's.
PackInstances == Table([commit \in Commits |-> ArchetypeInstances(Policy(commit))])

AllKeys == InSomeOrder(UNION {{i.key : i \in InstancesOf[commit]} : commit \in Commits})

MonitorOf(policy, i) ==
    [id |-> IdOf(i.key, AllKeys), tags |-> MonitorTags(policy, i),
     query |-> [text |-> i.text, keys |-> i.group_by],
     message |-> {"next"}, timeout_h |-> i.timeout_h]

Monitors ==
    Table([commit \in Commits |-> {MonitorOf(Policy(commit), i) : i \in InstancesOf[commit]}])

BuiltSlos(commit) ==
    {[slo_id |-> s.slo_id, service |-> s.service, team |-> s.team,
      members |-> IF s.type = "monitor" /\ MemberInstances(Policy(commit), s) = {}
                  THEN "empty" ELSE "some"] :
        s \in Policy(commit).slos \cup SvcObjectives(Policy(commit), Docs(commit))}

AllSlos == InSomeOrder(UNION {{s.slo_id : s \in BuiltSlos(commit)} : commit \in Commits})

Slos ==
    Table([commit \in Commits |->
        {[id |-> IdOf(s.slo_id, AllSlos), slo_id |-> s.slo_id, service |-> s.service,
          service_tags |-> {s.service}, team |-> s.team, owner |-> s.team, env |-> "prod",
          status |-> "ok", members |-> s.members] : s \in BuiltSlos(commit)}])

\* profile_engine.py in a pipeline: no telemetry survey is given.
Assignments ==
    Table([commit \in Commits |->
        [found \in Inventories |-> Assign(Policy(commit), Services(commit), {}, found)]])

Resolved ==
    Table([commit \in Commits |-> ResolvedSlos(Policy(commit), Services(commit), "prod")])

ClickOps == [id |-> 0, tags |-> <<>>, query |-> [text |-> <<>>, keys |-> {}],
             message |-> {}, timeout_h |-> 0]

\* What people may touch by hand.
Watched(commit) == {m \in Monitors[commit] : <<m.tags.archetype>> \in Fragile}
Objectives(commit) == {s \in Slos[commit] : s.slo_id \in Fragile}

LiveMonitors ==
    {m \in Monitors[live.commit] : m.id \notin live.gone}
        \cup {m \in {ClickOps} : live.clickops}

LiveSlos ==
    {[s EXCEPT !.status = IF s.id \in live.broken THEN "error" ELSE "ok"] :
        s \in Slos[live.commit]}

\* A report of a checkout and its inventory on what another commit left live.
Findings(commit, found) ==
    RunChecks(Policy(commit), Services(commit), Resolved[commit],
              Assignments[commit][found], LiveMonitors, LiveSlos, day)

-----------------------------------------------------------------------------
(* What the files are, by their schemas and by how they are written.       *)

\* Exceptions are a list and budgets numbers, a name is a word or more and is
\* registered once (it names its file), a reference is a kind and a name, the
\* priorities are the four there are, and "no key" is no key.
RepositoryOK(repo) ==
    LET policy == repo.policy
        exceptions == policy.exceptions
    IN  /\ Len(exceptions) \in Nat /\ DOMAIN exceptions = 1..Len(exceptions)
        /\ \A i \in DOMAIN exceptions : exceptions[i].max \in Nat
        /\ \A x \in repo.legacy \cup repo.entities : x.name \in Seq(STRING)
        /\ \A d, e \in repo.entities : d.name = e.name => d = e
        /\ \A s, t \in repo.legacy : s.name = t.name => s = t
        /\ \A e \in repo.entities : \A ref \in e.dependencies \cup e.components :
               ref = <<ref[1], ref[2]>>
        /\ None \notin DOMAIN policy.entity_kinds \cup DOMAIN policy.service_archetypes
                           \cup DOMAIN policy.teams \cup DOMAIN policy.runbooks
                           \cup DOMAIN policy.workflows
        /\ \A impact \in DOMAIN policy.matrix : \A band \in Bands :
               policy.matrix[impact][band] \in 1..4
        /\ \A env \in DOMAIN policy.environments :
               policy.environments[env].priority_ceiling \in 1..4
        /\ policy.cardinality.max_group_by_keys \in Nat
        /\ policy.composite_budget.members \in Nat
        /\ \A c \in policy.composites : IsFiniteSet(c.members)
        /\ \A m \in repo.manifests :
               /\ m.priority \in 0..4 /\ m.impact_class \subseteq DOMAIN policy.matrix
               /\ m.hours \subseteq policy.auto_resolve.min_hours..policy.auto_resolve.max_hours

\* Main is accepted to begin with, and every kind that reaches the catalog has
\* a Datadog kind (entity_kinds.yaml).
ASSUME RepositoryAssumption ==
    /\ Accepted({})
    /\ \A commit \in Commits :
           LET kinds == Repository[commit].policy.entity_kinds
           IN  /\ RepositoryOK(Repository[commit])
               /\ \A kind \in DOMAIN kinds :
                      kinds[kind].emits => kinds[kind].datadog_kind # None

-----------------------------------------------------------------------------

Idle(phase) == [phase |-> phase, commit |-> {}]

Init ==
    /\ pr = [c \in Changes |-> "open"]
    /\ day = 0
    /\ deploy = Idle("red")
    /\ governance = [phase |-> "idle", commit |-> {}, found |-> {}]
    /\ live = [catalog |-> {}, commit |-> {}, gone |-> {}, clickops |-> FALSE, broken |-> {}]
    /\ inventory \in Inventories
    /\ verdict = "green"
    /\ hands = 0

\* What people delete is live, what they break was built once.
TypeOK ==
    /\ pr \in [Changes -> {"open", "green", "merged"}]
    /\ day \in Days /\ hands \in 0..MaxHands /\ verdict \in {"green", "red"}
    /\ deploy \in [phase : {"red", "validated", "applied", "green"}, commit : Commits]
    /\ governance \in [phase : {"idle", "assigned"}, commit : Commits,
                       found : Inventories \cup {{}}]
    /\ governance.phase = "assigned" => governance.found \in Inventories
    /\ inventory \in Inventories
    /\ live \in [catalog : Commits, commit : Commits, clickops : BOOLEAN,
                 gone : SUBSET {m.id : m \in Monitors[live.commit]},
                 broken : SUBSET UNION {{s.id : s \in Slos[commit]} : commit \in Commits}]
    /\ IsFiniteSet(live.broken)

\* The checks of a pull request run on its merge with the main of the moment.
Check(c) ==
    /\ pr[c] = "open"
    /\ day \in SuitePasses[Main \cup {c}]
    /\ pr' = [pr EXCEPT ![c] = "green"]
    /\ UNCHANGED <<day, deploy, governance, live, inventory, verdict, hands>>

\* They are not run again for what main has become.
Merge(c) ==
    /\ pr[c] = "green"
    /\ pr' = [pr EXCEPT ![c] = "merged"]
    /\ UNCHANGED <<day, deploy, governance, live, inventory, verdict, hands>>

\* The Validate stage: the whole test suite on the commit of the run.
Validate ==
    /\ deploy.phase \in {"red", "green"}
    /\ deploy' = IF day \in SuitePasses[Main]
                 THEN [phase |-> "validated", commit |-> Main] ELSE Idle("red")
    /\ UNCHANGED <<pr, day, governance, live, inventory, verdict, hands>>

\* The approved apply, of the commit that was validated: foundation first, and
\* its catalog stays when the plan of coverage fails.  What people deleted comes
\* back, what they created stays.
Apply ==
    /\ deploy.phase = "validated"
    /\ LET new == deploy.commit
           done == ~CatalogFails[new] /\ ~PlanFailsFor[new]
       IN  /\ deploy' = IF done THEN [deploy EXCEPT !.phase = "applied"] ELSE Idle("red")
           /\ live' = IF done THEN [live EXCEPT !.catalog = new, !.commit = new, !.gone = {}]
                      ELSE [live EXCEPT !.catalog = IF CatalogFails[new] THEN @ ELSE new]
    /\ UNCHANGED <<pr, day, governance, inventory, verdict, hands>>

\* Steps 5 to 7 of the production stage: inventory, assignments, the deploy
\* gate; the scorecard; the reconciliation of every managed monitor.
Gate ==
    /\ deploy.phase = "applied"
    /\ deploy' = Idle(IF /\ DeployPass(Policy(deploy.commit), day,
                                       Findings(deploy.commit, inventory))
                         /\ FleetScored[deploy.commit]
                         /\ ReconciliationPass(Policy(deploy.commit), LiveMonitors)
                      THEN "green" ELSE "red")
    /\ UNCHANGED <<pr, day, governance, live, inventory, verdict, hands>>

\* The scheduled run checks main out, discovers the estate, assigns profiles.
StartGovernance ==
    /\ governance.phase = "idle"
    /\ governance' = [phase |-> "assigned", commit |-> Main, found |-> inventory]
    /\ UNCHANGED <<pr, day, deploy, live, inventory, verdict, hands>>

Ends == governance' = [phase |-> "idle", commit |-> {}, found |-> {}]

\* Only now does it read the live monitors and objectives; the scorecard, with
\* the minimum of each kind, is the job's other gate and reads the checkout.
Report ==
    /\ governance.phase = "assigned"
    /\ verdict' = IF /\ GovernancePass(Policy(governance.commit), day,
                                       Findings(governance.commit, governance.found))
                     /\ FleetScored[governance.commit] /\ KindsScored[governance.commit]
                  THEN "green" ELSE "red"
    /\ Ends
    /\ UNCHANGED <<pr, day, deploy, live, inventory, hands>>

NextDay ==
    /\ day < MaxDay
    /\ day' = day + 1
    /\ UNCHANGED <<pr, deploy, governance, live, inventory, verdict, hands>>

\* By hand: a monitor is deleted or made, an objective's query stops working,
\* a resource comes, goes or is tagged again.
ByHand ==
    /\ hands < MaxHands
    /\ hands' = hands + 1
    /\ \/ /\ \E m \in Watched(live.commit) : live' = [live EXCEPT !.gone = @ \cup {m.id}]
          /\ UNCHANGED inventory
       \/ live' = [live EXCEPT !.clickops = TRUE] /\ UNCHANGED inventory
       \/ /\ \E s \in Objectives(live.commit) :
                live' = [live EXCEPT !.broken = @ \cup {s.id}]
          /\ UNCHANGED inventory
       \/ inventory' \in Inventories /\ UNCHANGED live
    /\ UNCHANGED <<pr, day, deploy, governance, verdict>>

Next ==
    \/ \E c \in Changes : Check(c) \/ Merge(c)
    \/ Validate \/ Apply \/ Gate
    \/ StartGovernance \/ Report
    \/ NextDay \/ ByHand

Spec == Init /\ [][Next]_vars

\* The scheduler starts its run every weekday, days pass, and the run ends:
\* only Report ends one, so this is its fairness, in a form cheap to evaluate.
FairSpec ==
    /\ Spec
    /\ WF_vars(StartGovernance)
    /\ WF_governance(governance.phase = "assigned" /\ Ends)
    /\ WF_vars(NextDay)

-----------------------------------------------------------------------------
(* Properties of what is live. *)

\* A commit that passed Validate fails neither at a plan nor at the scorecard
\* that comes after the apply: not for two objectives of one id, a monitor that
\* pages outside production or an average too low, each of which two pull
\* requests that were both green can make together.
ValidatedIsDeployable ==
    deploy.phase = "validated" =>
        /\ ~CatalogFails[deploy.commit] /\ ~PlanFailsFor[deploy.commit]
        /\ FleetScored[deploy.commit]

Promise(slos) ==
    {<<s.slo_id, s.service, s.team, s.type, s.target, s.burn_alerts>> : s \in slos}

\* Terraform and the resolver, two readings of the same files, agree on every
\* objective of a service that runs in production.
AgreesOn == Table([commit \in Commits |->
    Promise(SvcObjectives(Policy(commit), Docs(commit)))
        = Promise(ResolvedSlos(Policy(commit),
                               {s \in Services(commit) : "prod" \in s.envs}, "prod"))])
BuiltAsResolved == AgreesOn[live.commit]

\* The resolver's document d of e as foundation deploys it.  The two readings
\* differ here: the facet of the objective is the declared profile, or the
\* tier's scope, under the name slo_profile (main.tf:557, 572) where the resolver
\* has slo_scope (241); and a kind without spec_component_of shows no systems it
\* is part of (main.tf:623), where the resolver always does (288).
AsDeployed(policy, e, d) ==
    [d EXCEPT !.tags =
                  {t \in @ : t[1] # "slo_scope"} \cup
                  {<<"slo_profile", Given(e.slo.profile, policy.tiers[e.criticality].slo.scope)>>},
              !.componentOf = IF KindSpec(policy, e).spec_component_of THEN @ ELSE {}]

\* The catalog in Datadog has an entity for each one the reference resolver
\* emits and, with the two exceptions of AsDeployed, says of it what the resolver
\* says: kind, owners, contacts, tier, facets, typed dependencies, members.
CatalogAgrees == Table([commit \in Commits |->
    LET policy == Policy(commit)
        entities == Repository[commit].entities
    IN  Catalog(policy, entities)
            = {AsDeployed(policy, e, EntityDocument(Resolve(policy, entities, e))) :
                   e \in {x \in entities : Emits(policy, x)}}])
CatalogAsResolved == CatalogAgrees[live.catalog]

-----------------------------------------------------------------------------
(* What the proofs of the first two assume of the files, where the lint    *)
(* says nothing; the small repository keeps to it.                         *)

\* The fields of an objective that both readings resolve.
Resolving == {"enabled", "type", "target", "burn_alerts", "member_archetypes"}

\* Where Terraform's chain has no such layer, the layer states nothing: no
\* environment changes an objective, no platform switches one on or names its
\* members, nor a service its members, and a tier that gives a service its own
\* objectives has a target for each.
ChainsAlign ==
    \A commit \in Commits : Accepted(commit) =>
        LET policy == Policy(commit)
            doc == policy.slo_profiles
            States(layer, o, fields) == DOMAIN FieldsAt(layer, o) \cap fields # {}
        IN  /\ doc.opt_in_via_service_yaml /\ EnvironmentGate(policy, "prod")
            /\ DOMAIN doc.defaults \cap Resolving = Resolving \ {"member_archetypes"}
            /\ \A s \in {x \in Services(commit) :
                             "prod" \in x.envs /\ MaterializesPerServiceSlos(policy, x)} :
               \A o \in DOMAIN FieldsAt(doc.by_entity_type, s.service_archetype) :
                   LET domain == policy.service_archetypes[s.service_archetype].domain
                   IN  /\ o \in DOMAIN policy.tiers[s.tier].slo.objectives
                       /\ ~States(EnvironmentLayer(policy, "prod"), o, Resolving)
                       /\ ~States(FieldsAt(doc.by_platform, domain), o,
                                  {"enabled", "member_archetypes"})
                       /\ ~States(s.slo.objectives, o, {"member_archetypes"})

\* The rules that only a plan has (both pipelines run one offline, beside the
\* lint): of windows, owners and composites, of priority exceptions and of what
\* a manifest inherits.
PlanOnlyRules ==
    \A commit \in Commits : Accepted(commit) =>
        LET policy == Policy(commit)
            auto == policy.auto_resolve
            exceptions == {i \in DOMAIN policy.exceptions :
                               policy.exceptions[i].control = "priority"}
            Scope(i) == <<policy.exceptions[i].archetype, policy.exceptions[i].env>>
            OnlyProdPages(envs) ==
                \A env \in envs : policy.environments[env].paging_allowed => env = "prod"
        IN  /\ auto.default_hours \in auto.min_hours..auto.max_hours
            /\ "dev" \in DOMAIN policy.environments => policy.environments["dev"].priority_ceiling = 4
            /\ \A domain \in DOMAIN policy.domains : OwningTeam(policy.domains[domain]) # None
            /\ \A s \in policy.slos : s.slo_id # <<>>
            /\ \A source \in BurnSource(policy, Docs(commit)) : \A w \in source[4] :
                   policy.burn_rate_windows[w] \in DOMAIN policy.matrix
            /\ \A c \in policy.composites :
                   /\ Cardinality(c.members) >= 2 /\ c.impact_class \in DOMAIN policy.matrix
                   /\ OnlyProdPages(c.envs)
                   /\ None \notin {c.runbook, c.workflow} /\ c.slo_id # <<>>
            /\ \A i \in exceptions : policy.exceptions[i].value \in DOMAIN Rank
            /\ \A i, j \in exceptions : Scope(i) = Scope(j) => i = j
            /\ \A aid \in DOMAIN policy.archetypes :
                   policy.archetypes[aid].predictive_variant \in DOMAIN policy.archetypes \cup {None}
            /\ \A m \in Manifests(commit) :
                   /\ OnlyProdPages(m.envs)
                   /\ m.priority \notin {1, 2} =>
                          AlertBand(policy, CustomTier(Docs(commit), m)) \in Bands

-----------------------------------------------------------------------------
(* Properties of the two gates. *)

Reports == governance.phase = "assigned" /\ governance'.phase = "idle"
Gates == deploy.phase = "applied" /\ deploy'.phase # "applied"

\* None of these, or no more than somebody has accepted by the name of their
\* class, or for the whole check, and until today at least.
AcceptedBy(commit, check, class, S) ==
    \/ S = {}
    \/ \E e \in Acceptances(Policy(commit), day) :
          e.check = check /\ e.applies_to \in {class, "all"} /\ Cardinality(S) <= e.max

\* The alertable resources of a report's assignments, each with every
\* mandatory archetype the packs instantiate for its environment and band and
\* that no monitor stands for any more, a team's own included.
Combination(m) == <<m.tags.archetype, m.tags.env, m.tags.alert_band>>
Uncovered(commit, found) ==
    LET stands == {Combination(m) : m \in LiveMonitors \ {ClickOps}}
        missing == {i \in PackInstances[commit] : <<i.archetype, i.env, i.band>> \notin stands}
    IN  {a \in Alertable(Assignments[commit][found]) :
            \E i \in missing :
                /\ i.archetype
                     \in ArchetypesFor(Policy(commit), a.service_archetype, a.platform, TRUE)
                /\ i.env = a.env /\ i.band = a.alert_band}
CoverageAccepted(commit, found) ==
    AcceptedBy(commit, "C1", "all", {a.id : a \in Uncovered(commit, found)})

\* Neither gate is green while more resources it discovered lack a mandatory
\* monitor than are accepted, whoever deleted the monitors and whatever was
\* merged or applied since the governance run's checkout.
GreenIsCovered ==
    [][/\ Reports /\ verdict' = "green" => CoverageAccepted(governance.commit, governance.found)
       /\ Gates /\ deploy'.phase = "green" => CoverageAccepted(deploy.commit, inventory)]_vars

\* No governance run is green while exceptions that have run out, and whose
\* lapse nobody accepts, keep resources silent: the assignment itself does not
\* look at the date.
Silencers(commit, found) ==
    UNION {ExceptionOf(Policy(commit), a.service, a.env) :
        a \in {x \in Assignments[commit][found] : x.observe_only_reason = "exception"}}
SilencedOnPurpose ==
    [][Reports /\ verdict' = "green" =>
        AcceptedBy(governance.commit, "C12", "all",
                   {e.id : e \in {x \in Silencers(governance.commit, governance.found) :
                                     x.expires < day}})]_vars

\* An accepted finding never pays for another: objectives in error turn the
\* run red although a declared dependency of the same check is accepted.
LiveErrorIsRed ==
    [][Reports /\ ~AcceptedBy(governance.commit, "C13", "live_slo_error",
                              {s.id : s \in {x \in LiveSlos : x.status = "error"}})
        => verdict' = "red"]_vars

Lapsed == \E i \in DOMAIN Policy(Main).exceptions : Policy(Main).exceptions[i].expires < day

\* An exception that is left to run out turns the governance run red.
ExpiryIsReported == Lapsed ~> (verdict = "red")

=============================================================================
