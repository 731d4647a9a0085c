# TLA+ models of enterprise-observability

The repository is a Datadog "monitoring as code" platform: YAML policy and Terraform describe
monitors, SLOs, teams and routing; CI/CD pipelines promote one version of those definitions through
the environments; gates and a scheduled loop compare policy, inventory and what is live; runbooks are
published as notebooks; an MCP server answers questions and opens pull requests; a portal shows the
result. These modules model the parts of it that keep state, run concurrently or can fail half way,
and the policy algorithms whose results those parts act on. TLC checks them on small instances, and
TLAPS proves the most important results for all.

Run a model with `tlc -config <run>.cfg <module>.tla`, check a proof with `tlapm <module>.tla`.
`PROJECT.json` lists every run, the source lines behind every definition, the hazards, the
findings and the theorems. The definitions map about 32 % of the Python implementation, besides the
shell script, the workflows, the Terraform and the portal's router.

## 1. The system

| Component | State it keeps | Operations | What makes it correct |
|---|---|---|---|
| Git-backed Terraform state, `tools/tfstate-git.sh` | the `tfstate` branch: one file per stack and environment; per runner a local `terraform.tfstate` | `restore`, `persist` with a five-round push loop | no pushed commit is lost, no environment rewrites another's file, exit 0 is durable |
| Promotion, `.github/workflows/deploy.yml`, `azure-pipelines.yml`, `.azuredevops/templates/` | queue of runs, locks, the live resources, `markers` in Datadog | nonprod on every push, production on request and approval; per file restore, plan, apply, persist; idempotency gate; marker | order of environments, no orphaned or duplicated resources, truthful markers |
| Governance, `.github/workflows/governance.yml` | none of its own; shares the concurrency group | nightly `plan -detailed-exitcode`; discovery, assignment, coverage report, scorecard | an alarm means something, and a green run too |
| Policy resolution, `obs_common.py`, `entity_resolver.py`, `slo_resolver.py`, `applicability.py`, `profile_engine.py` | none: functions of the YAML files | registries, precedence of profiles, priorities, expansion, objectives, catalog documents | one answer per question, the same in Python and in Terraform |
| CI gate, `validate_policy.py`, `validate_monitors.py`, `monitor_scorecard.py` | none | lint, manifest validation, score | what passes can be deployed, whatever it is merged with |
| Terraform stacks, `stacks/coverage`, `stacks/foundation`, `modules/` | the resources in Datadog | expand archetypes, objectives and manifests; write the catalog | builds what the resolvers answer |
| Reports, `coverage_report.py`, `reconciliation_report.py` | none | join assignments, policy and live estate into findings C1 to C18; two gates | a gap is not hidden by another, by an acceptance or by a date |
| Runbook publisher, `tools/publish_runbooks.py` | notebooks in Datadog, the id registry | adopt by name, update, create; write the registry | one notebook per runbook, also after a crash |
| Catalog reconciler, `tools/catalog_reconcile.py` | live services and notebooks | compare, delete what is unmanaged below a cap | never deletes what is managed, a green end means done |
| Event correlation, `tools/correlate_events.py` | a pure function of the events and `platform/events/correlation-rules.yaml` | deduplicate, group, rank, absorb, uplift, decide | every alert is in exactly one incident; no severity is lost |
| MCP server, `mcp/` | per process: rate windows, plan ledger; per clone: branches, worktrees; the audit log | `obs.plan`, `obs.propose_change`, some twenty tools that only read or generate | only planned, granted and approved content is committed; every call is traced; scratch space is released |
| Portal, `portal/app/`, `portal/static/` | a TTL cache of live reads, parse caches; in the browser an address, a rendered address and a page | request threads read ten sources, views join and roll up, the router navigates and refreshes | data age is honest; `unknown` never becomes `ok`; what is on screen is what the address says |
| Agent lifecycle, `configuration-management/datadog-agent/ninjaone/` | the agent's version and configuration, NinjaOne fields | discover, install, upgrade or roll back, configure, validate | status fields say what happened, also after a failure |
| OTel collector deployment, `deploy/otel-collector/` | Azure resources | preflight, deploy, idempotency gate, smoke test | gates in order, second deploy changes nothing |

How they meet:

- The two pipelines and the nightly job call `tfstate-git.sh` and so share one branch. GitHub runs of
  `deploy.yml` and `governance.yml` also share the concurrency group `tfstate`; Azure stages take an
  exclusive lock per environment instead.
- `terraform apply` writes to Datadog and to the runner's disk; only `persist` makes that durable. A
  runner that is lost in between takes the record with it.
- The policy files have two readers. The Python tools lint and resolve them before a merge and report on
  them afterwards; Terraform expands the same files on its own. Nothing but agreement ties the two.
- A pull request's checks see the main of their moment, a pipeline run the commit it validated, a governance
  run its checkout, its inventory and, later, the live estate: four moments joined in one verdict.
- The MCP server never writes to Datadog: its only writes are branches in the caller's clone and pull
  requests, which come back to the promotion as merges to `main`.
- The publisher runs inside the production job and pushes the registry back to the repository;
  the reconciler reads a checkout and deletes in the organisation.
- The portal reads Datadog, the files under `generated/` and the policy, and calls the correlation for its
  incident pages.

What is hard in it: pushes of several jobs racing on one branch, pushes whose answer is lost, restores
that cannot tell "no file" from "no network", applies that stop half way, runs that wait for a lock or
for a person while `main` moves on, changes that are each valid and together are not, exceptions that run out
between a check and an apply, reports that join an old checkout with new monitors, creates that are done
and answered with an error, two servers running git in one directory, calls killed between two git
commands, caches and answers that arrive out of order. The list in `PROJECT.json` ("hazards") gives each one
at its line, with the properties that cover it or the reason why none does.

## 2. Modules

| Module | Models | Used by |
|---|---|---|
| `StateStore` | what the jobs rely on: per file an atomic register with open, load, compute, save | `TfStateGit` (refinement) |
| `TfStateGit` | `tools/tfstate-git.sh` command by command, and the job around it | `MCTfStateGit`, `TfStateGitProofs` |
| `TfStateGitProofs` | theorems about `TfStateGit` for all constants | |
| `Promotion` | both pipelines and the drift job, over an abstract store and estate | `MCPromotion`, `PromotionProofs` |
| `McpServer` | dispatch, limiter, ledger, gates, git worktree proposals | `MCMcpServer`, `McpServerProofs` |
| `Correlation` | `correlate()` of `tools/correlate_events.py` | `MCCorrelation`, `CorrelationProofs` |
| `RunbookPublish` | publisher, its registry, `dd_request`, the catalog reconciler, people | run as it is, `RunbookPublishProofs` |
| `PolicyCore` | `obs_common.py`: registries, priorities, expansion, exceptions | all that follow, up to `Estate` |
| `EntityCatalog` | `entity_resolver.py`: kinds, references, the documents of the catalog | `PolicyLint`, `CatalogStack` |
| `SloResolver` | `slo_resolver.py`: the layers of an objective, its lint | `CoverageStack`, `CoverageReport`, `PolicyLint` |
| `ProfileEngine` | `applicability.py`, `profile_engine.py`: what a resource is assigned | `CoverageReport` |
| `PolicyLint`, `Scorecard` | `validate_policy.py`, `monitor_scorecard.py` | `SelfService`, `Estate` |
| `CoverageReport` | `coverage_report.py`, `reconciliation_report.py`: findings and gates | `Estate` |
| `CoverageStack`, `CatalogStack` | the HCL of `stacks/coverage` and of `stacks/foundation` | `SelfService`, `Estate` |
| `SelfService` | a team's manifest: `validate_monitors.py`, its score, `locals_custom.tf` | `Estate` |
| `Estate` | the repository, the pipeline, the governance run and the organisation over time, on the functions above | `MCEstate`, `EstateProofs`, `EstateDeployProofs` |
| `PortalView` | the views of `portal/app/`: parsing, joins, roll-ups, drilldowns | `Portal` |
| `Portal` | request threads, the two caches, outages, the browser's router | `MCPortal`, `PortalProofs` |
| `PromotionProofs`, `McpServerProofs`, `CorrelationProofs`, `RunbookPublishProofs`, `PortalProofs`, `EstateProofs` | theorems about these six for all constants (section 5) | |
| `EstateDeployProofs` | more theorems about `Estate`: what was validated deploys, and what is built is what was resolved | |

`MC*` modules only give names to the values a `.cfg` cannot write. `PolicyCore` to `SelfService` have no
variables: they are the policy algorithms as functions, and `Estate` is where they meet.

### TfStateGit

A *writer* is a job that deploys; `Begin` takes the lock `LockOf[w][f]` for its file. `branch` is the
sequence of commits of the remote branch, each with the whole tree (`Trees`), the file it is about, the
version its job had restored (`from`) and whether that restore was blind. `pc` follows the script:
`Restore` (44-57), `Apply` in the workflow, `Fetch`/`FetchFails` (61-79, with the exit 0 of line 66 as
`Unchanged`), the push as `PushSucceeds`, `PushLands` (it landed, the answer did not arrive),
`PushRejected`, `PushLost`, and `Retry` for the loop's counter. Each action ends with the runner's
disk disposed of where the job ends (`Dispose`); `Crash` can come at any step. Backoff delays are
left out, as nothing is decided by time.

### Promotion

A *run* is a workflow or pipeline run. `Push`, `Dispatch` and `Nightly` create one, with GitHub's rule
that a group keeps one pending run (`Enqueue`); `Dequeue`, `BeginNonprod`, `BeginProduction`,
`BeginDrift` take the lock; `Approve` and `Reject` are the environment's reviewer. Per state file the run
goes through `Restore`, `Plan`, `Create`/`Destroy` one resource at a time, `ApplyEnds` (green or
red), `Persist` or one of its failing forms, and `NextFile`; then `Verify` (idempotency gate) and
`EmitMarker`. `live[f]` is what exists in Datadog, `store[f]` what the branch tracks, `local[r][f]`
what the runner has. A resource is an address and a copy number, so that a second resource for the
same address is visible. The branch is abstract here: one register per file, which is what
`ImplementsStore` shows of the script. Faults (a blind restore, a failed persist, a lost runner, a red
apply, a failing step, an edit by hand) are enabled by `Faults`. Those that part a file from its state
(a blind restore, a persist that did not land, a runner lost after apply began, an edit) use up one of
`MaxAccidents` and mark the file, so that a property can say "outside an accident". Steps of the jobs
that only check (tests, plans as artifacts, publishing, summaries) are one action, `StepFails`.

### McpServer

A *session* is a server process; `pc` is the step of the call it handles, as `Server.serve` takes one
message at a time. `Dispatch` is the common front of every modelled call: capability, then
limiter. `Plan` writes the ledger; `ProposeNothing` is a proposal that a gate refuses or a dry run
(with its one effect, an expired token is dropped); `Propose` passes every gate and continues through the
git commands: `Clear`, `RemoveEntry`, `RemoveDir`, `ClearFails` (rmtree entry by entry), `AddWorktree` or
`Collide`, `ApplyFiles`, `GitAdd`, `Status`, `Commit`, `Push`, `OpenPullRequest`, and `Remove`, the
`finally`. A directory has its files, its index and its `.git` link as separate parts, because rmtree by
another session can take one and leave the other; what git then does in it was tried with git itself.
`Restart` is the client replacing its server, `Merge` the review of a pull request. `End` is dispatch's own
`finally`, and `WriteRecord` in it is `AuditLog.write`: a line in the file, or, when the file cannot be written, a
record that only the process remembers (`unsaved`) and that is gone (`lost`) when it is killed; write's result is
dropped, so nothing else differs. The variables from `kills` on are history: no guard but a bound reads them. Contents are
model values; a plan token is the change it was given for, since the token is its hash.

### Correlation

`correlate()` is one call over a list; the model takes it apart into the steps between which something can
go wrong. Each event is a step (`Keep`, `Drop`, `Recover`, `Change`) in the order of times the code sorts
them into, so that a behaviour is an input; then come the passes, `SelectParents`, `AbsorbScheduler`,
`AbsorbVendor`, `AbsorbTopology`, `ScopeUplift`, `Decide`. `groups` is the dict in insertion order, a
name being the key and, after the first window, the second of the alert; `replaced` remembers the
alerts of a group that a later one of the same name overwrote. An incident keeps the place of its group in
the dict, by which adopted and standing incidents are told apart. Attributes of a monitor are functions; the
domains and archetypes of the rules are the six sets of parents and children, instantiated as the
catalogue has them (Control-M is in domain `integration`, so it is a symptom of vendors and databases too).
`max_group_size` of the rules file is read nowhere in the code and so not in the model.

### RunbookPublish

A *publisher* is a deploy's `--write-registry` run or the nightly `--check`; it works from a checkout, `from`, and
lists the organisation once (`Start`, `List`). Per source `Examine` decides between nothing, a PUT and a POST, which
are requests of their own: `Put`, `PutGone` (the 404), `Post`, and the failing forms `PostLost` (done, answered with a
5xx, repeated by `dd_request`) and `WriteRefused`. `Record` is the registry written and pushed unless `main` has
moved, `Exit` a check's status. The reconciler reads its checkout (`RecStart`), lists (`RecList`, with the cap), and
deletes one request at a time (`Delete`, `DeleteFailed`) up to `RecExit`. `Proceed` is all that a job does once it has
started. People commit runbooks and touch notebooks (`Commit`, `HandWrite`, `HandEdit`, `HandRemove`). `extra` is
history: the copies that a lost answer, an overtaken listing or a person explains.

### The policy modules

One operator per function or rule of the source, under the source's name where there is one: `PolicyCore`
has `ResolvePriority`, `LoadServices` and the exceptions, `SloResolver` the merge of the layers default,
entity type, platform, tier, profile and service, `ProfileEngine` the numbered steps of the assignment,
`CoverageReport` the checks C1 to C18 as sets of findings with their budgets, `PolicyLint` one operator per
group of rules. A policy is one record; an absent key is `None`; names are sequences of words because ids are
made by joining them and can coincide. `CoverageStack` and `CatalogStack` are translated from the HCL alone,
`try()` chains and all, so that their agreement with `SloResolver` and `EntityCatalog` is a result. Whatever
makes `terraform plan` fail on its own (two instances of one key, a priority outside its validation) is an
operator (`PlanFails`, `CustomPlanFails`, `CatalogRefused`).

### Estate

A commit is the set of pull requests merged so far, and `Repository` gives each one's files. `Check` and
`Merge` are a pull request's life; `Validate`, `Apply` and `Gate` the production pipeline, with the catalog
landing before coverage and staying when coverage fails; `StartGovernance` and `Report` the scheduled run,
whose checkout and inventory are taken in the first and whose look at Datadog in the second; `NextDay` and
`ByHand` the world. `live` says which commit the catalog and the coverage are of, which monitors are
gone, whether one exists that nobody declared and which objectives are broken. The two gates are different in
the code, and in the model: `Gate` leaves out the estate's checks and the minimum of each kind, `Report` has
all of them. What a commit lints to, builds and assigns is a function of it; `Table` is the identity and makes
TLC compute such a function once.

Two assumptions say what a repository is. `RepositoryOK` is what the schemas and the way the files are written give:
exceptions are a list, budgets and limits are numbers, priorities and ceilings are the four there are, a name
is registered once (`load_entities` keys by it, and the lint ties it to the file's name), a reference is a kind and a
name, `None` is no key, and a manifest's numbers are in the schema's ranges. `RepositoryAssumption`: the suite passed
on the main at the start on some day (`Accepted`), and every kind that is emitted has a Datadog kind (as in
`entity_kinds.yaml`).

The catalog has two readings that are meant to be one: `entity_resolver.py` is the reference, `CatalogStack` the HCL
that is deployed. They differ in two fields, which `AsDeployed` writes down as the HCL has them: the facet of
the objective (`slo_profile`, the declared profile or the tier's scope, for `slo_scope`, the derived one) and the
systems of a kind without `spec_component_of`. `CatalogAsResolved` is the equation of the two, document by document and
field by field, with these two exceptions and no other.

Two more are hypotheses of two theorems only, and `MCEstate` assumes them of its instance. `ChainsAlign`: where
Terraform's `try()` chain lacks a layer that the resolver has, the layer states nothing. `PlanOnlyRules`: the
preconditions of a plan that neither lint nor suite has. Both were compared with the policy files of the repository,
where they hold today. Both ask this only of the commits the suite accepts.

The Validate stages also run an offline plan of both stacks (`azure-pipelines.yml:215-299`, `ci.yml:142-152`).
`Check` and `Validate` leave it out on purpose: with it, that a validated commit's plan does not fail would hold by
definition, and without it `ValidatedIsDeployable` says what lint and suite are worth alone. The conditions in
`PlanOnlyRules` are then exactly what the offline plan adds.

### PortalView and Portal

`PortalView` answers each route from a registry `reg` of what the request has read: state and version per
source. Measures carry `known`, so that "zero" and "not seen" differ as they do in `sources.py`. `Portal` runs
it: a request has the set of sources its view has yet to read, as places in the order the code reads them in.
A thread has its own registry, waits in a fetch or while a report is parsed, and otherwise runs to the
next wait undisturbed; the reads between two waits are one step (`Together`), which is sound because
nothing else moves in between. `StartFetch`/`EndFetch` and `StartParse`/`Load`/`Store` are the two caches;
`Navigate`, to another view or again to the same one as a refresh does, and `Arrive` are the router with its
token; `Call` asks for one of the two lists, for which the router has no page, so that the tab takes no note of the
answer; `EstateChanges`, `BeginRewrite`, `EndRewrite`, `Outage` and `Recover` are the world. `Correlate` and
`Correlates` are parameters of `PortalView`: what the correlation answers, and whether it ends without an exception; when
it does not, `correlation()` has no groups and the panels built on them are unknown (`view.py:146-149`). `MCPortal` gives
the first stage of the correlation, and its recordings hold events on which it raises.

## 3. Runs

| Run | Question | Bounds | Distinct states |
|---|---|---|---|
| `TfStateGit_store` | Is the branch a safe store under races and faults? | 2 jobs, 2 files, 2 versions, 3 rounds of the loop | 82 356 |
| `Promotion_azure` | Do red applies, lost answers and dead runners leave the estate tracked, ordered, and marked truthfully? | 3 runs, 2 versions, stage then foundation and prod, 2 addresses, 1 accident of any kind | 611 678 |
| `Promotion_github` | Does the one concurrency group keep versions in order and alarms honest, and who can lose a merge? | 3 runs of which 1 nightly, 3 versions, red applies, edits and blind restores | 212 033 |
| `McpServer_gates` | Does only gated content reach a branch, within the budget? | 1 session, 3 changes of which one is for an environment the caller lacks, 3 ticks, windows of 2 ticks and 2 calls, TTL 1, 2 proposals, 1 kill | 1 568 753 |
| `McpServer_shared` | Do two servers on one clone disturb each other's results? | 2 sessions, 1 subject, 1 day, 2 proposals, 1 kill, 1 line the file does not take | 1 364 678 |
| `Correlation_replay` | Does correlation account for every alert, cause and severity? | 6 monitors, 4 events, 3 times | 327 390 |
| `Correlation_closed` | Does a group stay open while a child is alerting? (finding) | the same, 3 events, 4 times | |
| `RunbookPublish_cycle` | Do crashes, repeated creates and reconcilers leave one notebook per runbook? | 2 runbooks, a deploy, a check, a reconciler that deletes up to 2, 2 attempts per request, 1 change by a person, 2 faults | 293 366 |
| `RunbookPublish_newest` | Is the reconciler safe at any point of the cycle? (finding) | 1 runbook that is registered later, 1 commit | |
| `Estate_gates` | Is what was validated deployable, is what is live what was resolved, and is a green gate right? | 4 pull requests, 2 inventories, 2 days, 1 act by hand | 264 744 |
| `Portal_reads` | Are pages current, honest about age and outages, and consistent with their drilldowns? | 2 threads, 4 journeys of up to 3 views, 3 ticks, TTL 1, fetches of up to 1, 1 change, 3 modes | 427 807 |
| `Portal_headline` | Is a running P1 always stated? (finding) | the overview alone, one source that may be out | |

Why the bounds are enough to be interesting. Two jobs and two files are the least with which a push about
one file races a push about another; a third round is the least that is reached after two lost ones, and
the number of rounds, jobs and files is unbounded in the proofs anyway. Three runs are the least with one
running, one pending and one that replaces it; two addresses give an apply a half-way point. In
`McpServer_gates` the clock passes the end of a window, the life of a token and midnight; the limit of two
is the least for which a fixed window lets more through than its limit in one window's length. Its principal is
granted one of the two environments of the third change, so that the grant is tested and not only looked up. In
`McpServer_shared` time stands still, as nothing that happens between sessions depends on it.
`Correlation_replay` has the least number of events for a replaced group (three), with one more for a
recovery, a change or a second cause; three times are inside, at and beyond the short window.
In `RunbookPublish_cycle` two faults let a run die after a lost answer, and two runbooks let one be
published and the other not, or be the two targets of one reconciler, of which the first fails and the second does
not. In `Estate_gates` each pull request passes alone, and of their pairs
{`qa-pages`, `qa-critical`} is rejected by the lint's paging rule, {`qa-critical`, `latency`} by its duplicate
ids, {`qa-pages`, `latency`} by the fleet's average only and {`latency`, `retired`} by the manifest validation
only, so that each part of the suite is needed for `ValidatedIsDeployable`; an accepted finding, an
expired exception, a regulated second registration and a resource under a wrong environment are in its
data. In `Portal_reads` the three ticks pass the end of the TTL while a fetch is under way, and the journeys
leave a view and come back to it. `CHECK_DEADLOCK FALSE` where runs, proposals or the clock are used
up and the model rightly stops.

What the properties say, beyond their comments:

- `Separation`, `NoLostUpdate`, `HistoryKept`, `SuccessIsDurable` are the promises of the script's
  header, over the whole history of the branch. `RetriesAreExplained` bounds the loop: a round is
  only lost to a commit that landed or to a fault.
- `OrphansAreAccidents` and `Promotion`'s `DuplicatesAreAccidents` hold in spite of red applies, failed
  persists that did land, edits and overlapping runs: the order apply, persist, then honour the exit code
  matters (mutant `HonourFirst`). `MarkerTruthful` needs the idempotency gate, the persist's exit
  code and the order of stages together. `OnlyNightlyLosesAMerge` names the only way a merge is not promoted.
- `GatedCommit` relates a commit to the plan, the grant and the approver behind it through all steps in between: the
  content has a plan, made before the call and no longer than TTL before it. It rests on a branch name being taken
  once (`git worktree add -b`), which `BranchesAreFinal` states for two sessions. `TracedCommit` says what accounts
  for the call behind a commit: a line in the file, a record the file did not take, the call still running, or a kill;
  only the first leaves a trace (see the observations). `ScratchReleased` allows two exceptions which the code has: a
  killed call, and a directory another call found in its way (rmtree takes the `.git` file, and `git worktree remove`
  then refuses).
- `AlertsConserved` and `SymptomsAdopted` speak of the three passes together: the second looks at the final
  list, in which causes may have been adopted themselves.
- `RunbookPublish`'s `DuplicatesAreAccidents` counts: every notebook of a runbook beyond the first is
  explained by a lost answer, a run overtaken after its listing or a person. `GreenReconcileRemoved` is about all
  the targets of a green reconciler, of which an earlier one may have failed. `PublicationConverges` is the
  liveness of the cycle: one deploy suffices, if it starts and nothing disturbs it. That one starts is not
  claimed. The one way it can be blocked for good (a recorded notebook that is gone) is stated in the property.
- `ValidatedIsDeployable` is about merges nobody tested together. `BuiltAsResolved` and `CatalogAsResolved`
  compare two implementations of one resolution, on whatever is live. `GreenIsCovered`, `SilencedOnPurpose`,
  `LiveErrorIsRed` and `ExpiryIsReported` are the two gates' meaning. Each of the first three takes a set out of the
  estate (the resources without a mandatory monitor, the exceptions that have run out and still silence a resource, the
  objectives in error) and says that a green verdict means the set is empty or no larger than one acceptance
  by that check and class that is valid today (`AcceptedBy`). The set is defined from the assignments, the packs and
  what is live, without the report's findings or its budgets, so that a finding that is lost, merged with another
  or paid for by an unrelated acceptance shows. And an exception left to run out does get reported.
- `ShownPageIsCurrent` is the router's token under answers in any order; `DataAgeIsBounded` and
  `ParsedIsCurrent` the caches under racing threads; `GreenIsSeen` and `DrilldownExplains` the roll-ups under
  every modelled outage. No incident is open behind a healthy headline, of whatever severity: a SEV-4 or SEV-5 makes
  it "Informational".

Every property has a mutant in `PROJECT.json`: a plausible bug of the code, written next to the operator it
replaces, under which the same run violates the property.

### Findings

1. `Correlation_closed`: a group's `closed` flag is set before other groups join it, so that a recovered
   cause hides a symptom that is still alerting.
2. `RunbookPublish_newest`: the names that protect a new runbook come from the reconciler's checkout; a
   runbook registered after it and published before its listing is deleted.
3. `Portal_headline`: with any source out, the headline and its one sentence are replaced, and a running
   SEV-1 that was read is not mentioned in it.

### Observations

Met while modelling; the models have these behaviours where they reach them, and no run is spent on them.

State and promotion. Two deployers with locks of their own (GitHub and Azure) overwrite each other's version of
a file (`tfstate-git.sh:80-82`); the theorems assume one deployer for that reason. A restore that cannot reach
the remote is taken for "no state yet" (50). A nightly drift run cancels a pending push run, whose merge
waits for the next push (`governance.yml:40`). On Azure a production run approved late can deploy an older
version (`azure-pipelines.yml:490`), and one can apply an exception past its last day
(`locals_policy.tf:136`).

MCP. `AuditLog.write` survives a file that cannot be written by marking a copy of the record
(`obs_governance.py:325-329`), which `dispatch` drops (`obs_router.py:238`): a commit and its pull request are
answered as if audited, against "One line per call, written whatever the outcome" (306) and "so the gap is visible in
the returned envelope" (328). `TracedCommit` with `audited` in the place of `Recorded` is violated in eleven states.
The branch of a call that failed makes the same proposal fail for the rest of the day (`obs_gitops.py:173`); an insert
is not idempotent (100); the limiter counts per process (`obs_governance.py:287`); a git command in a worktree that
has lost its link runs in the caller's checkout (`obs_gitops.py:181`). The docstring of `PlanLedger` says that
`obs.preview_onboarding` returns a plan token too; only `obs.plan` records one (`obs_tools.py:452`).

Correlation. After the first window of a key every alert opens a group of its own (`Join` compares with the
first group only). A scheduler incident that has inherited a P1 loses it when the topology pass adopts
it in turn, as that pass does not inherit.

Policy and gates. `coverage_report.py:360` reads what is deployed as (archetype, environment, band), so that a team's
monitor of one service stands for a pack's monitor of all; acceptance is by count (154). A manifest for a service
without alerts passes `validate_monitors.py` unless it asks for P1 or P2, and its plan then fails
(`locals_custom.tf:86-99`), against `validate_monitors.py:4-7`; CI's offline plan catches it. Two manifests of one
archetype, service and environment are each valid, and C8 finds them after the apply. The lint does not look at
composites that page outside production (`validate_policy.py:214`), and the scorecard scores neither exceptions'
floors nor composites' demotions. Every document of the deployed catalog differs from that of "the reference
implementation" in a tag: foundation's `main.tf:572` emits `slo_profile:` where the resolver emits `slo_scope:` (241),
and the HCL gates `componentOf` by the kind where the resolver (288) does not, against "builds the SAME structure" and
"a change to one without the other is visible" (`entity_resolver.py:307-309`). The one test of both asks only that
`main.tf` names the policy file and the module. `slots.tf` and `slos.tf` (from 103) claim the resolver's chain, but
the HCL reads neither environments nor a platform's `enabled`, and always asks the tier for windows and target: a tier
3 service (`objectives: {}`, `burn_windows: []`) that opts in gets the resolver's default burn alerts and target in
the one reading and none in the other. No service does so today; `ChainsAlign` names these gaps. Windows, owners,
members and targets of a composite, values and duplicates of priority exceptions, and `predictive_variant` are checked
by a plan and by no lint (`PlanOnlyRules`). A component of a kind that is not emitted leaves a reference to a service
that does not exist. The reconciler's guard against a registry that did not load (`catalog_reconcile.py:278`) refuses
only when services and notebooks are both unmanaged to the last.

Portal. Some panels are confident about what they have not seen: `_telemetry_gaps` (`view.py:562`) and `_capacity`
(489-494) say zero with a source down, an empty reconciliation is ok, and `incident_detail` and a per-service
`slo_detail` answer 404 when their feed is down. A correlation that raises (two priorities no rank has,
`correlate_events.py:161`) leaves its panels unknown and the headline as it is. Attainment counts objectives in error
as met and can exceed 100 %. A registered service has no domain and so is part of no system. An incident with two
services counts twice in the list and once in the detail. Racing fetches may store the older answer last, and
`fetched_at` is taken after the fetch, both inside the bounds of `DataAgeIsBounded`. The date of a list-shaped report
is read apart from its content (`sources.py:422`). The router gives up an answer for every newer refresh
(`app.js:917-945`), so that a server slower than the refresh interval never shows anything new.

Agent scripts. `Lifecycle.ps1:52` leaves by `exit 2` inside `try`, and the `finally` (132-146) then writes "failed"
over "out-of-scope", against 48-49. `Upgrade.ps1:41` exits 1 after a rollback, but `Lifecycle.ps1:79-83`
looks at no exit code and the host ends compliant, against `Upgrade.ps1:38-40`. `Set-DDConfiguration` copies
without removing: after an integration is dropped the hash never matches again and every hourly run writes
and restarts, against `Lifecycle.ps1:14-17`. `Rollback.ps1:17-26` restores the backup taken before the
current configuration although nothing was configured since. `Reconcile.ps1:29` takes "out of scope"
for a failure and tries three times.

## 4. Fairness

- `TfStateGit`: weak fairness of each job's own steps (`Step(w)`): a runner that is not killed keeps
  executing its shell script. Nothing is assumed of the lock queue, of the network or of crashes;
  `LockReleased` still holds as the loop's rounds are bounded.
- `Promotion`: weak fairness of each run's steps and of its review: a hosted job proceeds, and an approval
  is answered or times out into a rejection. Pushes, nightly runs and edits are not fair: nobody has to
  make them. `OnlyNightlyLosesAMerge` uses this specification.
- `RunbookPublish`: weak fairness of each publisher's steps once it has started (`Proceed`): a hosted job goes on and
  a request is answered. Nothing makes a deploy or a check start: `deploy.yml` publishes on a push or a dispatch by
  people, and the scheduled job runs `--check`, which writes nothing. `PublicationConverges` is therefore about a
  deploy that has started, undisturbed by faults and people from then on.
- `Estate`: weak fairness of `StartGovernance` (the workflow has a schedule), of the run's end and of
  `NextDay`. Pull requests, pipeline runs and approvals are not fair. The fairness of `Report` is
  written as the fairness of ending a run, which only `Report` can do, because it is cheaper to evaluate.
- `McpServer`, `Correlation` and `Portal` have no liveness property: a client may stop calling at any time, a
  function that is one loop after another ends, and a reader may close the tab.

## 5. Proofs

`TfStateGitProofs` proves, for any writers, files, locks, number of versions and rounds:

- `TypeCorrect`, `HistoryIsKept`: of every behaviour, with any lock assignment.
- `SeparationHolds`, `NoUpdateIsLost`, `SuccessIsDurableHolds`, `RetriesAreExplainedHolds`,
  `StoreIsImplemented`: of one deployer (`OneDeployer`); with two, the first observation shows them false.

They rest on the assumptions about the constants in `TfStateGit` only. The inductive invariant `IInv`
adds to the properties what the script relies on without saying so. `Exclusive`: two jobs at work have
different files. `Origin`: until a job's commit lands, the tip holds what it restored, or its own
version already (the push that landed unanswered). `Built`: a prepared commit is
the tree of its base with one file replaced, and differs from it. `AtTip`: after landing, nobody moves
the file. `Rounds`: the exact account of lost rounds. Without `Origin`, `NoLostUpdate` is not
inductive: the push step needs to know that the tip it lands on, which other jobs have moved, still holds
this job's version of this file. The invariant is a conjunction over jobs and the step lemma follows the
acting job (`OneJobStep`, `UntouchedJob`), one case per action. `StoreIsImplemented` maps initial
states and steps of the script to steps or stutters of `StateStore`; only a landed push moves the store.

`PromotionProofs`, for any runs, files, desired resources, faults and number of accidents:

- `TypeCorrect`, `PromotionOrderHolds`: with any locks.
- `OrphansAreAccidentsHolds`, `DuplicatesAreAccidentsHolds`, `MarkerTruthfulHolds`: assuming
  `OneLockPerFile`, two runs that write one file contend for one lock. This is so when one service deploys: GitHub has
  one group, and Azure's two jobs have no file in common. With both services it is not, and the three
  properties are then false (first observation). `MCPromotion` assumes it of its instance.
- `NoRollbackHolds`, `NoFalseAlarmHolds`: assuming `AllGitHub`, since Azure releases its lock between the
  stages.

The invariant has three parts. `Base`: a run that is at work holds its lock, no two runs hold one, and what a
run has behind it is green. `FileInv`, per file outside an accident: the branch tracks all that
is live while nobody is at work on the file, otherwise the copy of the one run at work does, and addresses have one
resource (`Tracked`); after a green apply the file is as it was deployed (`Clean`); what is left of a plan is
what the run's copy still differs in from the version's definitions (`Planned`); behind a run its files hold
exactly what its version asks for (`Settled`). `InTurn`: GitHub's queue hands the lock on in the order of the
versions. `OrphansAreAccidents` alone is not inductive: that a persist writes back what is live needs the copy
to have been the branch's when it was restored, and nobody to have persisted since, which is the lock's doing.

`McpServerProofs`, for any number of sessions in one clone, any principals, changes, grants, clocks and limits:
`TypeCorrect`, `GatedCommitHolds`, `TracedCommitHolds`, `ScratchReleasedHolds`, `BranchesAreFinalHolds`,
`BudgetPerWindowHolds`, none with a hypothesis. The invariant rests on `OneRunning`: only one call has ever passed `git
worktree add -b` for a name and is still at work, whoever else is clearing its directory. From it,
until that call commits, the branch is as it was made (`BranchMade`), what is in the index is the call's own
change or nothing (`IndexStaged`), and a directory nobody uses is one of a killed call or one that was met
(`ClearedIsMet`, `ScratchExplained`). `GrantsGated` carries the gates of the plan from the moment they are passed
to the commit. The budget has an invariant of its own, which relates the limiter's window to the log of
charged calls: of any `2 * Limit` calls in a row, the first and the last are at least a window apart. That is
the exact strength of a fixed window, and the property was restated in this form so that it does not depend on
the length of a run. `PlansPast` says that no plan is of a time to come, so that an age within TTL is that of a plan
that was made. `Recorded` grows with every call that ends, whether or not the file takes its line, and a restart moves
the records of the server's memory to the lost ones (`EndRecords`, `RestartRecords`).

`CorrelationProofs`, for any monitors, windows, times and number of events: `TypeCorrect`,
`AlertsConservedHolds`, `SymptomsAdoptedHolds`, `SchedulerKeepsSeverityHolds`, `ClosedGroupsRecoveredHolds`.
The rules are constants, of which one thing is assumed (`CausesAssumption`): a scheduler's cause is no cause
of the vendor or topology rules, as in `correlation_rules.yaml`, where the first are Control-M archetypes in the
domain `integration`. While events arrive, `GroupInv` says that every kept alert is in a group of its key or replaced,
and why a replacement has the same key and second; in the passes, `PassInv` says that every group is one
incident, standing or adopted by one that stands, and what each pass that is over has left
nothing of. `SymptomsAdopted` needs that the later passes do not undo the earlier: an adoption takes a cause away only
along with what it has adopted.

`RunbookPublishProofs`, for any runbooks, publishers, number of attempts and bounds: `TypeCorrect`,
`DuplicatesAreAccidentsHolds`, `RegisteredSparedHolds`, `GreenReconcileRemovedHolds`, none with a hypothesis. Ids are
never used twice (`Fresh`), and an id that a registry, a listing or a list of targets has for a name belongs to a
notebook of that name or to none (`Of`): listings and checkouts may be of any age, and this is what stays true of
them. `DuplicatesAreAccidents` counts notebooks per name against `extra`, and needs of a run that posts that its
listing had none of the name, so that one which is there now has come since.

`PortalProofs`, for any threads, journeys, sources, clocks, TTL, racing fetches and whatever the sources
hold: `TypeCorrect`, `ShownPageIsCurrentHolds`, `DataAgeIsBoundedHolds`, `ParsedIsCurrentHolds`, `GreenIsSeenHolds`,
`DrilldownExplainsHolds`, of any journeys through views that exist. The invariant: what
is in the cache was put there at most `MaxFetch` after it was asked for (`CacheRight`); content kept under a
file's stamp is no older than the file of that stamp (`Current`); a request has read nothing older than what
was there when it began, and its answer is its view built from its registry (`Right`); a data page on screen
is the one last rendered, which is the address (`ScreenRight`). The last two theorems are about the views themselves and
rest on lemmas about `PortalView` (`WorstStateIs`, `RollupIsOk`, `SystemRanked`, `Explained`): a roll-up that is
`ok` has read everything it joins, and one that is not has a member in its state. `Correlate` and `Correlates` stay
parameters there, so that they hold of any correlation.

`EstateProofs`, for any repository, pull requests, inventories, days and acts by hand: `TypeCorrect`,
`GreenIsCoveredHolds`, `SilencedOnPurposeHolds`, `LiveErrorIsRedHolds`, `LapsesAreRedHolds`, `CatalogAsResolvedHolds`,
from `EstateAssumption` and `RepositoryAssumption`. All but the last are about one step, the end of a gate, and what
has to be shown is about the reports behind it. A green gate leaves no finding over its budget, and the budget of a
class is the largest acceptance for it that is valid today, so that there are no more findings than one acceptance
allows (`NoMoreThanAccepted`). The findings of `C1`, `C12` and `C13` come from one part of the report each
(`ReportParts`, `ReportClasses`), are finitely many, and different things give different findings (`EachIsReported`),
so that counting findings counts things. What is left is that each uncovered resource, each lapsed silencer and each
objective in error is reported (`UncoveredIsReported`, `ReportedLapses`, `ReportedErrors`): for resources this joins
the mandatory archetypes of an assignment with the instances its pack expands to, for silencers it needs that the
exception on a profile is an entry of the file (`ExceptionOfFile`). `LapsesAreRedHolds` is the step behind the
liveness property `ExpiryIsReported`: a report that finds more exceptions past their date than a valid acceptance
allows ends red. `CatalogAsResolved` rests on the invariant `LiveInv`: what is validated, in the catalog or live was
accepted by the suite on some day. Of such a repository the two readings agree reference by reference, tag by tag and
document by document, but for the two exceptions of `AsDeployed` (`SameReference`, `SameTags`, `SameEdges`,
`SameSystems`, `SameDocument`). Without the lint they do not: an unregistered name has a kind in one and none in the
other.

`EstateDeployProofs` goes on from `LiveInv`, for the same constants:

- `LastLayerWins`: what the resolver answers for a field of an objective is what the last of its seven layers that
  states it says, for every field but the two that are merged key by key. It has no hypothesis; the `TryOf` lemmas
  say the same of Terraform's chains of two, three and four.
- `BuiltAsResolvedHolds`, assuming `ChainsAlign`. Services agree by name (`SameServices`), the layers of the two
  chains field by field (`LayersOf`, `SameObjective`). An instance exists for each objective that is switched on,
  since the ids of two are different (`ObjectivesAsked`, `EachIsCreated`); then each side's promises are those of the
  enabled objectives (`BuiltPromises`, `ResolvedPromises`).
- `ValidatedIsDeployableHolds`, assuming `ChainsAlign` and `PlanOnlyRules`. Per kind of monitor, what passed the
  suite meets each precondition of the plan: priorities between the archetype's floor and the environment's ceiling
  after demotion and exceptions (`FloorIsRank`, `InstanceAccepted`), burn rates (`BurnAccepted`), composites
  (`CompositeAccepted`), a team's manifests (`ManifestBuilds`, `CustomAccepted`). No two instances have one key
  (`IdsApart`, `CustomKeys`): the id of a burn alert begins with its objective's, and the rest follows from the lint's
  duplicate check. `CatalogAccepted` is the foundation stack's part. The scorecard's part follows from
  `SuiteAccepts`, which computes the same rows.

The hypotheses are about the files and not about the model: without `ChainsAlign` the tier 3 service above makes
`BuiltAsResolved` false, and each conjunct of `PlanOnlyRules` is a rule that neither the lint nor the suite has.

Before a proof was begun, each invariant was an `INVARIANT` of the component's run, where TLC found no violation. The
proofs changed the models in form only: unread calls became positions, an incident's identity its group's place,
operators the prover cannot see through (`:>`, `@@`) became functions, and the resolver's loop over its seven layers
became seven nested merges.

Every safety invariant and action property of a passing run is stated by a theorem. Model-checked only are the four
liveness properties `LockReleased`, `OnlyNightlyLosesAMerge`, `PublicationConverges` and `ExpiryIsReported`,
which need fairness and `ENABLED`, out of the prover's reach; of the last, the step is proved
(`LapsesAreRedHolds`).

## 6. Plan

No module declares a `RECURSIVE` operator, and invariants are named conjunctions, so that what follows
needs no rewriting.

1. Done: `StateStore` and `TfStateGit`; `Promotion`; `McpServer`; `Correlation`; `RunbookPublish`; `Portal`;
   each with a proof module; the policy modules with `Estate` and `EstateProofs`.
2. Done: `ValidatedIsDeployable` and `BuiltAsResolved` of any repository, with what they need stated apart, in
   `EstateDeployProofs`.
3. The OTel deployment's gates, as a small state machine next to `Promotion`.

## 7. What is not modelled

Generators, renderers and most MCP reading tools turn files into text and keep no state; the reports behind the gates
(`tools/reports.py` and the like) only print. `obs.ask` and its evidence answer questions from files the other
components leave. The agent scripts cannot get past their first step on what the repository gives
them: under StrictMode `DD-Agent-Lifecycle.ps1` reads `enabled`, `target_version` and `rollback_version`, none of
which `agent_config.py` (252-261) renders, and `DDAgent.psm1:98` reads `.Keys` of an object that has none; their
own README says that they have never run, so a model of them would describe an intention. Authentication
beyond the portal's groups, redaction, the write fence, pull request texts, intent routing and
JSON-RPC framing are outside: no property depends on them.

Inside the modelled parts the following is left out. `Promotion`: Azure's batching of pushes, and the
content of plans. `McpServer`: the caller's own checkout, and errors in a plan (`obs.plan` records a token
either way, as the model does). Policy: agent files, report definitions and missing fields in the lint; budgets
that only warn; the wording of queries and messages, of which the model keeps the scopes, keys, functions and
markers that rules look for. `Estate`: the pipeline's earlier environments, which `Promotion` has, and
telemetry surveys, which no pipeline passes to the assignment. `Portal`: malformed payloads,
answered with a 500, sorting, links and wording, and the substring match of an incident's
title in `service_detail`, which is modelled as membership.
