------------------------------- MODULE Promotion -------------------------------
(***************************************************************************)
(* Controlled promotion: the deploy workflow of GitHub Actions             *)
(* (.github/workflows/deploy.yml) and its Azure port (azure-pipelines.yml, *)
(* .azuredevops/templates/tf-apply.yml), with the nightly drift job of     *)
(* .github/workflows/governance.yml that shares the GitHub lock.           *)
(*                                                                         *)
(* A run carries one version of the definitions through the state files of *)
(* the nonprod job, one after the other, and, when its target is           *)
(* production, through those of the production job after an approval.  For *)
(* each file it restores the state, plans, applies resource by resource    *)
(* and persists the state, also after a red apply.  The state store is     *)
(* StateStore: a load may come back empty when the remote is out of reach, *)
(* and a save that reports a failure may or may not have taken effect.     *)
(* In-place updates are left out: a resource is created or destroyed.      *)
(***************************************************************************)
EXTENDS Naturals, Sequences, FiniteSets

CONSTANTS
  MaxRuns,      \* bound: runs triggered in a behaviour
  MaxNightly,   \* bound: drift runs among them
  MaxVersions,  \* bound: versions of the definitions on main
  MaxAccidents, \* bound: faults and edits that part state and estate
  Faults,       \* the faults that may happen, of FaultKinds
  Deployer,     \* run -> "github" or "azure"
  Nonprod,      \* the state files of the nonprod job, in order
  Production,   \* the state files of the production job, in order
  Watched,      \* the state files the drift job plans, in order
  Marked,       \* the state files whose environment gets a marker
  Addresses,    \* resource addresses of the Terraform stacks
  Desired       \* version -> file -> the addresses its definitions ask for

Runs     == 1..MaxRuns
Versions == 1..MaxVersions
Files    == {Nonprod[i] : i \in DOMAIN Nonprod}
              \cup {Production[i] : i \in DOMAIN Production}

FaultKinds == {"fetch", "persist", "runner", "apply", "step", "edit"}

ASSUME BoundsAssumption ==
  /\ MaxRuns \in Nat /\ MaxNightly \in Nat /\ MaxAccidents \in Nat
  /\ MaxVersions \in Nat \ {0}
ASSUME FaultsAssumption   == Faults \subseteq FaultKinds
ASSUME DeployerAssumption == Deployer \in [Runs -> {"github", "azure"}]
ASSUME JobsAssumption ==
  /\ Nonprod # <<>> /\ Production # <<>> /\ Watched # <<>>
  /\ Nonprod \in Seq(Files) /\ Production \in Seq(Files)
  /\ Watched \in Seq(Files)
ASSUME MarkedAssumption   == Marked \subseteq Files
ASSUME DesiredAssumption  ==
  Desired \in [Versions -> [Files -> SUBSET Addresses]]

VARIABLES
  head,      \* version at the tip of main
  triggered, \* run_number: runs triggered so far
  pc,        \* run -> the step it is at
  target,    \* run -> the promotion target it was started with
  version,   \* run -> the version it deploys
  job,       \* run -> the job it is in
  at,        \* run -> position in the job's file order
  holds,     \* run -> the lock it holds
  local,     \* run -> file -> terraform.tfstate in the runner's checkout
  plan,      \* run -> what terraform apply still has to do
  red,       \* run -> terraform apply returned an error
  store,     \* file -> the state on the tfstate branch
  live,      \* file -> the resources that exist in Datadog
  marker,    \* file -> version of its last deployment marker
  \* history variables, read by no guard but the bounds
  deployed,  \* file -> version of its last green, persisted apply
  green,     \* <<file, version>> pairs applied green and persisted
  dirty,     \* files whose last apply with work to do has not ended green
  alarms,    \* files the last drift run reported
  hit,       \* <<kind, file>>: accidents that befell a file
  accidents

run     == <<pc, target, version, job, at, holds, local, plan, red>>
world   == <<store, live, marker>>
history == <<deployed, green, dirty, alarms, hit, accidents>>
vars    == <<head, triggered, run, world, history>>

\* A live resource: each accident may leave one more copy of an address.
Objects == [addr: Addresses, copy: 1..(MaxAccidents + 1)]

Addrs(objects) == {o.addr : o \in objects}

NoLock == "none"
NoPlan == [create |-> {}, destroy |-> {}]
NoWork == [f \in Files |-> {}]

Labels == {"new", "pending", "cancelled", "restore", "plan", "apply",
           "persist", "verify", "marker", "approval", "approved", "check",
           "done", "failed"}

Order(j) == CASE j = "nonprod"    -> Nonprod
              [] j = "production" -> Production
              [] j = "drift"      -> Watched
Current(r) == Order(job[r])[at[r]]

LastFile(r) == at[r] = Len(Order(job[r]))

TypeOK ==
  /\ head      \in Versions
  /\ triggered \in 0..MaxRuns
  /\ pc        \in [Runs -> Labels]
  /\ target    \in [Runs -> {"nonprod", "production", "drift"}]
  /\ version   \in [Runs -> Versions]
  /\ job       \in [Runs -> {"nonprod", "production", "drift"}]
  /\ at        \in [Runs -> Nat] /\ \A r \in Runs : at[r] \in DOMAIN Order(job[r])
  /\ holds     \in [Runs -> {NoLock, "tfstate", "nonprod", "production"}]
  /\ local     \in [Runs -> [Files -> SUBSET Objects]]
  /\ plan      \in [Runs -> [create: SUBSET Addresses, destroy: SUBSET Objects]]
  /\ red       \in [Runs -> BOOLEAN]
  /\ store     \in [Files -> SUBSET Objects]
  /\ live      \in [Files -> SUBSET Objects]
  /\ marker    \in [Files -> {0} \cup Versions]
  /\ deployed  \in [Files -> {0} \cup Versions]
  /\ green     \subseteq Files \X Versions
  /\ dirty     \subseteq Files
  /\ alarms    \subseteq Files
  /\ hit       \subseteq FaultKinds \X Files
  /\ accidents \in 0..MaxAccidents

Init ==
  /\ head = 1
  /\ triggered = 0
  /\ pc      = [r \in Runs |-> "new"]
  /\ target  = [r \in Runs |-> "nonprod"]
  /\ version = [r \in Runs |-> 1]
  /\ job     = [r \in Runs |-> "nonprod"]
  /\ at      = [r \in Runs |-> 1]
  /\ holds   = [r \in Runs |-> NoLock]
  /\ local   = [r \in Runs |-> NoWork]
  /\ plan    = [r \in Runs |-> NoPlan]
  /\ red     = [r \in Runs |-> FALSE]
  /\ store   = NoWork
  /\ live    = NoWork
  /\ marker   = [f \in Files |-> 0]
  /\ deployed = [f \in Files |-> 0]
  /\ green     = {}
  /\ dirty     = {}
  /\ alarms    = {}
  /\ hit       = {}
  /\ accidents = 0

Goto(r, label) == pc' = [pc EXCEPT ![r] = label]

\* At work on the state of the current file, with the job's lock.
Working == {"restore", "plan", "apply", "persist"}

-------------------------------------------------------------------------------
(* Triggers and locks.                                                     *)

\* (The drift workflow in a group of its own.)
LockApart(r, j) ==
  IF Deployer[r] = "azure" THEN j
  ELSE IF j = "drift" THEN "production" ELSE "tfstate"

\* GitHub: one group for the whole workflow.  Azure: one exclusive lock per
\* environment, taken and released by each stage.
LockOf(r, j) == IF Deployer[r] = "github" THEN "tfstate" ELSE j

Free(l) == \A r \in Runs : holds[r] # l

\* (Cancelling the newcomer instead.)
EnqueueFirst(r, t, v) ==
  /\ r = triggered + 1
  /\ triggered' = r
  /\ pc' = [pc EXCEPT ![r] =
              IF \E s \in Runs : pc[s] = "pending" /\ ~Free("tfstate")
                THEN "cancelled" ELSE "pending"]
  /\ target'  = [target EXCEPT ![r] = t]
  /\ version' = [version EXCEPT ![r] = v]
  /\ UNCHANGED <<job, at, holds, local, plan, red, world, history>>

\* GitHub keeps one pending run per group: while another run is in progress,
\* a newer pending one cancels it -- whichever workflow it comes from.
Enqueue(r, t, v) ==
  /\ r = triggered + 1
  /\ triggered' = r
  /\ pc' = [s \in Runs |->
              IF s = r THEN "pending"
              ELSE IF /\ pc[s] = "pending"
                      /\ Deployer[r] = "github" /\ Deployer[s] = "github"
                      /\ ~Free("tfstate")
                   THEN "cancelled"
                   ELSE pc[s]]
  /\ target'  = [target EXCEPT ![r] = t]
  /\ version' = [version EXCEPT ![r] = v]
  /\ UNCHANGED <<job, at, holds, local, plan, red, world, history>>

\* A merge to main triggers a nonprod run of the merged version.
Push(r) ==
  /\ head < MaxVersions
  /\ head' = head + 1
  /\ Enqueue(r, "nonprod", head + 1)

Dispatch(r) ==
  /\ \E t \in {"nonprod", "production"} : Enqueue(r, t, head)
  /\ UNCHANGED head

\* governance.yml: cron "0 6 * * *", or a dispatch.
Nightly(r) ==
  /\ Deployer[r] = "github"
  /\ Cardinality({s \in Runs : target[s] = "drift"}) < MaxNightly
  /\ Enqueue(r, "drift", head)
  /\ UNCHANGED head

\* (Any pending run gets the lock.)
DequeueAny(r, j) ==
  /\ pc[r] = "pending"
  /\ Free(LockOf(r, j))
  /\ holds' = [holds EXCEPT ![r] = LockOf(r, j)]
  /\ job' = [job EXCEPT ![r] = j]

\* Runs leave the queue in the order they were triggered in.
Dequeue(r, j) ==
  /\ pc[r] = "pending"
  /\ \A s \in 1..(r - 1) : Deployer[s] = Deployer[r] => pc[s] # "pending"
  /\ Free(LockOf(r, j))
  /\ holds' = [holds EXCEPT ![r] = LockOf(r, j)]
  /\ job' = [job EXCEPT ![r] = j]

BeginNonprod(r) ==
  /\ target[r] # "drift"
  /\ Dequeue(r, "nonprod")
  /\ Goto(r, "restore")
  /\ UNCHANGED <<head, triggered, target, version, at, local, plan, red, world,
                 history>>

BeginDrift(r) ==
  /\ target[r] = "drift"
  /\ Dequeue(r, "drift")
  /\ Goto(r, "check")
  /\ alarms' = {}
  /\ UNCHANGED <<head, triggered, target, version, at, local, plan, red, world,
                 deployed, green, dirty, hit, accidents>>

\* The reviewer of the production environment, or the expiry of the request.
Approve(r) ==
  /\ pc[r] = "approval"
  /\ Goto(r, "approved")
  /\ UNCHANGED <<head, triggered, target, version, job, at, holds, local, plan,
                 red, world, history>>

\* needs: nonprod has been met; the job gets a fresh runner.
BeginProduction(r) ==
  /\ pc[r] = "approved"
  /\ holds[r] = LockOf(r, "production") \/ Free(LockOf(r, "production"))
  /\ holds' = [holds EXCEPT ![r] = LockOf(r, "production")]
  /\ job' = [job EXCEPT ![r] = "production"]
  /\ at'  = [at EXCEPT ![r] = 1]
  /\ Goto(r, "restore")
  /\ UNCHANGED <<head, triggered, target, version, local, plan, red, world,
                 history>>

\* The run is over: its runner and its lock are gone.
Finish(r, label) ==
  /\ Goto(r, label)
  /\ holds' = [holds EXCEPT ![r] = NoLock]
  /\ local' = [local EXCEPT ![r] = NoWork]
  /\ plan'  = [plan EXCEPT ![r] = NoPlan]
  /\ UNCHANGED <<head, triggered, target, version, job, at, red>>

Reject(r) ==
  /\ pc[r] = "approval"
  /\ Finish(r, "failed")
  /\ UNCHANGED <<world, history>>

-------------------------------------------------------------------------------
(* One state file: restore, plan, apply, persist.                          *)

\* An accident separates file f from its state; at most MaxAccidents happen.
Befalls(kind, f) ==
  /\ kind \in Faults
  /\ accidents < MaxAccidents
  /\ accidents' = accidents + 1
  /\ hit' = hit \cup {<<kind, f>>}

Accident(kind, f) ==
  Befalls(kind, f) /\ UNCHANGED <<deployed, green, dirty, alarms>>

\* Click-ops: somebody deletes a resource in the Datadog UI.
Edit(f) ==
  /\ Accident("edit", f)
  /\ \E o \in live[f] : live' = [live EXCEPT ![f] = @ \ {o}]
  /\ UNCHANGED <<head, triggered, run, store, marker>>

\* tfstate-git.sh restore: a failed fetch is reported as "no state yet".
Restore(r) ==
  LET f == Current(r) IN
  /\ pc[r] = "restore"
  /\ \/ /\ local' = [local EXCEPT ![r][f] = store[f]]
        /\ UNCHANGED history
     \/ /\ store[f] # {}
        /\ Accident("fetch", f)
        /\ local' = [local EXCEPT ![r][f] = {}]
  /\ Goto(r, "plan")
  /\ UNCHANGED <<head, triggered, target, version, job, at, holds, plan, red,
                 world>>

\* (Against an empty state.)
PlanFromScratch(state, f, v) ==
  [create |-> Desired[v][f], destroy |-> {}]

\* terraform plan: tracked resources are refreshed, the rest is unknown to it.
PlanOf(state, f, v) ==
  [create  |-> Desired[v][f] \ Addrs(state \cap live[f]),
   destroy |-> {o \in state \cap live[f] : o.addr \notin Desired[v][f]}]

\* The apply that follows records the refreshed state.
Plan(r) ==
  LET f == Current(r)
      work == PlanOf(local[r][f], f, version[r])
  IN
  /\ pc[r] = "plan"
  /\ plan'  = [plan EXCEPT ![r] = work]
  /\ dirty' = IF work = NoPlan THEN dirty ELSE dirty \cup {f}
  /\ local' = [local EXCEPT ![r][f] = @ \cap live[f]]
  /\ red' = [red EXCEPT ![r] = FALSE]
  /\ Goto(r, "apply")
  /\ UNCHANGED <<head, triggered, target, version, job, at, holds, world,
                 deployed, green, alarms, hit, accidents>>

\* A resource gets an identity nobody refers to any more.
Fresh(f, a) ==
  LET taken == live[f] \cup store[f] \cup UNION {local[r][f] : r \in Runs}
  IN  {o \in Objects : o.addr = a /\ o \notin taken}

Create(r) ==
  LET f == Current(r) IN
  /\ pc[r] = "apply"
  /\ \E a \in plan[r].create :
       /\ Fresh(f, a) # {}
       /\ LET o == CHOOSE o \in Fresh(f, a) : TRUE IN
          /\ live'  = [live EXCEPT ![f] = @ \cup {o}]
          /\ local' = [local EXCEPT ![r][f] = @ \cup {o}]
       /\ plan' = [plan EXCEPT ![r].create = @ \ {a}]
  /\ UNCHANGED <<head, triggered, pc, target, version, job, at, holds, red,
                 store, marker, history>>

Destroy(r) ==
  LET f == Current(r) IN
  /\ pc[r] = "apply"
  /\ \E o \in plan[r].destroy :
       /\ live'  = [live EXCEPT ![f] = @ \ {o}]
       /\ local' = [local EXCEPT ![r][f] = @ \ {o}]
       /\ plan'  = [plan EXCEPT ![r].destroy = @ \ {o}]
  /\ UNCHANGED <<head, triggered, pc, target, version, job, at, holds, red,
                 store, marker, history>>

\* (terraform apply under set -e.)
HonourFirst(r) == Goto(r, IF red'[r] THEN "failed" ELSE "persist")

\* rc=0; terraform apply || rc=$?  -- the state is persisted in both cases.
AfterApply(r) == Goto(r, "persist")

ApplyEnds(r) ==
  /\ pc[r] = "apply"
  /\ \/ /\ plan[r] = NoPlan
        /\ UNCHANGED red
     \/ /\ "apply" \in Faults
        /\ red' = [red EXCEPT ![r] = TRUE]
  /\ AfterApply(r)
  /\ UNCHANGED <<head, triggered, target, version, job, at, holds, local, plan,
                 world, history>>

\* The next file of the job, or the steps after its last one.
NextFile(r) ==
  IF LastFile(r)
    THEN /\ Goto(r, IF job[r] = "production" THEN "verify" ELSE "marker")
         /\ at' = [at EXCEPT ![r] = 1]
    ELSE /\ Goto(r, "restore")
         /\ at' = [at EXCEPT ![r] = @ + 1]

Persist(r) ==
  LET f == Current(r) IN
  /\ pc[r] = "persist"
  /\ ~red[r]
  /\ store' = [store EXCEPT ![f] = local[r][f]]
  /\ deployed' = [deployed EXCEPT ![f] = version[r]]
  /\ green' = green \cup {<<f, version[r]>>}
  /\ dirty' = dirty \ {f}
  /\ NextFile(r)
  /\ UNCHANGED <<head, triggered, target, version, job, holds, local, plan,
                 red, live, marker, alarms, hit, accidents>>

\* (Without honouring rc afterwards.)
PersistAndGoOn(r) ==
  LET f == Current(r) IN
  /\ pc[r] = "persist"
  /\ red[r]
  /\ store' = [store EXCEPT ![f] = local[r][f]]
  /\ NextFile(r)
  /\ UNCHANGED <<head, triggered, target, version, job, holds, local, plan,
                 red, live, marker, history>>

\* if [ "$rc" -ne 0 ]; then exit "$rc"; fi  -- after the state was persisted.
PersistRed(r) ==
  LET f == Current(r) IN
  /\ pc[r] = "persist"
  /\ red[r]
  /\ store' = [store EXCEPT ![f] = local[r][f]]
  /\ Finish(r, "failed")
  /\ UNCHANGED <<live, marker, history>>

\* (persist ... || true.)
PersistIgnored(r) ==
  /\ pc[r] = "persist"
  /\ Accident("persist", Current(r))
  /\ NextFile(r)
  /\ UNCHANGED <<head, triggered, target, version, job, holds, local, plan,
                 red, world>>

\* persist exits 1: its last push was lost before or after it landed.
PersistFails(r) ==
  LET f == Current(r) IN
  /\ pc[r] = "persist"
  /\ \/ /\ "persist" \in Faults
        /\ store' = [store EXCEPT ![f] = local[r][f]]
        /\ UNCHANGED history
     \/ /\ Accident("persist", f)
        /\ UNCHANGED store
  /\ Finish(r, "failed")
  /\ UNCHANGED <<live, marker>>

-------------------------------------------------------------------------------
(* The rest of the jobs.                                                   *)

\* Checkout, init, runbook publishing, plan, a post-deploy gate: red.
StepFails(r) ==
  /\ "step" \in Faults
  /\ pc[r] \in {"restore", "plan", "verify", "marker"}
  /\ Finish(r, "failed")
  /\ UNCHANGED <<world, history>>

\* The runner is lost with its checkout, in the middle of an apply or not.
RunnerDies(r) ==
  /\ "runner" \in Faults
  /\ pc[r] \in Working \cup {"verify", "marker"}
  /\ IF pc[r] \in {"apply", "persist"}
       THEN Accident("runner", Current(r))
       ELSE UNCHANGED history
  /\ Finish(r, "failed")
  /\ UNCHANGED world

\* Step 4 of the production job: a second plan of both stacks must be empty.
Verify(r) ==
  /\ pc[r] = "verify"
  /\ IF \A i \in DOMAIN Production :
          PlanOf(local[r][Production[i]], Production[i], version[r]) = NoPlan
       THEN /\ Goto(r, "marker")
            /\ UNCHANGED <<head, triggered, target, version, job, at, holds,
                           local, plan, red>>
       ELSE Finish(r, "failed")
  /\ UNCHANGED <<world, history>>

\* The last step of a green job, environment by environment.
EmitMarker(r) ==
  LET f == Current(r) IN
  /\ pc[r] = "marker"
  /\ marker' = IF f \in Marked THEN [marker EXCEPT ![f] = version[r]] ELSE marker
  /\ IF ~LastFile(r)
       THEN /\ at' = [at EXCEPT ![r] = @ + 1]
            /\ UNCHANGED <<head, triggered, pc, target, version, job, holds,
                           local, plan, red>>
     ELSE IF job[r] = "nonprod" /\ target[r] = "production"
       THEN /\ Goto(r, "approval")
            /\ holds' = IF Deployer[r] = "github" THEN holds
                        ELSE [holds EXCEPT ![r] = NoLock]
            /\ local' = [local EXCEPT ![r] = NoWork]
            /\ UNCHANGED <<head, triggered, target, version, job, at, plan, red>>
     ELSE Finish(r, "done")
  /\ UNCHANGED <<store, live, history>>

-------------------------------------------------------------------------------
(* The nightly drift job: restore each file and plan it, apply nothing.    *)

\* set +e: a restore that could not reach the remote is planned like any other.
CheckDrift(r) ==
  LET f == Current(r) IN
  /\ pc[r] = "check"
  /\ \E state \in {store[f], {}} :
       /\ IF state = store[f] THEN UNCHANGED <<hit, accidents>>
                              ELSE Befalls("fetch", f)
       /\ alarms' = IF PlanOf(state, f, version[r]) = NoPlan
                      THEN alarms ELSE alarms \cup {f}
  /\ IF LastFile(r)
       THEN Finish(r, IF alarms' = {} THEN "done" ELSE "failed")
       ELSE /\ at' = [at EXCEPT ![r] = @ + 1]
            /\ UNCHANGED <<head, triggered, pc, target, version, job, holds,
                           local, plan, red>>
  /\ UNCHANGED <<world, deployed, green, dirty>>

-------------------------------------------------------------------------------
Step(r) ==
  \/ BeginNonprod(r)
  \/ BeginProduction(r)
  \/ BeginDrift(r)
  \/ CheckDrift(r)
  \/ Restore(r)
  \/ Plan(r)
  \/ Create(r)
  \/ Destroy(r)
  \/ ApplyEnds(r)
  \/ Persist(r)
  \/ PersistRed(r)
  \/ PersistFails(r)
  \/ StepFails(r)
  \/ Verify(r)
  \/ EmitMarker(r)

Review(r) == Approve(r) \/ Reject(r)

Next ==
  \/ \E r \in Runs :
       \/ Push(r)
       \/ Dispatch(r)
       \/ Nightly(r)
       \/ Step(r)
       \/ Review(r)
       \/ RunnerDies(r)
  \/ \E f \in Files : Edit(f)

Spec == Init /\ [][Next]_vars

\* The services keep executing the steps of a run, and a request for approval
\* is answered or expires.
FairSpec ==
  Spec /\ \A r \in Runs : WF_vars(Step(r)) /\ WF_vars(Review(r))

-------------------------------------------------------------------------------
(* Which deployments the theorems are about.                               *)

Jobs == {"nonprod", "production", "drift"}

InOrder(f, j) == \E i \in DOMAIN Order(j) : Order(j)[i] = f

\* Whoever applies to a file takes the same lock for it.  It holds when one
\* service deploys: GitHub has one lock, and the jobs of Azure share no file.
OneLockPerFile ==
  \A r, s \in Runs, i, j \in {"nonprod", "production"}, f \in Files :
    InOrder(f, i) /\ InOrder(f, j) => LockOf(r, i) = LockOf(s, j)

AllGitHub == \A r \in Runs : Deployer[r] = "github"

-------------------------------------------------------------------------------
(* Properties.                                                             *)

\* The accidents that lose a file's state or hide it from a run.
Apart(f)  == \E k \in {"fetch", "persist", "runner"} : <<k, f>> \in hit
Edited(f) == <<"edit", f>> \in hit

\* "Losing the state that tracks them turns a red apply into an orphan fleet"
\* (deploy.yml): outside an accident, whatever apply did and however it ended,
\* a live resource is tracked by the branch or by the run at work on its file.
OrphansAreAccidents ==
  \A f \in Files : ~Apart(f) => \A o \in live[f] :
    \/ o \in store[f]
    \/ \E r \in Runs : /\ pc[r] \in {"apply", "persist"}
                      /\ Current(r) = f
                      /\ o \in local[r][f]

\* The same where no accident lost or hid the state, in spite of red applies,
\* failed persists that did land, edits and overlapping runs.
DuplicatesAreAccidents ==
  \A f \in Files : ~Apart(f) =>
    \A o, p \in live[f] : o.addr = p.addr => o = p

\* Promotion order (deploy.yml header): a run at work on a file has applied its
\* version green to every file before it, and touches production only when
\* asked to -- also with two runs promoting different versions at once.
PromotionOrder ==
  \A r \in Runs : pc[r] \in Working =>
    /\ \A i \in 1..(at[r] - 1) : <<Order(job[r])[i], version[r]>> \in green
    /\ job[r] = "production" =>
         /\ target[r] = "production"
         /\ \A i \in DOMAIN Nonprod : <<Nonprod[i], version[r]>> \in green

\* "A marker for a deployment that did not complete is worse than none": when
\* a marker is posted, its environment holds exactly what its version asks for,
\* edits by hand apart.
MarkerTruthful ==
  [][\A f \in Files : marker'[f] # marker[f] =>
       /\ Addrs(store[f]) = Desired[marker'[f]][f]
       /\ store[f] \subseteq live[f] \/ Edited(f)]_vars

\* No run puts an older version over a newer one, although runs wait for their
\* lock, are superseded, and hold it during an approval (GitHub Actions).
NoRollback ==
  [][\A f \in Files : deployed'[f] >= deployed[f]]_vars

\* Drift means something: the nightly job reports a file only when somebody
\* edited it, an accident befell it, its last apply was not green, or main has
\* moved past what was deployed to it -- never because it read the state or the
\* estate in the middle of an apply (governance.yml, concurrency: tfstate).
NoFalseAlarm ==
  [][\A f \in alarms' \ alarms :
       \/ Apart(f)' \/ Edited(f)
       \/ f \in dirty /\ \A r \in Runs : pc[r] \in Working => Current(r) # f
       \/ \E r \in Runs : pc[r] = "check" /\ deployed[f] # version[r]]_vars

\* Every file of the nonprod job has been through version v.
Promoted(v) == \A i \in DOMAIN Nonprod : deployed[Nonprod[i]] >= v

\* A run of version v ended red, in somebody's sight.
Red(v) == \E r \in Runs :
            pc[r] = "failed" /\ target[r] # "drift" /\ version[r] = v

\* The run of version v was cancelled by a drift run, which promotes nothing.
Superseded(v) ==
  \E r \in Runs : /\ pc[r] = "cancelled" /\ version[r] = v
                 /\ \E s \in Runs : s = r + 1 /\ target[s] = "drift"

\* What the code does keep of it: a merge that no red run reports is promoted,
\* or overtaken by a later merge, however runs supersede each other in the
\* queue and wait for approvals -- unless the run that supersedes is a drift run.
OnlyNightlyLosesAMerge ==
  \A v \in Versions \ {1} :
    head = v ~> head > v \/ Promoted(v) \/ Red(v) \/ Superseded(v)

===============================================================================
