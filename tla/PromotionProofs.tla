---------------------------- MODULE PromotionProofs ----------------------------
(***************************************************************************)
(* Proofs about Promotion, for any runs, files, definitions, faults and    *)
(* number of accidents: the types, the order of a promotion, what becomes  *)
(* of a state file and its estate when each file has one lock              *)
(* (OneLockPerFile), and the queue when GitHub deploys (AllGitHub).        *)
(***************************************************************************)
EXTENDS Promotion, TLAPS

-------------------------------------------------------------------------------
(* The inductive invariants.                                               *)

Acting == {"apply", "persist"}
Busy   == Working \cup {"verify", "marker"}

\* A run waits at the first file of its order.
Queued ==
  /\ \A r \in Runs : r > triggered => pc[r] = "new"
  /\ \A r \in Runs : pc[r] \in {"new", "pending"} => at[r] = 1

Locked ==
  /\ \A r \in Runs : pc[r] \in Busy \cup {"check"} => holds[r] = LockOf(r, job[r])
  /\ \A r, s \in Runs : holds[r] = holds[s] /\ holds[r] # NoLock => r = s
  /\ \A r \in Runs : pc[r] \in Busy => job[r] \in {"nonprod", "production"}
  /\ \A r \in Runs : pc[r] = "check" => job[r] = "drift" /\ target[r] = "drift"
  /\ \A r \in Runs : target[r] = "drift" => Deployer[r] = "github"

\* What a run has behind it is green; in the last steps of a job, all of it.
OrderedRun(r) ==
  /\ pc[r] \in Working => \A i \in 1..(at[r] - 1) : <<Order(job[r])[i], version[r]>> \in green
  /\ pc[r] \in {"verify", "marker"} =>
       \A i \in DOMAIN Order(job[r]) : <<Order(job[r])[i], version[r]>> \in green
  /\ pc[r] \in {"approval", "approved"} \/ (pc[r] \in Busy /\ job[r] = "production") =>
       /\ target[r] = "production"
       /\ \A i \in DOMAIN Nonprod : <<Nonprod[i], version[r]>> \in green

Ordered == \A r \in Runs : OrderedRun(r)

Base == TypeOK /\ Queued /\ Locked /\ Ordered

On(r, f) == Current(r) = f

\* State and estate of a file that no accident befell: at rest the branch tracks
\* every resource, during an apply the run does; and an address is created
\* only where there is none.
TrackedFile(f) ==
  ~Apart(f) =>
    /\ (\A r \in Runs : pc[r] \in Acting => ~On(r, f)) => live[f] \subseteq store[f]
    /\ \A r \in Runs : pc[r] = "plan" /\ On(r, f) => local[r][f] = store[f]
    /\ \A r \in Runs : pc[r] \in Acting /\ On(r, f) => live[f] \subseteq local[r][f]
    /\ \A o, p \in live[f] : o.addr = p.addr => o = p
    /\ \A r \in Runs : pc[r] = "apply" /\ On(r, f) =>
         \A o \in live[f] : o.addr \notin plan[r].create

\* A file whose last apply with work to do ended green is as it was deployed.
CleanFile(f) ==
  ~Apart(f) /\ ~Edited(f) /\ f \notin dirty =>
    /\ store[f] \subseteq live[f]
    /\ deployed[f] # 0 => Addrs(store[f]) = Desired[deployed[f]][f]
    /\ \A r \in Runs : pc[r] \in Acting /\ On(r, f) =>
         plan[r] = NoPlan /\ local[r][f] = store[f]

\* What is left of a plan is what local still differs in from the definitions.
PlanCovers(p, objects, wanted) ==
  /\ p.create \subseteq wanted
  /\ wanted \ p.create \subseteq Addrs(objects)
  /\ \A o \in objects : o.addr \in wanted \/ o \in p.destroy
  /\ \A o \in p.destroy : o.addr \notin wanted

PlannedRun(r) ==
  pc[r] \in Acting =>
    /\ PlanCovers(plan[r], local[r][Current(r)], Desired[version[r]][Current(r)])
    /\ local[r][Current(r)] \subseteq live[Current(r)] \/ Edited(Current(r))
    /\ pc[r] = "persist" /\ ~red[r] => plan[r] = NoPlan

\* A file holds exactly what version v asks for ...
Holds(f, v) ==
  /\ Addrs(store[f]) = Desired[v][f]
  /\ store[f] \subseteq live[f] \/ Edited(f)

\* ... behind a run at work, and everywhere when the files are done.
SettledRun(r) ==
  /\ pc[r] \in Working => \A i \in 1..(at[r] - 1) : Holds(Order(job[r])[i], version[r])
  /\ pc[r] \in {"verify", "marker"} =>
       \A i \in DOMAIN Order(job[r]) : Holds(Order(job[r])[i], version[r])

Tracked == \A f \in Files : TrackedFile(f)
Clean   == \A f \in Files : CleanFile(f)
Planned == \A r \in Runs : PlannedRun(r)
Settled == \A r \in Runs : SettledRun(r)

FileInv == Tracked /\ Clean /\ Planned /\ Settled

\* The queue of the GitHub group: who holds the lock was the last to start, and
\* versions grow with the number of the run.
Started(r) == pc[r] \notin {"new", "pending", "cancelled"}

InTurn ==
  /\ \A r \in Runs : holds[r] \in {NoLock, "tfstate"}
  /\ \A r \in Runs : pc[r] \in {"approval", "approved"} => holds[r] = "tfstate"
  /\ \A r \in Runs : r <= triggered => version[r] <= head
  /\ \A r, s \in Runs : r <= s /\ s <= triggered => version[r] <= version[s]
  /\ \A r, s \in Runs : Started(r) /\ pc[s] = "pending" => r < s
  /\ \A r, s \in Runs : Started(r) /\ holds[s] = "tfstate" => r <= s
  /\ \A r \in Runs : holds[r] = "tfstate" => Started(r)
  /\ \A f \in Files : deployed[f] = 0 \/ \E r \in Runs : Started(r) /\ deployed[f] <= version[r]

-------------------------------------------------------------------------------
(* Types.                                                                  *)

LEMMA OrderType ==
  ASSUME NEW j \in Jobs
  PROVE  Order(j) \in Seq(Files) /\ Len(Order(j)) \in Nat /\ 1 \in DOMAIN Order(j)
BY JobsAssumption DEF Order, Jobs

LEMMA CurrentType ==
  ASSUME TypeOK, NEW r \in Runs
  PROVE  /\ Current(r) \in Files
         /\ at[r] \in 1..Len(Order(job[r])) /\ Len(Order(job[r])) \in Nat
         /\ \A i \in DOMAIN Order(job[r]) : Order(job[r])[i] \in Files
<1>1. Order(job[r]) \in Seq(Files) /\ at[r] \in DOMAIN Order(job[r])
  BY OrderType DEF TypeOK, Jobs
<1> QED
  BY <1>1 DEF Current

\* A resource that is created is one nobody refers to.
LEMMA FreshType ==
  ASSUME NEW f \in Files, NEW a \in Addresses, NEW o \in Fresh(f, a)
  PROVE  o \in Objects /\ o.addr = a /\ o \notin live[f] /\ o \notin store[f]
BY DEF Fresh

LEMMA CreateStep ==
  ASSUME TypeOK, NEW r \in Runs, Create(r)
  PROVE  \E a \in plan[r].create, o \in Objects :
           /\ o.addr = a /\ o \notin live[Current(r)] /\ o \notin store[Current(r)]
           /\ live'  = [live EXCEPT ![Current(r)] = @ \cup {o}]
           /\ local' = [local EXCEPT ![r][Current(r)] = @ \cup {o}]
           /\ plan' = [plan EXCEPT ![r] = [plan[r] EXCEPT !.create = plan[r].create \ {a}]]
<1>1. PICK a \in plan[r].create :
        /\ Fresh(Current(r), a) # {}
        /\ LET o == CHOOSE o \in Fresh(Current(r), a) : TRUE IN
           /\ live'  = [live EXCEPT ![Current(r)] = @ \cup {o}]
           /\ local' = [local EXCEPT ![r][Current(r)] = @ \cup {o}]
        /\ plan' = [plan EXCEPT ![r].create = @ \ {a}]
  BY DEF Create
<1> DEFINE o == CHOOSE o \in Fresh(Current(r), a) : TRUE
<1>2. o \in Fresh(Current(r), a)
  BY <1>1
<1>3. a \in Addresses /\ Current(r) \in Files
  BY CurrentType DEF TypeOK
<1>4. /\ live'  = [live EXCEPT ![Current(r)] = @ \cup {o}]
      /\ local' = [local EXCEPT ![r][Current(r)] = @ \cup {o}]
      /\ plan' = [plan EXCEPT ![r] = [plan[r] EXCEPT !.create = plan[r].create \ {a}]]
  BY <1>1
<1> HIDE DEF o
<1>5. /\ o \in Objects /\ o.addr = a
      /\ o \notin live[Current(r)] /\ o \notin store[Current(r)]
  BY <1>2, <1>3, FreshType
<1> QED
  BY <1>4, <1>5

LEMMA FinishType ==
  ASSUME TypeOK, NEW r \in Runs, NEW label \in Labels, Finish(r, label)
  PROVE  /\ pc' \in [Runs -> Labels]
         /\ holds' \in [Runs -> {NoLock, "tfstate", "nonprod", "production"}]
         /\ local' \in [Runs -> [Files -> SUBSET Objects]]
         /\ plan' \in [Runs -> [create: SUBSET Addresses, destroy: SUBSET Objects]]
         /\ UNCHANGED <<head, triggered, target, version, job, at, red>>
<1>1. NoWork \in [Files -> SUBSET Objects]
  BY DEF NoWork
<1>2. NoPlan \in [create: SUBSET Addresses, destroy: SUBSET Objects]
  BY DEF NoPlan
<1> QED
  BY <1>1, <1>2 DEF Finish, Goto, TypeOK, NoLock

LEMMA LocalType ==
  ASSUME TypeOK, NEW r \in Runs, NEW f \in Files, NEW S \in SUBSET Objects,
         local' = [local EXCEPT ![r][f] = S]
  PROVE  local' \in [Runs -> [Files -> SUBSET Objects]]
BY DEF TypeOK

LEMMA TypeInit == Init => TypeOK
<1> SUFFICES ASSUME Init PROVE TypeOK
  OBVIOUS
<1>1. NoWork \in [Files -> SUBSET Objects]
  BY DEF NoWork
<1>2. NoPlan \in [create: SUBSET Addresses, destroy: SUBSET Objects]
  BY DEF NoPlan
<1>3. 1 \in Versions /\ 0 \in 0..MaxRuns /\ 0 \in 0..MaxAccidents
  BY BoundsAssumption DEF Versions
<1>4. 1 \in DOMAIN Order("nonprod")
  BY OrderType DEF Jobs
<1> QED
  BY <1>1, <1>2, <1>3, <1>4 DEF Init, TypeOK, Labels, NoLock

LEMMA EnqueueType ==
  ASSUME TypeOK, NEW r \in Runs, NEW t \in {"nonprod", "production", "drift"},
         NEW v \in Versions, Enqueue(r, t, v), head' \in Versions
  PROVE  TypeOK'
<1> USE DEF world, history
<1>1. pc' \in [Runs -> Labels]
  BY DEF Enqueue, TypeOK, Labels
<1>2. triggered' \in 0..MaxRuns
  BY BoundsAssumption DEF Enqueue, TypeOK, Runs
<1> QED
  BY <1>1, <1>2 DEF Enqueue, TypeOK

LEMMA PlanType ==
  ASSUME NEW f \in Files, NEW v \in Versions, NEW state, NEW S, state \subseteq S
  PROVE  PlanOf(state, f, v) \in [create: SUBSET Addresses, destroy: SUBSET S]
BY DesiredAssumption DEF PlanOf

LEMMA BefallsType ==
  ASSUME TypeOK, NEW f \in Files, NEW kind, Befalls(kind, f)
  PROVE  hit' \subseteq FaultKinds \X Files /\ accidents' \in 0..MaxAccidents
BY FaultsAssumption, BoundsAssumption DEF Befalls, TypeOK

LEMMA TypeStep == TypeOK /\ Queued /\ Locked /\ [Next]_vars => TypeOK'
<1> SUFFICES ASSUME TypeOK, Queued, Locked, [Next]_vars PROVE TypeOK'
  OBVIOUS
<1> USE DEF run, world, history
<1>0. \A l \in {"restore", "plan", "apply", "persist", "verify", "marker", "approval",
               "approved", "check", "done", "failed"} : l \in Labels
  BY DEF Labels
<1>1. ASSUME NEW r \in Runs, Push(r) \/ Dispatch(r) \/ Nightly(r)
      PROVE  TypeOK'
  <2>1. CASE Push(r)
    <3>1. head + 1 \in Versions /\ head' = head + 1
      BY <2>1, BoundsAssumption DEF Push, TypeOK, Versions
    <3> QED
      BY <2>1, <3>1, EnqueueType DEF Push
  <2>2. CASE Dispatch(r)
    BY <2>2, EnqueueType DEF Dispatch, TypeOK
  <2>3. CASE Nightly(r)
    BY <2>3, EnqueueType DEF Nightly, TypeOK
  <2> QED
    BY <1>1, <2>1, <2>2, <2>3
<1>2. ASSUME NEW r \in Runs, BeginNonprod(r) \/ BeginDrift(r)
      PROVE  TypeOK'
  <2>1. PICK j \in {"nonprod", "drift"} :
          Dequeue(r, j) /\ (j = "drift" => target[r] = "drift")
    BY <1>2 DEF BeginNonprod, BeginDrift
  <2>2. LockOf(r, j) \in {"tfstate", "nonprod", "production"}
    BY <2>1 DEF LockOf, Locked
  <2>3. job' = [job EXCEPT ![r] = j] /\ at[r] = 1 /\ at' = at
    BY <1>2, <2>1 DEF Dequeue, BeginNonprod, BeginDrift, Queued
  <2>4. \A s \in Runs : at'[s] \in DOMAIN Order(job'[s])
    BY <2>3, OrderType DEF TypeOK, Jobs
  <2>5. holds' \in [Runs -> {NoLock, "tfstate", "nonprod", "production"}]
    BY <2>1, <2>2 DEF Dequeue, TypeOK
  <2>6. pc' \in [Runs -> Labels] /\ alarms' \subseteq Files
    <3>1. alarms' = alarms \/ alarms' = {}
      BY <1>2 DEF BeginNonprod, BeginDrift
    <3>2. pc' = [pc EXCEPT ![r] = "restore"] \/ pc' = [pc EXCEPT ![r] = "check"]
      BY <1>2 DEF BeginNonprod, BeginDrift, Goto
    <3> QED
      BY <3>1, <3>2 DEF TypeOK, Labels
  <2> QED
    BY <1>2, <2>1, <2>3, <2>4, <2>5, <2>6 DEF BeginNonprod, BeginDrift, TypeOK
<1>3. ASSUME NEW r \in Runs, Approve(r) \/ ApplyEnds(r)
      PROVE  TypeOK'
  <2>1. pc' \in [Runs -> Labels] /\ red' \in [Runs -> BOOLEAN]
    BY <1>3 DEF Approve, ApplyEnds, AfterApply, Goto, TypeOK, Labels
  <2> QED
    BY <1>3, <2>1 DEF Approve, ApplyEnds, TypeOK
<1>4. ASSUME NEW r \in Runs, BeginProduction(r)
      PROVE  TypeOK'
  <2>1. LockOf(r, "production") \in {"tfstate", "production"}
    BY DEF LockOf
  <2>2. /\ at' = [at EXCEPT ![r] = 1] /\ job' = [job EXCEPT ![r] = "production"]
        /\ at' \in [Runs -> Nat] /\ job' \in [Runs -> {"nonprod", "production", "drift"}]
    BY <1>4 DEF BeginProduction, TypeOK
  <2>3. \A s \in Runs : at'[s] \in DOMAIN Order(job'[s])
    BY <2>2, OrderType DEF TypeOK, Jobs
  <2> QED
    BY <1>0, <1>4, <2>1, <2>2, <2>3 DEF BeginProduction, Goto, TypeOK
<1>5. ASSUME NEW r \in Runs, Reject(r) \/ StepFails(r)
      PROVE  TypeOK'
  <2>1. Finish(r, "failed") /\ UNCHANGED <<world, history>>
    BY <1>5 DEF Reject, StepFails
  <2> QED
    BY <1>0, <2>1, FinishType DEF TypeOK
<1>6. ASSUME NEW r \in Runs, RunnerDies(r)
      PROVE  TypeOK'
  <2>1. hit' \subseteq FaultKinds \X Files /\ accidents' \in 0..MaxAccidents
    BY <1>6, CurrentType, BefallsType DEF RunnerDies, Accident, TypeOK
  <2>2. UNCHANGED <<world, deployed, green, dirty, alarms>> /\ Finish(r, "failed")
    BY <1>6 DEF RunnerDies, Accident
  <2> QED
    BY <1>0, <2>1, <2>2, FinishType DEF TypeOK
<1>7. ASSUME NEW f \in Files, Edit(f)
      PROVE  TypeOK'
  <2>1. hit' \subseteq FaultKinds \X Files /\ accidents' \in 0..MaxAccidents
    BY <1>7, BefallsType DEF Edit, Accident
  <2> QED
    BY <1>7, <2>1 DEF Edit, Accident, TypeOK
<1>8. ASSUME NEW r \in Runs, Restore(r)
      PROVE  TypeOK'
  <2>1. Current(r) \in Files
    BY CurrentType
  <2>2. hit' \subseteq FaultKinds \X Files /\ accidents' \in 0..MaxAccidents
    BY <1>8, <2>1, BefallsType DEF Restore, Accident, TypeOK
  <2>3. local' \in [Runs -> [Files -> SUBSET Objects]]
    <3>1. store[Current(r)] \subseteq Objects
      BY <2>1 DEF TypeOK
    <3> QED
      BY <1>8, <2>1, <3>1, LocalType, SMTT(30) DEF Restore
  <2>4. UNCHANGED <<deployed, green, dirty, alarms>>
    BY <1>8 DEF Restore, Accident
  <2> QED
    BY <1>0, <1>8, <2>2, <2>3, <2>4 DEF Restore, Goto, TypeOK
<1>9. ASSUME NEW r \in Runs, Plan(r)
      PROVE  TypeOK'
  <2>1. Current(r) \in Files /\ version[r] \in Versions /\ local[r][Current(r)] \subseteq Objects
    BY CurrentType DEF TypeOK
  <2>2. PlanOf(local[r][Current(r)], Current(r), version[r]) \in
          [create: SUBSET Addresses, destroy: SUBSET Objects]
    BY <2>1, PlanType
  <2>3. plan' \in [Runs -> [create: SUBSET Addresses, destroy: SUBSET Objects]]
    BY <1>9, <2>2 DEF Plan, TypeOK
  <2>4. dirty' \subseteq Files
    BY <1>9, <2>1 DEF Plan, TypeOK
  <2>5. local' \in [Runs -> [Files -> SUBSET Objects]]
    BY <1>9, <2>1 DEF Plan, TypeOK
  <2> QED
    BY <1>0, <1>9, <2>3, <2>4, <2>5 DEF Plan, Goto, TypeOK
<1>10. ASSUME NEW r \in Runs, Create(r)
      PROVE  TypeOK'
  <2>1. Current(r) \in Files /\ plan[r] \in [create: SUBSET Addresses, destroy: SUBSET Objects]
    BY CurrentType DEF TypeOK
  <2>2. PICK a \in plan[r].create, o \in Objects :
          /\ live'  = [live EXCEPT ![Current(r)] = @ \cup {o}]
          /\ local' = [local EXCEPT ![r][Current(r)] = @ \cup {o}]
          /\ plan' = [plan EXCEPT ![r] = [plan[r] EXCEPT !.create = plan[r].create \ {a}]]
    BY <1>10, CreateStep
  <2>3. [plan[r] EXCEPT !.create = plan[r].create \ {a}] \in
          [create: SUBSET Addresses, destroy: SUBSET Objects]
    BY <2>1
  <2>4. plan' \in [Runs -> [create: SUBSET Addresses, destroy: SUBSET Objects]]
    BY <2>2, <2>3 DEF TypeOK
  <2>5. live' \in [Files -> SUBSET Objects] /\ local' \in [Runs -> [Files -> SUBSET Objects]]
    BY <2>1, <2>2 DEF TypeOK
  <2> QED
    BY <1>10, <2>4, <2>5 DEF Create, TypeOK
<1>11. ASSUME NEW r \in Runs, Destroy(r)
      PROVE  TypeOK'
  <2>1. Current(r) \in Files /\ plan[r] \in [create: SUBSET Addresses, destroy: SUBSET Objects]
    BY CurrentType DEF TypeOK
  <2>2. PICK o \in plan[r].destroy :
          /\ live'  = [live EXCEPT ![Current(r)] = @ \ {o}]
          /\ local' = [local EXCEPT ![r][Current(r)] = @ \ {o}]
          /\ plan' = [plan EXCEPT ![r] = [plan[r] EXCEPT !.destroy = plan[r].destroy \ {o}]]
    BY <1>11 DEF Destroy
  <2>3. [plan[r] EXCEPT !.destroy = plan[r].destroy \ {o}] \in
          [create: SUBSET Addresses, destroy: SUBSET Objects]
    BY <2>1
  <2>4. plan' \in [Runs -> [create: SUBSET Addresses, destroy: SUBSET Objects]]
    BY <2>2, <2>3 DEF TypeOK
  <2>5. live' \in [Files -> SUBSET Objects] /\ local' \in [Runs -> [Files -> SUBSET Objects]]
    BY <2>1, <2>2 DEF TypeOK
  <2> QED
    BY <1>11, <2>4, <2>5 DEF Destroy, TypeOK
<1>12. ASSUME NEW r \in Runs, Persist(r)
      PROVE  TypeOK'
  <2>1. Current(r) \in Files /\ version[r] \in Versions /\ local[r][Current(r)] \subseteq Objects
    BY CurrentType DEF TypeOK
  <2>2. /\ at' \in [Runs -> Nat] /\ pc' \in [Runs -> Labels]
        /\ \A s \in Runs : at'[s] \in DOMAIN Order(job[s])
    <3>1. Order(job[r]) \in Seq(Files) /\ Len(Order(job[r])) \in Nat /\ 1 \in DOMAIN Order(job[r])
      BY OrderType DEF TypeOK, Jobs
    <3>2. CASE LastFile(r)
      <4>1. at' = [at EXCEPT ![r] = 1]
        BY <1>12, <3>2 DEF Persist, NextFile
      <4>2. pc' = [pc EXCEPT ![r] = IF job[r] = "production" THEN "verify" ELSE "marker"]
        BY <1>12, <3>2 DEF Persist, NextFile, Goto
      <4>3. pc' \in [Runs -> Labels]
        BY <4>2 DEF TypeOK, Labels
      <4> QED
        BY <3>1, <4>1, <4>3 DEF TypeOK
    <3>3. CASE ~LastFile(r)
      <4>1. at[r] + 1 \in DOMAIN Order(job[r]) /\ at[r] + 1 \in Nat
        BY <3>1, <3>3, CurrentType DEF LastFile
      <4>2. at' = [at EXCEPT ![r] = at[r] + 1]
        BY <1>12, <3>3 DEF Persist, NextFile
      <4>3. pc' \in [Runs -> Labels]
        BY <1>12, <3>3, ZenonT(30) DEF Persist, NextFile, Goto, TypeOK, Labels
      <4> QED
        BY <4>1, <4>2, <4>3 DEF TypeOK
    <3> QED
      BY <3>2, <3>3
  <2>3. /\ store' \in [Files -> SUBSET Objects] /\ deployed' \in [Files -> {0} \cup Versions]
        /\ green' \subseteq Files \X Versions /\ dirty' \subseteq Files
    BY <1>12, <2>1 DEF Persist, TypeOK
  <2> QED
    BY <1>12, <2>2, <2>3 DEF Persist, TypeOK
<1>13. ASSUME NEW r \in Runs, PersistRed(r) \/ PersistFails(r)
      PROVE  TypeOK'
  <2>1. Current(r) \in Files /\ local[r][Current(r)] \subseteq Objects
    BY CurrentType DEF TypeOK
  <2>2. hit' \subseteq FaultKinds \X Files /\ accidents' \in 0..MaxAccidents
    BY <1>13, <2>1, BefallsType DEF PersistRed, PersistFails, Accident, TypeOK
  <2>3. store' \in [Files -> SUBSET Objects]
    BY <1>13, <2>1 DEF PersistRed, PersistFails, TypeOK
  <2>4. Finish(r, "failed") /\ UNCHANGED <<live, marker, deployed, green, dirty, alarms>>
    BY <1>13 DEF PersistRed, PersistFails, Accident
  <2> QED
    BY <1>0, <2>2, <2>3, <2>4, FinishType DEF TypeOK
<1>14. ASSUME NEW r \in Runs, Verify(r)
      PROVE  TypeOK'
  <2>1. CASE Finish(r, "failed") /\ UNCHANGED <<world, history>>
    BY <1>0, <2>1, FinishType DEF TypeOK
  <2>2. CASE /\ Goto(r, "marker")
             /\ UNCHANGED <<head, triggered, target, version, job, at, holds,
                            local, plan, red>>
             /\ UNCHANGED <<world, history>>
    BY <1>0, <2>2 DEF Goto, TypeOK
  <2> QED
    BY <1>14, <2>1, <2>2 DEF Verify
<1>15. ASSUME NEW r \in Runs, EmitMarker(r)
      PROVE  TypeOK'
  <2>1. marker' \in [Files -> {0} \cup Versions]
    BY <1>15, CurrentType DEF EmitMarker, TypeOK
  <2>2. UNCHANGED <<store, live, history>>
    BY <1>15 DEF EmitMarker
  <2>3. CASE Finish(r, "done")
    BY <1>0, <2>1, <2>2, <2>3, FinishType DEF TypeOK
  <2>4. CASE /\ ~LastFile(r)
             /\ at' = [at EXCEPT ![r] = @ + 1]
             /\ UNCHANGED <<head, triggered, pc, target, version, job, holds,
                            local, plan, red>>
    <3>1. at[r] + 1 \in DOMAIN Order(job[r])
      BY <2>4, CurrentType, OrderType DEF LastFile, TypeOK, Jobs
    <3> QED
      BY <2>1, <2>2, <2>4, <3>1 DEF TypeOK
  <2>5. CASE /\ Goto(r, "approval")
             /\ holds' = IF Deployer[r] = "github" THEN holds
                         ELSE [holds EXCEPT ![r] = NoLock]
             /\ local' = [local EXCEPT ![r] = NoWork]
             /\ UNCHANGED <<head, triggered, target, version, job, at, plan, red>>
    <3>1. NoWork \in [Files -> SUBSET Objects]
      BY DEF NoWork
    <3> QED
      BY <1>0, <2>1, <2>2, <2>5, <3>1 DEF TypeOK, Goto
  <2> QED
    BY <1>15, <2>3, <2>4, <2>5 DEF EmitMarker
<1>16. ASSUME NEW r \in Runs, CheckDrift(r)
      PROVE  TypeOK'
  <2>1. Current(r) \in Files
    BY CurrentType
  <2>2. hit' \subseteq FaultKinds \X Files /\ accidents' \in 0..MaxAccidents
    BY <1>16, <2>1, BefallsType DEF CheckDrift, TypeOK
  <2>3. alarms' \subseteq Files /\ UNCHANGED <<world, deployed, green, dirty>>
    BY <1>16, <2>1 DEF CheckDrift, TypeOK
  <2>4. CASE Finish(r, IF alarms' = {} THEN "done" ELSE "failed")
    BY <1>0, <2>2, <2>3, <2>4, FinishType DEF TypeOK
  <2>5. CASE /\ ~LastFile(r)
             /\ at' = [at EXCEPT ![r] = @ + 1]
             /\ UNCHANGED <<head, triggered, pc, target, version, job, holds,
                            local, plan, red>>
    <3>1. at[r] + 1 \in DOMAIN Order(job[r])
      BY <2>5, CurrentType, OrderType DEF LastFile, TypeOK, Jobs
    <3> QED
      BY <2>2, <2>3, <2>5, <3>1 DEF TypeOK
  <2> QED
    BY <1>16, <2>4, <2>5 DEF CheckDrift
<1>17. CASE UNCHANGED vars
  BY <1>17 DEF vars, TypeOK
<1> QED
  BY <1>1, <1>2, <1>3, <1>4, <1>5, <1>6, <1>7, <1>8, <1>9, <1>10, <1>11, <1>12,
     <1>13, <1>14, <1>15, <1>16, <1>17 DEF Next, Step, Review

-------------------------------------------------------------------------------
(* Who moves how: the steps of a run, as the queue and the locks see them.  *)

RowSame(s) ==
  /\ pc'[s] = pc[s] /\ job'[s] = job[s] /\ at'[s] = at[s] /\ holds'[s] = holds[s]
  /\ local'[s] = local[s] /\ plan'[s] = plan[s] /\ red'[s] = red[s]

Alone(r) ==
  /\ \A s \in Runs \ {r} : RowSame(s)
  /\ UNCHANGED <<head, triggered, target, version>>

Takes(r, j) ==
  /\ Free(LockOf(r, j)) \/ holds[r] = LockOf(r, j)
  /\ holds'[r] = LockOf(r, j)
  /\ job'[r] = j

Starts(r) ==
  /\ pc[r] = "pending" /\ at'[r] = at[r]
  /\ \A s \in 1..(r - 1) : Deployer[s] = Deployer[r] => pc[s] # "pending"
  /\ \/ pc'[r] = "restore" /\ Takes(r, "nonprod") /\ Free(LockOf(r, "nonprod"))
     \/ pc'[r] = "check" /\ target[r] = "drift" /\ Takes(r, "drift") /\ Free(LockOf(r, "drift"))

Resumes(r) ==
  pc[r] = "approved" /\ pc'[r] = "restore" /\ at'[r] = 1 /\ Takes(r, "production")

\* The next file, or the end of the files, is behind a green one only.
Proceeds(r) ==
  /\ pc[r] = "persist" /\ <<Current(r), version[r]>> \in green'
  /\ \/ ~LastFile(r) /\ pc'[r] = "restore" /\ at'[r] = at[r] + 1
     \/ LastFile(r) /\ pc'[r] \in {"verify", "marker"}

Works(r) ==
  /\ \/ pc[r] \in Working /\ pc'[r] \in Working /\ at'[r] = at[r]
     \/ pc[r] \in {"verify", "marker"} /\ pc'[r] \in {"verify", "marker"}
     \/ pc[r] = "check" /\ pc'[r] = "check"
     \/ Proceeds(r)
  /\ job'[r] = job[r] /\ holds'[r] = holds[r]

Waits(r) ==
  \/ /\ pc[r] = "approval" /\ pc'[r] = "approved"
     /\ job'[r] = job[r] /\ holds'[r] = holds[r]
  \/ /\ pc[r] = "marker" /\ pc'[r] = "approval"
     /\ job[r] = "nonprod" /\ target[r] = "production" /\ job'[r] = job[r]
     /\ holds'[r] = IF Deployer[r] = "github" THEN holds[r] ELSE NoLock

Ends(r) ==
  /\ pc[r] \in Busy \cup {"check", "approval"}
  /\ pc'[r] \in {"done", "failed"}
  /\ holds'[r] = NoLock /\ job'[r] = job[r]

LEMMA FinishMoves ==
  ASSUME TypeOK, NEW r \in Runs, NEW label \in {"done", "failed"}, Finish(r, label),
         pc[r] \in Busy \cup {"check", "approval"}
  PROVE  Alone(r) /\ Ends(r)
BY DEF Finish, Goto, Alone, RowSame, Ends, TypeOK

LEMMA Moves ==
  ASSUME TypeOK, NEW r \in Runs, Step(r) \/ Review(r) \/ RunnerDies(r)
  PROVE  Alone(r) /\ (Starts(r) \/ Resumes(r) \/ Works(r) \/ Waits(r) \/ Ends(r))
<1>1. CASE BeginNonprod(r)
  BY <1>1 DEF BeginNonprod, Dequeue, Goto, Alone, RowSame, Starts, Takes, TypeOK
<1>2. CASE BeginDrift(r)
  BY <1>2 DEF BeginDrift, Dequeue, Goto, Alone, RowSame, Starts, Takes, TypeOK
<1>3. CASE BeginProduction(r)
  BY <1>3 DEF BeginProduction, Goto, Alone, RowSame, Resumes, Takes, TypeOK
<1>4. CASE Approve(r)
  BY <1>4 DEF Approve, Goto, Alone, RowSame, Waits, TypeOK
<1>5. CASE Restore(r) \/ Plan(r)
  BY <1>5 DEF Restore, Plan, Goto, Alone, RowSame, Works, Busy, Working, TypeOK
<1>6. CASE Create(r)
  <2>1. \A s \in Runs \ {r} : local'[s] = local[s] /\ plan'[s] = plan[s]
    <3>1. \E a \in plan[r].create, o \in Objects :
            /\ local' = [local EXCEPT ![r][Current(r)] = @ \cup {o}]
            /\ plan' = [plan EXCEPT ![r] = [plan[r] EXCEPT !.create = plan[r].create \ {a}]]
      BY <1>6, CreateStep
    <3> QED
      BY <3>1 DEF TypeOK
  <2>2. pc[r] = "apply"
        /\ UNCHANGED <<head, triggered, pc, target, version, job, at, holds, red>>
    BY <1>6 DEF Create
  <2> QED
    BY <2>1, <2>2 DEF Alone, RowSame, Works, Working
<1>7. CASE Destroy(r)
  <2>1. \A s \in Runs \ {r} : local'[s] = local[s] /\ plan'[s] = plan[s]
    BY <1>7 DEF Destroy
  <2>2. pc[r] = "apply"
        /\ UNCHANGED <<head, triggered, pc, target, version, job, at, holds, red>>
    BY <1>7 DEF Destroy
  <2> QED
    BY <2>1, <2>2 DEF Alone, RowSame, Works, Working
<1>8. CASE ApplyEnds(r)
  <2>1. \A s \in Runs \ {r} : red'[s] = red[s]
    <3>1. red' = red \/ red' = [red EXCEPT ![r] = TRUE]
      BY <1>8 DEF ApplyEnds
    <3> QED
      BY <3>1 DEF TypeOK
  <2>2. /\ pc[r] = "apply" /\ pc' = [pc EXCEPT ![r] = "persist"]
        /\ UNCHANGED <<head, triggered, target, version, job, at, holds, local, plan>>
    BY <1>8 DEF ApplyEnds, AfterApply, Goto
  <2> QED
    BY <2>1, <2>2 DEF Alone, RowSame, Works, Working, TypeOK
<1>9. CASE Persist(r)
  <2>1. /\ \A s \in Runs \ {r} : pc'[s] = pc[s] /\ at'[s] = at[s]
        /\ \/ ~LastFile(r) /\ pc'[r] = "restore" /\ at'[r] = at[r] + 1
           \/ LastFile(r) /\ pc'[r] \in {"verify", "marker"}
    BY <1>9 DEF Persist, NextFile, Goto, TypeOK
  <2>2. /\ pc[r] = "persist" /\ <<Current(r), version[r]>> \in green'
        /\ UNCHANGED <<head, triggered, target, version, job, holds, local, plan, red>>
    BY <1>9 DEF Persist
  <2> QED
    BY <2>1, <2>2 DEF Alone, RowSame, Works, Proceeds
<1>10. CASE PersistRed(r) \/ PersistFails(r)
  BY <1>10, FinishMoves DEF PersistRed, PersistFails, Busy, Working
<1>11. CASE StepFails(r) \/ RunnerDies(r) \/ Reject(r)
  BY <1>11, FinishMoves DEF StepFails, RunnerDies, Reject, Busy, Working
<1>12. CASE Verify(r)
  <2>1. pc[r] = "verify" /\ pc[r] \in Busy
    BY <1>12 DEF Verify, Busy
  <2>2. CASE Finish(r, "failed")
    BY <2>1, <2>2, FinishMoves
  <2>3. CASE /\ Goto(r, "marker")
             /\ UNCHANGED <<head, triggered, target, version, job, at, holds,
                            local, plan, red>>
    BY <2>1, <2>3 DEF Goto, Alone, RowSame, Works, Busy, TypeOK
  <2> QED
    BY <1>12, <2>2, <2>3 DEF Verify
<1>13. CASE EmitMarker(r)
  <2>1. pc[r] = "marker" /\ pc[r] \in Busy
    BY <1>13 DEF EmitMarker, Busy
  <2>2. CASE Finish(r, "done")
    BY <2>1, <2>2, FinishMoves
  <2>3. CASE /\ at' = [at EXCEPT ![r] = @ + 1]
             /\ UNCHANGED <<head, triggered, pc, target, version, job, holds,
                            local, plan, red>>
    BY <2>1, <2>3 DEF Alone, RowSame, Works
  <2>4. CASE /\ job[r] = "nonprod" /\ target[r] = "production"
             /\ Goto(r, "approval")
             /\ holds' = IF Deployer[r] = "github" THEN holds
                         ELSE [holds EXCEPT ![r] = NoLock]
             /\ local' = [local EXCEPT ![r] = NoWork]
             /\ UNCHANGED <<head, triggered, target, version, job, at, plan, red>>
    BY <2>1, <2>4 DEF Goto, Alone, RowSame, Waits, TypeOK
  <2> QED
    BY <1>13, <2>2, <2>3, <2>4 DEF EmitMarker
<1>14. CASE CheckDrift(r)
  <2>1. pc[r] = "check"
    BY <1>14 DEF CheckDrift
  <2>2. CASE Finish(r, IF alarms' = {} THEN "done" ELSE "failed")
    BY <2>1, <2>2, FinishMoves
  <2>3. CASE /\ at' = [at EXCEPT ![r] = @ + 1]
             /\ UNCHANGED <<head, triggered, pc, target, version, job, holds,
                            local, plan, red>>
    BY <2>1, <2>3 DEF Alone, RowSame, Works
  <2> QED
    BY <1>14, <2>2, <2>3 DEF CheckDrift
<1> QED
  BY <1>1, <1>2, <1>3, <1>4, <1>5, <1>6, <1>7, <1>8, <1>9, <1>10, <1>11, <1>12,
     <1>13, <1>14 DEF Step, Review

\* A trigger puts one run in the queue; others may leave it.
LEMMA Enqueued ==
  ASSUME TypeOK, Queued, NEW r \in Runs, NEW t, NEW v, Enqueue(r, t, v)
  PROVE  /\ r = triggered + 1 /\ triggered' = r
         /\ pc[r] = "new" /\ pc'[r] = "pending" /\ target'[r] = t /\ version'[r] = v
         /\ \A s \in Runs \ {r} :
              /\ target'[s] = target[s] /\ version'[s] = version[s]
              /\ pc'[s] = pc[s] \/ (pc[s] = "pending" /\ pc'[s] = "cancelled")
         /\ UNCHANGED <<job, at, holds, local, plan, red, store, live, marker, deployed,
                        green, dirty, alarms, hit, accidents>>
<1>1. r > triggered
  BY DEF Enqueue, TypeOK
<1> QED
  BY <1>1 DEF Enqueue, Queued, TypeOK, world, history

LEMMA QueuedLocked ==
  ASSUME TypeOK, Queued, Locked, [Next]_vars
  PROVE  Queued' /\ Locked'
<1> USE DEF run, world, history
<1>1. ASSUME NEW r \in Runs, Alone(r),
             Starts(r) \/ Resumes(r) \/ Works(r) \/ Waits(r) \/ Ends(r)
      PROVE  Queued' /\ Locked'
  <2>1. pc[r] \notin {"new", "cancelled"} /\ pc'[r] \notin {"new", "pending"}
    BY <1>1 DEF Starts, Resumes, Works, Proceeds, Waits, Ends, Busy, Working
  <2>2. Queued'
    BY <1>1, <2>1 DEF Queued, Alone, RowSame
  <2>3. /\ pc'[r] \in Busy \cup {"check"} => holds'[r] = LockOf(r, job'[r])
        /\ pc'[r] \in Busy => job'[r] \in {"nonprod", "production"}
        /\ pc'[r] = "check" => job'[r] = "drift" /\ target[r] = "drift"
    <3>1. CASE Starts(r)
      BY <3>1 DEF Starts, Takes, Busy, Working
    <3>2. CASE Resumes(r)
      BY <3>2 DEF Resumes, Takes, Busy, Working
    <3>3. CASE Works(r)
      BY <3>3 DEF Works, Proceeds, Locked, Busy, Working
    <3>4. CASE Waits(r) \/ Ends(r)
      BY <3>4 DEF Waits, Ends, Busy, Working
    <3> QED
      BY <1>1, <3>1, <3>2, <3>3, <3>4
  <2>4. \A s \in Runs \ {r} : holds'[r] = holds[s] => holds[s] = NoLock
    <3>1. CASE Starts(r) \/ Resumes(r)
      BY <3>1 DEF Starts, Resumes, Takes, Free, Locked
    <3>2. CASE Works(r) \/ Waits(r) \/ Ends(r)
      BY <3>2 DEF Works, Waits, Ends, Locked
    <3> QED
      BY <1>1, <3>1, <3>2
  <2>5. Locked'
    BY <1>1, <2>3, <2>4 DEF Locked, Alone, RowSame
  <2> QED
    BY <2>2, <2>5
<1>2. ASSUME NEW r \in Runs, NEW t, NEW v, Enqueue(r, t, v),
             t = "drift" => Deployer[r] = "github"
      PROVE  Queued' /\ Locked'
  <2>1. Queued'
    <3>1. /\ triggered' = triggered + 1 /\ r = triggered' /\ pc'[r] = "pending" /\ pc[r] = "new"
          /\ \A s \in Runs \ {r} : pc'[s] = pc[s] \/ (pc[s] = "pending" /\ pc'[s] = "cancelled")
          /\ at' = at
      BY <1>2, Enqueued
    <3>2. \A s \in Runs : s > triggered' => s > triggered /\ s # r
      BY <3>1 DEF TypeOK, Runs
    <3> QED
      BY <3>1, <3>2 DEF Queued
  <2>2. Locked'
    <3>1. /\ pc'[r] = "pending" /\ target'[r] = t
          /\ \A s \in Runs \ {r} :
              /\ target'[s] = target[s]
              /\ pc'[s] = pc[s] \/ pc'[s] = "cancelled"
          /\ UNCHANGED <<job, holds>>
      BY <1>2, Enqueued
    <3> QED
      BY <1>2, <3>1 DEF Locked, Busy, Working
  <2> QED
    BY <2>1, <2>2
<1>3. ASSUME NEW r \in Runs, Push(r) \/ Dispatch(r) \/ Nightly(r)
      PROVE  Queued' /\ Locked'
  BY <1>2, <1>3 DEF Push, Dispatch, Nightly
<1>4. ASSUME UNCHANGED <<triggered, pc, target, job, at, holds>>
      PROVE  Queued' /\ Locked'
  BY <1>4 DEF Queued, Locked
<1>5. (\E f \in Files : Edit(f)) \/ UNCHANGED vars =>
        UNCHANGED <<triggered, pc, target, job, at, holds>>
  BY DEF Edit, vars
<1> QED
  BY <1>1, <1>3, <1>4, <1>5, Moves DEF Next

-------------------------------------------------------------------------------
(* The order of a promotion.                                               *)

LEMMA GreenGrows ==
  ASSUME [Next]_vars
  PROVE  green \subseteq green'
<1> USE DEF run, world, history
<1>1. ASSUME NEW r \in Runs, Push(r) \/ Dispatch(r) \/ Nightly(r)
      PROVE  green' = green
  BY <1>1 DEF Push, Dispatch, Nightly, Enqueue
<1>2. ASSUME NEW r \in Runs, Step(r)
      PROVE  green \subseteq green'
  BY <1>2 DEF Step, BeginNonprod, BeginProduction, BeginDrift, CheckDrift, Restore, Plan,
              Create, Destroy, ApplyEnds, Persist, PersistRed, PersistFails, StepFails,
              Verify, EmitMarker, Accident
<1>3. ASSUME NEW r \in Runs, Review(r) \/ RunnerDies(r)
      PROVE  green' = green
  BY <1>3 DEF Review, Approve, Reject, RunnerDies, Accident
<1>4. (\E f \in Files : Edit(f)) \/ UNCHANGED vars => green' = green
  BY DEF Edit, Accident, vars
<1> QED
  BY <1>1, <1>2, <1>3, <1>4 DEF Next

LEMMA OrderedStep ==
  ASSUME TypeOK, Queued, Locked, Ordered, [Next]_vars
  PROVE  Ordered'
<1> USE DEF Busy, Working
<1>0. green \subseteq green'
  BY GreenGrows
<1>1. ASSUME NEW s \in Runs, pc'[s] = pc[s], job'[s] = job[s], at'[s] = at[s],
             version'[s] = version[s], target'[s] = target[s]
      PROVE  OrderedRun(s)'
  BY <1>0, <1>1 DEF Ordered, OrderedRun
<1>2. ASSUME NEW r \in Runs, Alone(r),
             Starts(r) \/ Resumes(r) \/ Works(r) \/ Waits(r) \/ Ends(r)
      PROVE  Ordered'
  <2>1. version' = version /\ target' = target /\ OrderedRun(r)
    BY <1>2 DEF Alone, Ordered
  <2>2. ASSUME Starts(r) PROVE OrderedRun(r)'
    <3>1. at'[r] = 1
      BY <2>2 DEF Starts, Queued
    <3> QED
      BY <2>2, <3>1 DEF Starts, Takes, OrderedRun
  <2>3. ASSUME Resumes(r) PROVE OrderedRun(r)'
    BY <1>0, <2>1, <2>3 DEF Resumes, Takes, OrderedRun
  <2>4. ASSUME Waits(r) PROVE OrderedRun(r)'
    <3>1. Order("nonprod") = Nonprod
      BY DEF Order
    <3> QED
      BY <1>0, <2>1, <2>4, <3>1 DEF Waits, OrderedRun
  <2>5. ASSUME Ends(r) PROVE OrderedRun(r)'
    BY <2>5 DEF Ends, OrderedRun
  <2>6. ASSUME Works(r) /\ ~Proceeds(r) PROVE OrderedRun(r)'
    BY <1>0, <2>1, <2>6 DEF Works, OrderedRun
  <2>7. ASSUME Works(r) /\ Proceeds(r) PROVE OrderedRun(r)'
    <3>1. /\ <<Order(job[r])[at[r]], version[r]>> \in green'
          /\ \A i \in 1..(at[r] - 1) : <<Order(job[r])[i], version[r]>> \in green'
      BY <1>0, <2>1, <2>7 DEF Proceeds, Current, OrderedRun
    <3>2. \A i \in 1..at[r] : <<Order(job[r])[i], version[r]>> \in green'
      <4>1. \A i \in 1..at[r] : i = at[r] \/ i \in 1..(at[r] - 1)
        BY CurrentType
      <4> QED
        BY <3>1, <4>1
    <3>3. ~LastFile(r) /\ pc'[r] = "restore" => at'[r] - 1 = at[r]
      BY <2>7, CurrentType DEF Proceeds
    <3>4. LastFile(r) => DOMAIN Order(job[r]) = 1..at[r]
      BY CurrentType, OrderType DEF LastFile, TypeOK, Jobs
    <3>5. pc[r] \in Busy /\ job[r] = "production" =>
            /\ target[r] = "production"
            /\ \A i \in DOMAIN Nonprod : <<Nonprod[i], version[r]>> \in green'
      BY <1>0, <2>1 DEF OrderedRun
    <3> QED
      BY <2>1, <2>7, <3>2, <3>3, <3>4, <3>5 DEF Works, Proceeds, OrderedRun
  <2>8. \A s \in Runs \ {r} : OrderedRun(s)'
    BY <1>1, <1>2 DEF Alone, RowSame
  <2> QED
    BY <1>2, <2>2, <2>3, <2>4, <2>5, <2>6, <2>7, <2>8 DEF Ordered
<1>3. ASSUME NEW r \in Runs, NEW t, NEW v, Enqueue(r, t, v)
      PROVE  Ordered'
  <2>1. /\ pc'[r] = "pending" /\ job' = job /\ at' = at
        /\ \A s \in Runs \ {r} :
             /\ target'[s] = target[s] /\ version'[s] = version[s]
             /\ pc'[s] = pc[s] \/ pc'[s] = "cancelled"
    BY <1>3, Enqueued
  <2>2. ASSUME NEW s \in Runs, pc'[s] \in {"pending", "cancelled"}
        PROVE  OrderedRun(s)'
    BY <2>2 DEF OrderedRun
  <2>3. \A s \in Runs \ {r} : OrderedRun(s)'
    BY <1>1, <2>1, <2>2
  <2> QED
    BY <2>1, <2>2, <2>3 DEF Ordered
<1>4. CASE UNCHANGED <<pc, job, at, version, target>>
  BY <1>1, <1>4 DEF Ordered
<1>5. (\E f \in Files : Edit(f)) \/ UNCHANGED vars => UNCHANGED <<pc, job, at, version, target>>
  BY DEF Edit, vars, run
<1>6. ASSUME NEW r \in Runs, Push(r) \/ Dispatch(r) \/ Nightly(r)
      PROVE  Ordered'
  BY <1>3, <1>6 DEF Push, Dispatch, Nightly
<1> QED
  BY <1>2, <1>4, <1>5, <1>6, Moves DEF Next

LEMMA BaseInit == Init => Base
<1> SUFFICES ASSUME Init PROVE Base
  OBVIOUS
<1>1. /\ \A r \in Runs : pc[r] = "new" /\ at[r] = 1 /\ holds[r] = NoLock /\ target[r] = "nonprod"
  BY DEF Init
<1> QED
  BY <1>1, TypeInit DEF Base, Queued, Locked, Ordered, OrderedRun, Busy, Working

LEMMA BaseStep == Base /\ [Next]_vars => Base'
BY TypeStep, QueuedLocked, OrderedStep DEF Base

LEMMA BaseHolds == Spec => []Base
<1> QED
  BY BaseInit, BaseStep, PTL DEF Spec

\* The pipeline's state is well typed, whatever its locks and its faults.
THEOREM TypeCorrect == Spec => []TypeOK
<1>1. Base => TypeOK
  BY DEF Base
<1> QED
  BY <1>1, BaseHolds, PTL

\* deploy.yml, its loops and needs: with any number of runs and any locks, a run
\* is never at work on a file before its version is green in all before it.
THEOREM PromotionOrderHolds == Spec => []PromotionOrder
<1>1. Base => PromotionOrder
  BY DEF Base, Ordered, OrderedRun, PromotionOrder, Busy
<1> QED
  BY <1>1, BaseHolds, PTL

-------------------------------------------------------------------------------
(* The queue of the GitHub group.                                          *)

LEMMA InTurnInit == Init => InTurn
<1> SUFFICES ASSUME Init PROVE InTurn
  OBVIOUS
<1>1. \A r \in Runs : pc[r] = "new" /\ holds[r] = NoLock /\ ~Started(r) /\ holds[r] # "tfstate"
  BY DEF Init, Started, NoLock
<1>2. \A r \in Runs : ~(r <= triggered)
  BY DEF Init, Runs
<1>3. \A f \in Files : deployed[f] = 0
  BY DEF Init
<1> QED
  BY <1>1, <1>2, <1>3 DEF InTurn

LEMMA DeployedStep ==
  ASSUME Base, [Next]_vars, NEW f \in Files, deployed'[f] # deployed[f]
  PROVE  \E r \in Runs : pc[r] = "persist" /\ deployed'[f] = version[r] /\ Alone(r) /\ Works(r)
<1> USE DEF run, world, history
<1>1. ASSUME NEW r \in Runs, Persist(r)
      PROVE  \E q \in Runs : pc[q] = "persist" /\ deployed'[f] = version[q] /\ Alone(q) /\ Works(q)
  <2>1. deployed' = [deployed EXCEPT ![Current(r)] = version[r]] /\ pc[r] = "persist"
    BY <1>1 DEF Persist
  <2>2. deployed'[f] = version[r]
    BY <2>1 DEF Base, TypeOK
  <2>3. Alone(r) /\ (Starts(r) \/ Resumes(r) \/ Works(r) \/ Waits(r) \/ Ends(r))
    BY <1>1, Moves DEF Step, Base
  <2>4. pc'[r] \notin {"done", "failed"}
    BY <1>1 DEF Persist, NextFile, Goto, Base, TypeOK
  <2> QED
    BY <2>1, <2>2, <2>3, <2>4 DEF Starts, Resumes, Waits, Ends
<1>2. ASSUME NEW r \in Runs, Push(r) \/ Dispatch(r) \/ Nightly(r)
      PROVE  deployed' = deployed
  BY <1>2 DEF Push, Dispatch, Nightly, Enqueue
<1>3. ASSUME NEW r \in Runs, Step(r), ~Persist(r)
      PROVE  deployed' = deployed
  BY <1>3 DEF Step, BeginNonprod, BeginProduction, BeginDrift, CheckDrift, Restore, Plan,
              Create, Destroy, ApplyEnds, PersistRed, PersistFails, StepFails,
              Verify, EmitMarker, Accident
<1>4. ASSUME NEW r \in Runs, Review(r) \/ RunnerDies(r)
      PROVE  deployed' = deployed
  BY <1>4 DEF Review, Approve, Reject, RunnerDies, Accident
<1>5. (\E g \in Files : Edit(g)) \/ UNCHANGED vars => deployed' = deployed
  BY DEF Edit, Accident, vars
<1> QED
  BY <1>1, <1>2, <1>3, <1>4, <1>5 DEF Next

LEMMA InTurnStep ==
  ASSUME AllGitHub, Base, InTurn, [Next]_vars
  PROVE  InTurn'
<1> USE DEF run, world, history
<1>1. TypeOK /\ Queued /\ Locked
  BY DEF Base
<1>2. \A r \in Runs, j \in Jobs : LockOf(r, j) = "tfstate"
  BY DEF AllGitHub, LockOf
<1>3. /\ Runs \subseteq Nat /\ head \in Nat /\ triggered \in Nat
      /\ \A r \in Runs : version[r] \in Nat
      /\ \A f \in Files : deployed[f] \in Nat
  BY <1>1 DEF Runs, TypeOK, Versions
<1>4. \A f \in Files : deployed[f] = 0 \/ \E r \in Runs : Started(r) /\ deployed[f] <= version[r]
  BY DEF InTurn
<1>5. ASSUME NEW r \in Runs, Alone(r),
             Starts(r) \/ Resumes(r) \/ Works(r) \/ Waits(r) \/ Ends(r)
      PROVE  InTurn'
  <2>1. UNCHANGED <<head, triggered, version>>
    BY <1>5 DEF Alone
  <2>2. /\ pc[r] = "pending" \/ Started(r)
        /\ Started(r)' /\ pc'[r] # "pending"
    BY <1>5 DEF Starts, Resumes, Works, Proceeds, Waits, Ends, Started, Busy, Working
  <2>3. holds'[r] \in {NoLock, "tfstate"}
    BY <1>2, <1>5 DEF Starts, Resumes, Takes, Works, Waits, Ends, InTurn, Jobs
  <2>4. pc'[r] \in {"approval", "approved"} => holds'[r] = "tfstate"
    <3>1. CASE Waits(r)
      <4>1. Deployer[r] = "github"
        BY DEF AllGitHub
      <4>2. pc[r] = "marker" => holds[r] = "tfstate"
        BY <1>1, <1>2 DEF Locked, Busy, TypeOK, Jobs
      <4> QED
        BY <3>1, <4>1, <4>2 DEF Waits, InTurn
    <3> QED
      BY <1>5, <3>1 DEF Starts, Resumes, Works, Proceeds, Ends, Busy, Working
  <2>5. \A s \in Runs \ {r} :
          /\ pc'[s] = pc[s] /\ holds'[s] = holds[s] /\ (Started(s)' <=> Started(s))
    BY <1>5 DEF Alone, RowSame, Started
  <2>6. \A s \in Runs : pc'[s] = "pending" => r < s
    <3>1. CASE pc[r] = "pending"
      <4>1. \A s \in 1..(r - 1) : pc[s] # "pending"
        <5>1. Starts(r)
          BY <1>5, <3>1 DEF Resumes, Works, Proceeds, Waits, Ends, Busy, Working
        <5>2. 1..(r - 1) \subseteq Runs
          BY BoundsAssumption DEF Runs
        <5> QED
          BY <5>1, <5>2 DEF Starts, AllGitHub
      <4>2. \A s \in Runs : s # r /\ ~(r < s) => s \in 1..(r - 1)
        BY DEF Runs
      <4> QED
        BY <2>2, <2>5, <4>1, <4>2
    <3>2. CASE Started(r)
      BY <2>2, <2>5, <3>2 DEF InTurn
    <3> QED
      BY <2>2, <3>1, <3>2
  <2>7. \A s \in Runs : Started(s) => s <= r \/ holds'[r] # "tfstate"
    <3>1. CASE pc[r] = "pending"
      BY <1>3, <3>1 DEF InTurn
    <3>2. CASE Started(r) /\ holds[r] = "tfstate"
      BY <3>2 DEF InTurn
    <3>3. CASE Started(r) /\ holds[r] # "tfstate"
      <4>1. ~Starts(r) /\ ~Resumes(r)
        BY <3>3 DEF Starts, Resumes, Started, InTurn
      <4>2. holds'[r] # "tfstate"
        BY <1>5, <3>3, <4>1 DEF Works, Waits, Ends, InTurn, NoLock
      <4> QED
        BY <4>2
    <3> QED
      BY <2>2, <3>1, <3>2, <3>3
  <2>8. \A s \in Runs \ {r} : holds'[s] = "tfstate" => r <= s
    <3>1. CASE pc[r] = "pending"
      <4>1. Starts(r)
        BY <1>5, <3>1 DEF Resumes, Works, Proceeds, Waits, Ends, Busy, Working
      <4>2. Free("tfstate")
        BY <1>2, <4>1 DEF Starts, Jobs
      <4> QED
        BY <2>5, <4>2 DEF Free
    <3>2. CASE Started(r)
      BY <2>5, <3>2 DEF InTurn
    <3> QED
      BY <2>2, <3>1, <3>2
  <2>9. \A g \in Files : deployed'[g] = 0 \/ \E q \in Runs : Started(q)' /\ deployed'[g] <= version[q]
    <3> SUFFICES ASSUME NEW g \in Files
                 PROVE  deployed'[g] = 0 \/ \E q \in Runs : Started(q)' /\ deployed'[g] <= version[q]
      OBVIOUS
    <3>1. CASE deployed'[g] = deployed[g]
      BY <1>4, <2>2, <2>5, <3>1
    <3>2. CASE deployed'[g] # deployed[g]
      <4>1. PICK q \in Runs : pc[q] = "persist" /\ deployed'[g] = version[q] /\ Works(q)
        BY <3>2, DeployedStep
      <4>2. Started(q)' /\ deployed'[g] <= version[q]
        BY <1>3, <2>2, <2>5, <4>1 DEF Started
      <4> QED
        BY <4>2
    <3> QED
      BY <3>1, <3>2
  <2> QED
    BY <2>1, <2>2, <2>3, <2>4, <2>5, <2>6, <2>7, <2>8, <2>9, <1>3 DEF InTurn
<1>6. ASSUME NEW r \in Runs, NEW t, NEW v \in {head, head + 1}, Enqueue(r, t, v),
             head' \in {head, head + 1}, v <= head'
      PROVE  InTurn'
  <2>1. /\ r = triggered + 1 /\ triggered' = r /\ version'[r] = v
        /\ pc[r] = "new" /\ pc'[r] = "pending"
        /\ \A s \in Runs \ {r} :
              /\ version'[s] = version[s]
              /\ pc'[s] = pc[s] \/ (pc[s] = "pending" /\ pc'[s] = "cancelled")
        /\ UNCHANGED <<holds, deployed>>
    BY <1>1, <1>6, Enqueued
  <2>2. \A s \in Runs : (Started(s)' <=> Started(s)) /\ (Started(s) => s <= triggered /\ s # r)
    BY <1>1, <1>3, <2>1 DEF Started, Queued
  <2>3. \A s \in Runs : s <= triggered' => s = r \/ s <= triggered
    BY <1>3, <2>1
  <2>4. /\ \A s \in Runs : s <= triggered' => version'[s] <= head'
        /\ \A q, s \in Runs : q <= s /\ s <= triggered' => version'[q] <= version'[s]
    <3>1. \A s \in Runs \ {r} : s <= triggered' => s <= triggered /\ version'[s] <= head /\ version'[s] <= v
      BY <1>3, <1>6, <2>1, <2>3 DEF InTurn
    <3> QED
      BY <1>3, <1>6, <2>1, <3>1 DEF InTurn
  <2>5. \A s \in Runs : pc'[s] \in {"approval", "approved", "pending"} => s = r \/ pc[s] = pc'[s]
    BY <2>1
  <2>6. \A q, s \in Runs : Started(q)' /\ pc'[s] = "pending" => q < s
    BY <1>3, <2>1, <2>2, <2>5 DEF InTurn
  <2>7. \A f \in Files : deployed'[f] = 0 \/ \E q \in Runs : Started(q)' /\ deployed'[f] <= version'[q]
    BY <1>4, <2>1, <2>2
  <2> QED
    BY <2>1, <2>2, <2>4, <2>5, <2>6, <2>7 DEF InTurn
<1>7. ASSUME NEW r \in Runs, Push(r) \/ Dispatch(r) \/ Nightly(r)
      PROVE  InTurn'
  BY <1>3, <1>6, <1>7 DEF Push, Dispatch, Nightly
<1>8. CASE UNCHANGED <<head, triggered, pc, version, holds, deployed>>
  BY <1>8 DEF InTurn, Started
<1>9. (\E f \in Files : Edit(f)) \/ UNCHANGED vars =>
        UNCHANGED <<head, triggered, pc, version, holds, deployed>>
  BY DEF Edit, Accident, vars
<1> QED
  BY <1>1, <1>5, <1>7, <1>8, <1>9, Moves DEF Next

\* deploy.yml, concurrency: tfstate: with GitHub for all deployments, what is
\* live in a file is never older than what it was.
THEOREM NoRollbackHolds ==
  ASSUME AllGitHub
  PROVE  Spec => NoRollback
<1>1. Init => Base /\ InTurn
  BY BaseInit, InTurnInit
<1>2. Base /\ InTurn /\ [Next]_vars => Base' /\ InTurn'
  BY BaseStep, InTurnStep
<1>3. Base /\ InTurn /\ [Next]_vars => [\A f \in Files : deployed'[f] >= deployed[f]]_vars
  <2> SUFFICES ASSUME Base, InTurn, [Next]_vars, NEW f \in Files, deployed'[f] # deployed[f]
               PROVE  deployed'[f] >= deployed[f]
    BY DEF Base, TypeOK, Versions
  <2>1. PICK r \in Runs : pc[r] = "persist" /\ deployed'[f] = version[r]
    BY DeployedStep
  <2>2. holds[r] = "tfstate" /\ r <= triggered
    BY <2>1 DEF Base, Locked, Queued, Busy, Working, AllGitHub, LockOf, TypeOK, Runs
  <2>3. \A q \in Runs : Started(q) => version[q] <= version[r]
    BY <2>2 DEF InTurn
  <2>4. \A q \in Runs : version[q] \in Nat
    BY DEF Base, TypeOK, Versions
  <2>5. deployed[f] \in Nat
    BY DEF Base, TypeOK, Versions
  <2> QED
    BY <2>1, <2>3, <2>4, <2>5 DEF InTurn
<1> QED
  BY <1>1, <1>2, <1>3, PTL DEF Spec, NoRollback

-------------------------------------------------------------------------------
(* State files and their estate.                                           *)

\* Two runs at work never share a file.
LEMMA Exclusion ==
  ASSUME OneLockPerFile, Base, NEW r \in Runs, NEW s \in Runs, NEW f \in Files,
         pc[r] \in Busy, pc[s] \in Busy, InOrder(f, job[r]), InOrder(f, job[s])
  PROVE  r = s
<1>1. /\ holds[r] = LockOf(r, job[r]) /\ holds[s] = LockOf(s, job[s])
      /\ job[r] \in {"nonprod", "production"} /\ job[s] \in {"nonprod", "production"}
  BY DEF Base, Locked
<1>2. LockOf(r, job[r]) = LockOf(s, job[s])
  BY <1>1 DEF OneLockPerFile
<1>3. LockOf(r, job[r]) # NoLock
  BY <1>1 DEF LockOf, NoLock
<1> QED
  BY <1>1, <1>2, <1>3 DEF Base, Locked

LEMMA InOwnOrder ==
  ASSUME TypeOK, NEW r \in Runs
  PROVE  /\ InOrder(Current(r), job[r])
         /\ \A i \in DOMAIN Order(job[r]) : InOrder(Order(job[r])[i], job[r])
         /\ \A i \in 1..(at[r] - 1) : i \in DOMAIN Order(job[r])
<1>1. at[r] \in DOMAIN Order(job[r]) /\ DOMAIN Order(job[r]) = 1..Len(Order(job[r]))
  BY CurrentType, OrderType DEF TypeOK, Jobs
<1> QED
  BY <1>1, CurrentType DEF InOrder, Current

LEMMA PlanOfCovers ==
  ASSUME NEW state, NEW f \in Files, NEW v \in Versions
  PROVE  PlanCovers(PlanOf(state, f, v), state \cap live[f], Desired[v][f])
BY DEF PlanCovers, PlanOf, Addrs

LEMMA CreateCovers ==
  ASSUME NEW p \in [create: SUBSET Addresses, destroy: SUBSET Objects],
         NEW objects, NEW wanted, PlanCovers(p, objects, wanted),
         NEW a \in p.create, NEW o, o.addr = a
  PROVE  PlanCovers([p EXCEPT !.create = p.create \ {a}], objects \cup {o}, wanted)
<1> DEFINE q == [p EXCEPT !.create = p.create \ {a}]
<1>1. q.create = p.create \ {a} /\ q.destroy = p.destroy
  OBVIOUS
<1> HIDE DEF q
<1>2. PlanCovers(q, objects \cup {o}, wanted)
  BY <1>1 DEF PlanCovers, Addrs
<1> QED
  BY <1>2 DEF q

LEMMA DestroyCovers ==
  ASSUME NEW p \in [create: SUBSET Addresses, destroy: SUBSET Objects],
         NEW objects, NEW wanted, PlanCovers(p, objects, wanted), NEW o \in p.destroy
  PROVE  PlanCovers([p EXCEPT !.destroy = p.destroy \ {o}], objects \ {o}, wanted)
<1> DEFINE q == [p EXCEPT !.destroy = p.destroy \ {o}]
<1>1. q.create = p.create /\ q.destroy = p.destroy \ {o}
  OBVIOUS
<1> HIDE DEF q
<1>2. PlanCovers(q, objects \ {o}, wanted)
  BY <1>1 DEF PlanCovers, Addrs
<1> QED
  BY <1>2 DEF q

LEMMA DoneCovers ==
  ASSUME NEW objects, NEW wanted, PlanCovers(NoPlan, objects, wanted)
  PROVE  Addrs(objects) = wanted
BY DEF PlanCovers, NoPlan, Addrs

LEMMA FileInit == Init => FileInv
<1> SUFFICES ASSUME Init PROVE FileInv
  OBVIOUS
<1>1. \A f \in Files : store[f] = {} /\ live[f] = {} /\ deployed[f] = 0
  BY DEF Init, NoWork
<1>2. \A r \in Runs : pc[r] = "new"
  BY DEF Init
<1> QED
  BY <1>1, <1>2 DEF FileInv, Tracked, TrackedFile, Clean, CleanFile, Planned, PlannedRun,
                    Settled, SettledRun, Acting, Working

\* What a run sees of a step that works on none of its files.
Unmoved(s) == RowSame(s) /\ version'[s] = version[s]

\* A run that is not at work on a file now, nor was when it left one -- unless
\* an accident took that one from its state.
Passes(s) ==
  /\ pc'[s] \notin {"plan", "apply", "persist"}
  /\ pc[s] \in Acting => \A f \in Files : On(s, f) => Apart(f)'
  /\ pc'[s] \in Working => at'[s] = 1
  /\ pc'[s] \in {"verify", "marker"} =>
       pc[s] \in {"verify", "marker"} /\ job'[s] = job[s] /\ version'[s] = version[s]

\* A step that leaves the files alone.
LEMMA Quiet ==
  ASSUME FileInv, UNCHANGED <<store, live, deployed, dirty>>, hit \subseteq hit',
         \A s \in Runs : Unmoved(s) \/ Passes(s)
  PROVE  FileInv'
<1>1. \A f \in Files : /\ Apart(f) => Apart(f)'
                       /\ Edited(f) => Edited(f)'
  BY DEF Apart, Edited
<1>2. \A s \in Runs : Unmoved(s) => Current(s)' = Current(s)
  BY DEF Unmoved, RowSame, Current
<1>3. ASSUME NEW f \in Files
      PROVE  TrackedFile(f)'
  <2> SUFFICES ASSUME ~Apart(f)' PROVE TrackedFile(f)'
    BY DEF TrackedFile
  <2>1. TrackedFile(f) /\ ~Apart(f)
    BY <1>1 DEF FileInv, Tracked
  <2>2. \A s \in Runs : pc'[s] \in {"plan", "apply", "persist"} =>
          /\ pc'[s] = pc[s] /\ local'[s] = local[s] /\ plan'[s] = plan[s]
          /\ On(s, f)' <=> On(s, f)
    BY <1>2 DEF Unmoved, RowSame, Passes, On
  <2>3. \A s \in Runs : pc[s] \in Acting /\ On(s, f) => pc'[s] \in Acting /\ On(s, f)'
    BY <1>2 DEF Unmoved, RowSame, Passes, On
  <2> QED
    BY <2>1, <2>2, <2>3 DEF TrackedFile, Acting
<1>4. ASSUME NEW f \in Files
      PROVE  CleanFile(f)'
  <2>1. \A s \in Runs : pc'[s] \in Acting =>
          /\ pc'[s] = pc[s] /\ local'[s] = local[s] /\ plan'[s] = plan[s]
          /\ On(s, f)' <=> On(s, f)
    BY <1>2 DEF Unmoved, RowSame, Passes, On, Acting
  <2> QED
    BY <1>1, <2>1 DEF FileInv, Clean, CleanFile
<1>5. ASSUME NEW s \in Runs
      PROVE  PlannedRun(s)'
  BY <1>1, <1>2 DEF FileInv, Planned, PlannedRun, Unmoved, RowSame, Passes, Acting, Edited
<1>6. \A f, v : Holds(f, v) => Holds(f, v)'
  BY DEF Holds, Edited
<1>7. ASSUME NEW s \in Runs
      PROVE  SettledRun(s)'
  <2>1. CASE Unmoved(s)
    BY <1>6, <2>1 DEF FileInv, Settled, SettledRun, Unmoved, RowSame
  <2>2. CASE Passes(s)
    BY <1>6, <2>2 DEF FileInv, Settled, SettledRun, Passes
  <2> QED
    BY <2>1, <2>2
<1> QED
  BY <1>3, <1>4, <1>5, <1>7 DEF FileInv, Tracked, Clean, Planned, Settled

\* What a step of run r on its file cannot reach: the other files and the runs
\* at work on them.
LEMMA Elsewhere ==
  ASSUME OneLockPerFile, Base, Base', FileInv, NEW r \in Runs, pc[r] \in Working, Alone(r),
         NEW g, g = Current(r), hit \subseteq hit',
         \A f \in Files \ {g} :
           /\ store'[f] = store[f] /\ live'[f] = live[f] /\ deployed'[f] = deployed[f]
           /\ (f \in dirty') <=> (f \in dirty),
         pc'[r] \in {"plan", "apply", "persist"} => Current(r)' = g
  PROVE  /\ \A f \in Files \ {g} : TrackedFile(f)' /\ CleanFile(f)'
         /\ \A s \in Runs \ {r} : PlannedRun(s)' /\ SettledRun(s)'
         /\ \A s \in Runs \ {r} : pc[s] \in Busy => ~On(s, g)
         /\ \A s \in Runs \ {r} : pc'[s] \in Busy => ~On(s, g)'
<1>1. g \in Files /\ InOrder(g, job[r]) /\ pc[r] \in Busy
  BY CurrentType, InOwnOrder DEF Base, Busy
<1>2. \A s \in Runs \ {r} : pc[s] \in Busy => ~InOrder(g, job[s])
  BY <1>1, Exclusion
<1>3. \A s \in Runs \ {r} : /\ pc'[s] = pc[s] /\ local'[s] = local[s] /\ plan'[s] = plan[s]
                            /\ red'[s] = red[s] /\ job'[s] = job[s] /\ at'[s] = at[s]
                            /\ version'[s] = version[s] /\ Current(s)' = Current(s)
  BY DEF Alone, RowSame, Current
<1>4. \A s \in Runs \ {r} : pc[s] \in Busy => Current(s) # g
  BY <1>2, InOwnOrder DEF Base
<1>5. \A f \in Files : /\ Apart(f) => Apart(f)'
                       /\ Edited(f) => Edited(f)'
  BY DEF Apart, Edited
<1>6. ASSUME NEW f \in Files \ {g}
      PROVE  TrackedFile(f)' /\ CleanFile(f)'
  <2>1. \A s \in Runs : pc'[s] \in {"plan", "apply", "persist"} /\ On(s, f)' =>
          /\ pc'[s] = pc[s] /\ local'[s] = local[s] /\ plan'[s] = plan[s] /\ On(s, f)
    BY <1>3 DEF On
  <2>2. \A s \in Runs : pc[s] \in Acting /\ On(s, f) => pc'[s] \in Acting /\ On(s, f)'
    BY <1>3 DEF On
  <2>3. TrackedFile(f) /\ CleanFile(f)
    BY DEF FileInv, Tracked, Clean
  <2>4. TrackedFile(f)'
    BY <1>5, <2>1, <2>2, <2>3 DEF TrackedFile, Acting
  <2>5. CleanFile(f)'
    BY <1>5, <2>1, <2>3 DEF CleanFile, Acting
  <2> QED
    BY <2>4, <2>5
<1>7. ASSUME NEW s \in Runs \ {r}
      PROVE  PlannedRun(s)'
  <2> SUFFICES ASSUME pc[s] \in Acting PROVE PlannedRun(s)'
    BY <1>3 DEF PlannedRun
  <2>1. pc[s] \in Busy /\ Current(s) \in Files
    BY CurrentType DEF Base, Busy, Working, Acting
  <2> QED
    BY <1>3, <1>4, <1>5, <2>1 DEF FileInv, Planned, PlannedRun
<1>8. ASSUME NEW s \in Runs \ {r}
      PROVE  SettledRun(s)'
  <2> SUFFICES ASSUME pc[s] \in Busy PROVE SettledRun(s)'
    BY <1>3 DEF SettledRun, Busy
  <2>1. ASSUME NEW i \in DOMAIN Order(job[s]), Holds(Order(job[s])[i], version[s])
        PROVE  Holds(Order(job[s])[i], version[s])'
    <3>1. Order(job[s])[i] # g /\ Order(job[s])[i] \in Files
      BY <1>2, InOwnOrder, CurrentType DEF Base
    <3> QED
      BY <1>3, <1>5, <2>1, <3>1 DEF Holds
  <2>2. \A i \in 1..(at[s] - 1) : i \in DOMAIN Order(job[s])
    BY InOwnOrder DEF Base
  <2> QED
    BY <1>3, <2>1, <2>2 DEF FileInv, Settled, SettledRun
<1> QED
  BY <1>3, <1>4, <1>6, <1>7, <1>8 DEF On

LEMMA RestoreFiles ==
  ASSUME OneLockPerFile, Base, Base', FileInv, NEW r \in Runs, Restore(r)
  PROVE  FileInv'
<1> USE DEF world, history
<1>0. PICK g \in Files : g = Current(r)
  BY CurrentType DEF Base
<1>1. /\ pc[r] = "restore" /\ pc'[r] = "plan" /\ pc[r] \in Working /\ Alone(r)
      /\ UNCHANGED <<version, job, at, plan, red, store, live, deployed, dirty>>
      /\ hit \subseteq hit' /\ (local'[r][g] = store[g] \/ Apart(g)')
  <2>2. Alone(r)
    BY Moves DEF Step, Base
  <2>3. pc[r] = "restore" /\ pc'[r] = "plan"
    BY DEF Restore, Goto, Base, TypeOK
  <2>4. UNCHANGED <<version, job, at, plan, red, store, live, deployed, dirty>>
    BY DEF Restore, Accident
  <2>5. hit \subseteq hit' /\ (local' = [local EXCEPT ![r][g] = store[g]] \/ Apart(g)')
    <3>1. CASE local' = [local EXCEPT ![r][g] = store[g]] /\ UNCHANGED history
      BY <3>1
    <3>2. CASE Accident("fetch", g)
      BY <3>2 DEF Accident, Befalls, Apart
    <3> QED
      BY <1>0, <3>1, <3>2 DEF Restore
  <2> QED
    BY <2>2, <2>3, <2>4, <2>5 DEF Working, Base, TypeOK
<1>2. Current(r)' = g
  BY <1>0, <1>1 DEF Current
<1>3. /\ \A f \in Files \ {g} : TrackedFile(f)' /\ CleanFile(f)'
      /\ \A s \in Runs \ {r} : PlannedRun(s)' /\ SettledRun(s)'
      /\ \A s \in Runs \ {r} : pc[s] \in Busy => ~On(s, g)
      /\ \A s \in Runs \ {r} : pc'[s] \in Busy => ~On(s, g)'
  BY <1>0, <1>1, <1>2, Elsewhere
<1>4. \A s \in Runs : pc[s] \in Acting => ~On(s, g)
  BY <1>1, <1>3 DEF Acting, Busy, Working
<1>5. \A s \in Runs : pc'[s] \in Acting => ~On(s, g)'
  BY <1>1, <1>3 DEF Acting, Busy, Working
<1>6. (Apart(g) => Apart(g)') /\ (Edited(g) => Edited(g)')
  BY <1>1 DEF Apart, Edited
<1>7. TrackedFile(g)'
  <2>1. \A s \in Runs : pc'[s] = "plan" /\ On(s, g)' => s = r
    BY <1>3 DEF Busy, Working
  <2> QED
    BY <1>1, <1>2, <1>4, <1>5, <1>6, <2>1 DEF FileInv, Tracked, TrackedFile, Acting
<1>8. CleanFile(g)'
  BY <1>1, <1>2, <1>5, <1>6 DEF FileInv, Clean, CleanFile
<1>9. PlannedRun(r)'
  BY <1>1 DEF PlannedRun, Acting
<1>10. SettledRun(r)'
  <2>1. \A f, v : Holds(f, v) => Holds(f, v)'
    BY <1>1 DEF Holds, Edited
  <2> QED
    BY <1>1, <2>1 DEF FileInv, Settled, SettledRun
<1> QED
  BY <1>3, <1>7, <1>8, <1>9, <1>10 DEF FileInv, Tracked, Clean, Planned, Settled

LEMMA PlanFiles ==
  ASSUME OneLockPerFile, Base, Base', FileInv, NEW r \in Runs, Plan(r)
  PROVE  FileInv'
<1>g. PICK g \in Files : g = Current(r)
  BY CurrentType DEF Base
<1> DEFINE w == PlanOf(local[r][g], g, version[r])
<1>0. TypeOK
  BY DEF Base
<1>1. /\ pc[r] = "plan" /\ pc'[r] = "apply" /\ pc[r] \in Working
      /\ UNCHANGED <<version, job, at, store, live, deployed, hit>>
  BY <1>0 DEF Plan, Goto, Working, world, TypeOK
<1>2. Current(r)' = g /\ version[r] \in Versions
  BY <1>0, <1>1, <1>g DEF Current, TypeOK
<1>3. /\ plan'[r] = w /\ local'[r][g] = local[r][g] \cap live[g]
      /\ dirty' = IF w = NoPlan THEN dirty ELSE dirty \cup {g}
  BY <1>0, <1>g DEF Plan, TypeOK
<1>4. PlanCovers(w, local[r][g] \cap live[g], Desired[version[r]][g])
  BY <1>2, PlanOfCovers
<1>5. w.create = Desired[version[r]][g] \ Addrs(local[r][g] \cap live[g])
  BY DEF PlanOf
<1>6. Alone(r)
  BY <1>0, Moves DEF Step
<1> HIDE DEF w
<1>7. /\ \A f \in Files \ {g} : TrackedFile(f)' /\ CleanFile(f)'
      /\ \A s \in Runs \ {r} : PlannedRun(s)' /\ SettledRun(s)'
      /\ \A s \in Runs \ {r} : pc[s] \in Busy => ~On(s, g)
      /\ \A s \in Runs \ {r} : pc'[s] \in Busy => ~On(s, g)'
  BY <1>1, <1>2, <1>3, <1>6, <1>g, Elsewhere
<1>8. /\ \A s \in Runs : pc[s] \in Acting => ~On(s, g)
      /\ \A s \in Runs : pc'[s] \in {"plan", "apply", "persist"} /\ On(s, g)' => s = r
      /\ On(r, g) /\ On(r, g)'
  BY <1>1, <1>2, <1>7, <1>g DEF Acting, Busy, Working, On
<1>9. /\ \A f : Apart(f)' <=> Apart(f)
      /\ \A f : Edited(f)' <=> Edited(f)
  BY <1>1 DEF Apart, Edited
<1>10. ~Apart(g) => live[g] \subseteq store[g] /\ local[r][g] = store[g]
  BY <1>1, <1>2, <1>8 DEF FileInv, Tracked, TrackedFile
<1>11. TrackedFile(g)'
  <2> SUFFICES ASSUME ~Apart(g) PROVE TrackedFile(g)'
    BY <1>9 DEF TrackedFile
  <2>1. live[g] \subseteq local'[r][g] /\ \A o \in live[g] : o.addr \notin w.create
    BY <1>3, <1>5, <1>10 DEF Addrs
  <2>2. \A o, p \in live[g] : o.addr = p.addr => o = p
    BY <1>2 DEF FileInv, Tracked, TrackedFile
  <2> QED
    BY <1>1, <1>3, <1>8, <2>1, <2>2 DEF TrackedFile, Acting
<1>12. CleanFile(g)'
  <2> SUFFICES ASSUME ~Apart(g), ~Edited(g), g \notin dirty' PROVE CleanFile(g)'
    BY <1>9 DEF CleanFile
  <2>1. w = NoPlan /\ g \notin dirty
    BY <1>3
  <2>2. store[g] \subseteq live[g] /\ (deployed[g] # 0 => Addrs(store[g]) = Desired[deployed[g]][g])
    BY <1>2, <2>1 DEF FileInv, Clean, CleanFile
  <2>3. local'[r][g] = store[g]
    BY <1>3, <1>10, <2>2
  <2> QED
    BY <1>1, <1>3, <1>8, <2>1, <2>2, <2>3 DEF CleanFile, Acting
<1>13. PlannedRun(r)'
  BY <1>1, <1>2, <1>3, <1>4 DEF PlannedRun
<1>14. SettledRun(r)'
  <2>1. \A f, v : Holds(f, v) => Holds(f, v)'
    BY <1>1 DEF Holds, Edited
  <2> QED
    BY <1>1, <2>1 DEF FileInv, Settled, SettledRun, Working
<1> QED
  BY <1>7, <1>11, <1>12, <1>13, <1>14 DEF FileInv, Tracked, Clean, Planned, Settled

LEMMA CreateFiles ==
  ASSUME OneLockPerFile, Base, Base', FileInv, NEW r \in Runs, Create(r)
  PROVE  FileInv'
<1>0. TypeOK
  BY DEF Base
<1>g. PICK g \in Files : g = Current(r)
  BY <1>0, CurrentType
<1>1. /\ pc[r] = "apply" /\ pc' = pc /\ pc[r] \in Working
      /\ UNCHANGED <<version, job, at, store, deployed, dirty, hit>>
  BY DEF Create, Working, history
<1>2. Current(r)' = g /\ Alone(r)
  BY <1>0, <1>1, <1>g, Moves DEF Current, Step
<1>3. PICK a \in plan[r].create, o \in Objects :
        /\ o.addr = a /\ o \notin live[g]
        /\ live' = [live EXCEPT ![g] = @ \cup {o}]
        /\ local' = [local EXCEPT ![r][g] = @ \cup {o}]
        /\ plan' = [plan EXCEPT ![r] = [plan[r] EXCEPT !.create = plan[r].create \ {a}]]
  BY <1>0, <1>g, CreateStep
<1>4. plan[r] \in [create: SUBSET Addresses, destroy: SUBSET Objects]
  BY <1>0 DEF TypeOK
<1>5. /\ live'[g] = live[g] \cup {o} /\ local'[r][g] = local[r][g] \cup {o}
      /\ plan'[r] = [plan[r] EXCEPT !.create = plan[r].create \ {a}]
      /\ \A f \in Files \ {g} : live'[f] = live[f]
  BY <1>0, <1>3 DEF TypeOK
<1>6. plan'[r].create = plan[r].create \ {a}
  BY <1>4, <1>5
<1>7. /\ \A f \in Files \ {g} : TrackedFile(f)' /\ CleanFile(f)'
      /\ \A s \in Runs \ {r} : PlannedRun(s)' /\ SettledRun(s)'
      /\ \A s \in Runs \ {r} : pc'[s] \in Busy => ~On(s, g)'
  BY <1>1, <1>2, <1>5, <1>g, Elsewhere
<1>8. /\ \A s \in Runs : pc'[s] \in {"plan", "apply", "persist"} /\ On(s, g)' => s = r
      /\ On(r, g) /\ On(r, g)'
  BY <1>2, <1>7, <1>g DEF Busy, Working, On
<1>9. /\ \A f : Apart(f)' <=> Apart(f)
      /\ \A f : Edited(f)' <=> Edited(f)
  BY <1>1 DEF Apart, Edited
<1>10. TrackedFile(g)'
  <2> SUFFICES ASSUME ~Apart(g) PROVE TrackedFile(g)'
    BY <1>9 DEF TrackedFile
  <2>1. /\ live[g] \subseteq local[r][g]
        /\ \A p, q \in live[g] : p.addr = q.addr => p = q
        /\ \A p \in live[g] : p.addr \notin plan[r].create
    BY <1>1, <1>8 DEF FileInv, Tracked, TrackedFile, Acting
  <2>2. /\ live'[g] \subseteq local'[r][g]
        /\ \A p, q \in live'[g] : p.addr = q.addr => p = q
        /\ \A p \in live'[g] : p.addr \notin plan'[r].create
    BY <1>3, <1>5, <1>6, <2>1
  <2> QED
    BY <1>1, <1>8, <2>2 DEF TrackedFile, Acting
<1>11. CleanFile(g)'
  <2>1. plan[r] # NoPlan
    BY <1>3 DEF NoPlan
  <2>2. Apart(g) \/ Edited(g) \/ g \in dirty
    BY <1>1, <1>8, <2>1 DEF FileInv, Clean, CleanFile, Acting
  <2> QED
    BY <1>1, <1>9, <2>2 DEF CleanFile
<1>12. PlannedRun(r)'
  <2>1. /\ PlanCovers(plan[r], local[r][g], Desired[version[r]][g])
        /\ local[r][g] \subseteq live[g] \/ Edited(g)
    BY <1>1, <1>g DEF FileInv, Planned, PlannedRun, Acting
  <2>2. PlanCovers(plan'[r], local'[r][g], Desired[version[r]][g])
    BY <1>3, <1>4, <1>5, <2>1, CreateCovers
  <2> QED
    BY <1>1, <1>2, <1>5, <1>9, <2>1, <2>2 DEF PlannedRun
<1>13. SettledRun(r)'
  <2>1. \A f \in Files : live[f] \subseteq live'[f]
    BY <1>5
  <2>2. \A f \in Files, v \in Versions : Holds(f, v) => Holds(f, v)'
    BY <1>1, <1>9, <2>1 DEF Holds
  <2>3. /\ \A i \in DOMAIN Order(job[r]) : Order(job[r])[i] \in Files
        /\ \A i \in 1..(at[r] - 1) : i \in DOMAIN Order(job[r])
        /\ version[r] \in Versions
    BY <1>0, CurrentType, InOwnOrder DEF TypeOK
  <2> QED
    BY <1>1, <2>2, <2>3 DEF FileInv, Settled, SettledRun, Working
<1> QED
  BY <1>7, <1>10, <1>11, <1>12, <1>13 DEF FileInv, Tracked, Clean, Planned, Settled

LEMMA DestroyFiles ==
  ASSUME OneLockPerFile, Base, Base', FileInv, NEW r \in Runs, Destroy(r)
  PROVE  FileInv'
<1>0. TypeOK
  BY DEF Base
<1>g. PICK g \in Files : g = Current(r)
  BY <1>0, CurrentType
<1>1. /\ pc[r] = "apply" /\ pc' = pc /\ pc[r] \in Working
      /\ UNCHANGED <<version, job, at, store, deployed, dirty, hit>>
  BY DEF Destroy, Working, history
<1>2. Current(r)' = g /\ Alone(r)
  BY <1>0, <1>1, <1>g, Moves DEF Current, Step
<1>3. PICK o \in plan[r].destroy :
        /\ live' = [live EXCEPT ![g] = @ \ {o}]
        /\ local' = [local EXCEPT ![r][g] = @ \ {o}]
        /\ plan' = [plan EXCEPT ![r] = [plan[r] EXCEPT !.destroy = plan[r].destroy \ {o}]]
  BY <1>g DEF Destroy
<1>4. plan[r] \in [create: SUBSET Addresses, destroy: SUBSET Objects]
  BY <1>0 DEF TypeOK
<1>5. /\ live'[g] = live[g] \ {o} /\ local'[r][g] = local[r][g] \ {o}
      /\ plan'[r] = [plan[r] EXCEPT !.destroy = plan[r].destroy \ {o}]
      /\ \A f \in Files \ {g} : live'[f] = live[f]
  BY <1>0, <1>3 DEF TypeOK
<1>6. plan'[r].create = plan[r].create
  BY <1>4, <1>5
<1>7. /\ \A f \in Files \ {g} : TrackedFile(f)' /\ CleanFile(f)'
      /\ \A s \in Runs \ {r} : PlannedRun(s)' /\ SettledRun(s)'
      /\ \A s \in Runs \ {r} : pc'[s] \in Busy => ~On(s, g)'
  BY <1>1, <1>2, <1>5, <1>g, Elsewhere
<1>8. /\ \A s \in Runs : pc'[s] \in {"plan", "apply", "persist"} /\ On(s, g)' => s = r
      /\ On(r, g) /\ On(r, g)'
  BY <1>2, <1>7, <1>g DEF Busy, Working, On
<1>9. /\ \A f : Apart(f)' <=> Apart(f)
      /\ \A f : Edited(f)' <=> Edited(f)
  BY <1>1 DEF Apart, Edited
<1>10. TrackedFile(g)'
  <2> SUFFICES ASSUME ~Apart(g) PROVE TrackedFile(g)'
    BY <1>9 DEF TrackedFile
  <2>1. /\ live[g] \subseteq local[r][g]
        /\ \A p, q \in live[g] : p.addr = q.addr => p = q
        /\ \A p \in live[g] : p.addr \notin plan[r].create
    BY <1>1, <1>8 DEF FileInv, Tracked, TrackedFile, Acting
  <2>2. /\ live'[g] \subseteq local'[r][g]
        /\ \A p, q \in live'[g] : p.addr = q.addr => p = q
        /\ \A p \in live'[g] : p.addr \notin plan'[r].create
    BY <1>5, <1>6, <2>1
  <2> QED
    BY <1>1, <1>8, <2>2 DEF TrackedFile, Acting
<1>11. CleanFile(g)'
  <2>1. plan[r] # NoPlan
    BY <1>3 DEF NoPlan
  <2>2. Apart(g) \/ Edited(g) \/ g \in dirty
    BY <1>1, <1>8, <2>1 DEF FileInv, Clean, CleanFile, Acting
  <2> QED
    BY <1>1, <1>9, <2>2 DEF CleanFile
<1>12. /\ PlanCovers(plan[r], local[r][g], Desired[version[r]][g])
       /\ local[r][g] \subseteq live[g] \/ Edited(g)
  BY <1>1, <1>g DEF FileInv, Planned, PlannedRun, Acting
<1>13. PlannedRun(r)'
  <2>1. PlanCovers(plan'[r], local'[r][g], Desired[version[r]][g])
    BY <1>3, <1>4, <1>5, <1>12, DestroyCovers
  <2> QED
    BY <1>1, <1>2, <1>5, <1>9, <1>12, <2>1 DEF PlannedRun
<1>14. SettledRun(r)'
  <2>1. o.addr \notin Desired[version[r]][g]
    BY <1>12 DEF PlanCovers
  <2>2. \A f \in Files : Holds(f, version[r]) => Holds(f, version[r])'
    <3>1. Addrs(store[g]) = Desired[version[r]][g] => o \notin store[g]
      BY <2>1 DEF Addrs
    <3> QED
      BY <1>1, <1>5, <1>9, <3>1 DEF Holds
  <2>3. /\ \A i \in DOMAIN Order(job[r]) : Order(job[r])[i] \in Files
        /\ \A i \in 1..(at[r] - 1) : i \in DOMAIN Order(job[r])
    BY <1>0, CurrentType, InOwnOrder
  <2> QED
    BY <1>1, <2>2, <2>3 DEF FileInv, Settled, SettledRun, Working
<1> QED
  BY <1>7, <1>10, <1>11, <1>13, <1>14 DEF FileInv, Tracked, Clean, Planned, Settled

LEMMA ApplyEndsFiles ==
  ASSUME OneLockPerFile, Base, Base', FileInv, NEW r \in Runs, ApplyEnds(r)
  PROVE  FileInv'
<1>0. TypeOK
  BY DEF Base
<1>g. PICK g \in Files : g = Current(r)
  BY <1>0, CurrentType
<1>1. /\ pc[r] = "apply" /\ pc' = [pc EXCEPT ![r] = "persist"] /\ pc[r] \in Working
      /\ UNCHANGED <<version, job, at, local, plan, store, live, deployed, dirty, hit>>
      /\ plan[r] = NoPlan \/ red'[r]
  BY <1>0 DEF ApplyEnds, AfterApply, Goto, Working, world, history, TypeOK
<1>2. Current(r)' = g /\ Alone(r) /\ pc'[r] = "persist"
  BY <1>0, <1>1, <1>g, Moves DEF Current, Step, TypeOK
<1>3. /\ \A f \in Files \ {g} : TrackedFile(f)' /\ CleanFile(f)'
      /\ \A s \in Runs \ {r} : PlannedRun(s)' /\ SettledRun(s)'
      /\ \A s \in Runs \ {r} : pc'[s] \in Busy => ~On(s, g)'
  BY <1>1, <1>2, <1>g, Elsewhere
<1>4. /\ \A s \in Runs : pc'[s] \in {"plan", "apply", "persist"} /\ On(s, g)' => s = r
      /\ On(r, g) /\ On(r, g)'
  BY <1>2, <1>3, <1>g DEF Busy, Working, On
<1>5. /\ \A f : Apart(f)' <=> Apart(f)
      /\ \A f : Edited(f)' <=> Edited(f)
  BY <1>1 DEF Apart, Edited
<1>6. TrackedFile(g)'
  BY <1>1, <1>2, <1>4, <1>5 DEF FileInv, Tracked, TrackedFile, Acting
<1>7. CleanFile(g)'
  BY <1>1, <1>2, <1>4, <1>5 DEF FileInv, Clean, CleanFile, Acting
<1>8. PlannedRun(r)'
  BY <1>1, <1>2, <1>5, <1>g DEF FileInv, Planned, PlannedRun, Acting
<1>9. SettledRun(r)'
  <2>1. \A f, v : Holds(f, v) => Holds(f, v)'
    BY <1>1 DEF Holds, Edited
  <2> QED
    BY <1>1, <1>2, <2>1 DEF FileInv, Settled, SettledRun, Working
<1> QED
  BY <1>3, <1>6, <1>7, <1>8, <1>9 DEF FileInv, Tracked, Clean, Planned, Settled

LEMMA PersistFiles ==
  ASSUME OneLockPerFile, Base, Base', FileInv, NEW r \in Runs, Persist(r)
  PROVE  FileInv'
<1>0. TypeOK
  BY DEF Base
<1>g. PICK g \in Files : g = Current(r)
  BY <1>0, CurrentType
<1>1. /\ pc[r] = "persist" /\ pc[r] \in Working /\ ~red[r]
      /\ UNCHANGED <<version, job, local, plan, live, hit>>
      /\ store' = [store EXCEPT ![g] = local[r][g]]
      /\ deployed' = [deployed EXCEPT ![g] = version[r]]
      /\ dirty' = dirty \ {g}
  BY <1>g DEF Persist, Working
<1>2. Alone(r) /\ Works(r) /\ Proceeds(r)
  <2>1. Alone(r) /\ (Starts(r) \/ Resumes(r) \/ Works(r) \/ Waits(r) \/ Ends(r))
    BY <1>0, Moves DEF Step
  <2>2. pc'[r] \notin {"done", "failed", "plan", "apply", "persist"}
    BY <1>0 DEF Persist, NextFile, Goto, TypeOK
  <2>3. pc'[r] = "restore" => at'[r] # at[r]
    BY <1>0, CurrentType DEF Persist, NextFile, Goto, TypeOK
  <2> QED
    BY <1>1, <2>1, <2>2, <2>3 DEF Starts, Resumes, Waits, Ends, Works, Working
<1>3. pc'[r] \notin {"plan", "apply", "persist"}
  BY <1>2 DEF Proceeds
<1>4. /\ store'[g] = local[r][g] /\ deployed'[g] = version[r]
      /\ \A f \in Files \ {g} : store'[f] = store[f] /\ deployed'[f] = deployed[f]
  BY <1>0, <1>1 DEF TypeOK
<1>5. /\ \A f \in Files \ {g} : TrackedFile(f)' /\ CleanFile(f)'
      /\ \A s \in Runs \ {r} : PlannedRun(s)' /\ SettledRun(s)'
      /\ \A s \in Runs \ {r} : pc'[s] \in Busy => ~On(s, g)'
  BY <1>1, <1>2, <1>3, <1>4, <1>g, Elsewhere
<1>6. On(r, g) /\ \A s \in Runs : pc'[s] \in {"plan", "apply", "persist"} => ~On(s, g)'
  BY <1>3, <1>5, <1>g DEF Busy, Working, On
<1>7. /\ \A f : Apart(f)' <=> Apart(f)
      /\ \A f : Edited(f)' <=> Edited(f)
  BY <1>1 DEF Apart, Edited
<1>8. /\ PlanCovers(plan[r], local[r][g], Desired[version[r]][g]) /\ plan[r] = NoPlan
      /\ local[r][g] \subseteq live[g] \/ Edited(g)
  BY <1>1, <1>g DEF FileInv, Planned, PlannedRun, Acting
<1>9. Addrs(local[r][g]) = Desired[version[r]][g]
  BY <1>8, DoneCovers
<1>10. TrackedFile(g)'
  BY <1>1, <1>4, <1>6, <1>7 DEF FileInv, Tracked, TrackedFile, Acting
<1>11. CleanFile(g)'
  BY <1>1, <1>4, <1>6, <1>7, <1>8, <1>9 DEF CleanFile, Acting
<1>12. PlannedRun(r)'
  BY <1>3 DEF PlannedRun, Acting
<1>13. SettledRun(r)'
  <2>1. PICK v \in Versions, n \in Nat, q \in Seq(Files) :
          /\ v = version[r] /\ n = at[r] /\ q = Order(job[r])
          /\ v = version'[r] /\ q = Order(job'[r])
    BY <1>0, <1>1, OrderType DEF TypeOK, Jobs
  <2>2. n \in 1..Len(q) /\ Len(q) \in Nat /\ q[n] = g /\ DOMAIN q = 1..Len(q)
    <3>1. n \in 1..Len(q) /\ Len(q) \in Nat
      BY <1>0, <2>1, CurrentType
    <3>2. q[n] = g
      BY <1>g, <2>1 DEF Current
    <3>3. DOMAIN q = 1..Len(q)
      OBVIOUS
    <3> QED
      BY <3>1, <3>2, <3>3
  <2>3. \A f \in Files : Holds(f, v) \/ f = g => Holds(f, v)'
    BY <1>1, <1>4, <1>7, <1>8, <1>9, <2>1 DEF Holds
  <2>4. \A i \in 1..n : Holds(q[i], v)'
    <3>1. \A i \in 1..(n - 1) : Holds(q[i], v)
      BY <1>1, <2>1 DEF FileInv, Settled, SettledRun
    <3>2. \A i \in 1..n : q[i] \in Files /\ (i = n \/ i \in 1..(n - 1))
      BY <2>2
    <3> QED
      BY <2>2, <2>3, <3>1, <3>2
  <2>5. pc'[r] = "restore" => at'[r] - 1 = n
    BY <1>0, <1>2, <2>1, CurrentType DEF Proceeds
  <2>6. LastFile(r) => DOMAIN q = 1..n
    BY <2>1, <2>2 DEF LastFile
  <2> QED
    BY <1>1, <1>2, <2>1, <2>4, <2>5, <2>6 DEF SettledRun, Proceeds, Working
<1> QED
  BY <1>5, <1>10, <1>11, <1>12, <1>13 DEF FileInv, Tracked, Clean, Planned, Settled

\* A state pushed by a run that ends red.
LEMMA PersistBackFiles ==
  ASSUME OneLockPerFile, Base, Base', FileInv, NEW r \in Runs,
         PersistRed(r) \/ PersistFails(r), UNCHANGED hit,
         store' = [store EXCEPT ![Current(r)] = local[r][Current(r)]]
  PROVE  FileInv'
<1>0. TypeOK
  BY DEF Base
<1>g. PICK g \in Files : g = Current(r)
  BY <1>0, CurrentType
<1>1. /\ pc[r] = "persist" /\ pc[r] \in Working /\ pc'[r] = "failed"
      /\ UNCHANGED <<live, deployed, dirty>>
  BY <1>0 DEF PersistRed, PersistFails, Finish, Goto, Accident, history, Working, TypeOK
<1>2. Alone(r)
  BY <1>0, Moves DEF Step
<1>3. store'[g] = local[r][g] /\ \A f \in Files \ {g} : store'[f] = store[f]
  BY <1>0, <1>g DEF TypeOK
<1>4. /\ \A f \in Files \ {g} : TrackedFile(f)' /\ CleanFile(f)'
      /\ \A s \in Runs \ {r} : PlannedRun(s)' /\ SettledRun(s)'
      /\ \A s \in Runs \ {r} : pc'[s] \in Busy => ~On(s, g)'
  BY <1>1, <1>2, <1>3, <1>g, Elsewhere
<1>5. On(r, g) /\ \A s \in Runs : pc'[s] \in {"plan", "apply", "persist"} => ~On(s, g)'
  BY <1>1, <1>4, <1>g DEF Busy, Working, On
<1>6. /\ \A f : Apart(f)' <=> Apart(f)
      /\ \A f : Edited(f)' <=> Edited(f)
  BY DEF Apart, Edited
<1>7. TrackedFile(g)'
  BY <1>1, <1>3, <1>5, <1>6 DEF FileInv, Tracked, TrackedFile, Acting
<1>8. CleanFile(g)'
  BY <1>1, <1>3, <1>5, <1>6 DEF FileInv, Clean, CleanFile, Acting
<1>9. PlannedRun(r)' /\ SettledRun(r)'
  BY <1>1 DEF PlannedRun, SettledRun, Acting, Working
<1> QED
  BY <1>4, <1>7, <1>8, <1>9 DEF FileInv, Tracked, Clean, Planned, Settled

\* A resource is deleted behind the back of every run.
LEMMA EditFiles ==
  ASSUME TypeOK, FileInv, NEW g \in Files, Edit(g)
  PROVE  FileInv'
<1>1. /\ UNCHANGED <<pc, version, job, at, local, plan, red, store, deployed, dirty>>
      /\ hit' = hit \cup {<<"edit", g>>}
  BY DEF Edit, Accident, Befalls, run
<1>2. live'[g] \subseteq live[g] /\ \A f \in Files \ {g} : live'[f] = live[f]
  BY DEF Edit, TypeOK
<1>3. /\ \A f : Apart(f)' <=> Apart(f)
      /\ \A f : Edited(f) => Edited(f)'
      /\ Edited(g)'
  BY <1>1 DEF Apart, Edited
<1>4. \A s \in Runs : Current(s)' = Current(s)
  BY <1>1 DEF Current
<1>5. ASSUME NEW f \in Files
      PROVE  TrackedFile(f)' /\ CleanFile(f)'
  <2>1. TrackedFile(f)'
    BY <1>1, <1>2, <1>3, <1>4 DEF FileInv, Tracked, TrackedFile, On
  <2>2. CleanFile(f)'
    BY <1>1, <1>2, <1>3, <1>4 DEF FileInv, Clean, CleanFile, On
  <2> QED
    BY <2>1, <2>2
<1>6. ASSUME NEW s \in Runs
      PROVE  PlannedRun(s)' /\ SettledRun(s)'
  <2>1. Current(s) \in Files
    BY CurrentType
  <2>2. \A f \in Files : live'[f] = live[f] \/ Edited(f)'
    BY <1>2, <1>3
  <2>3. PlannedRun(s)'
    <3> SUFFICES ASSUME pc[s] \in Acting PROVE PlannedRun(s)'
      BY <1>1 DEF PlannedRun
    <3>1. PICK h \in Files : h = Current(s) /\ h = Current(s)'
      BY <1>4, <2>1
    <3>2. local[s][h] \subseteq live[h] \/ Edited(h)
      BY <3>1 DEF FileInv, Planned, PlannedRun
    <3>3. local[s][h] \subseteq live'[h] \/ Edited(h)'
      BY <1>3, <2>2, <3>2
    <3> QED
      BY <1>1, <3>1, <3>3 DEF FileInv, Planned, PlannedRun
  <2>4. \A f \in Files : \A v : Holds(f, v) => Holds(f, v)'
    BY <1>1, <1>3, <2>2 DEF Holds
  <2>5. /\ \A i \in DOMAIN Order(job[s]) : Order(job[s])[i] \in Files
        /\ \A i \in 1..(at[s] - 1) : i \in DOMAIN Order(job[s])
    BY CurrentType, InOwnOrder
  <2>6. SettledRun(s)'
    BY <1>1, <2>4, <2>5 DEF FileInv, Settled, SettledRun
  <2> QED
    BY <2>3, <2>6
<1> QED
  BY <1>5, <1>6 DEF FileInv, Tracked, Clean, Planned, Settled

\* The steps outside restore, plan, apply and a persist that lands.
LEMMA Aside ==
  ASSUME TypeOK, Queued, FileInv, NEW r \in Runs, Alone(r),
         Starts(r) \/ Resumes(r) \/ Works(r) \/ Waits(r) \/ Ends(r),
         UNCHANGED <<store, live, deployed, dirty>>, hit \subseteq hit',
         pc[r] \in Working => pc'[r] = "failed",
         pc[r] \in Acting => \A f \in Files : On(r, f) => Apart(f)'
  PROVE  FileInv'
<1>1. \A s \in Runs \ {r} : Unmoved(s)
  BY DEF Alone, Unmoved
<1>2. ~Proceeds(r)
  BY DEF Proceeds, Working
<1>3. Passes(r)
  <2>1. CASE Starts(r)
    BY <2>1 DEF Starts, Passes, Queued, Acting
  <2>2. CASE Resumes(r)
    BY <2>2 DEF Resumes, Passes, Acting
  <2>3. CASE Works(r)
    BY <1>2, <2>3 DEF Works, Passes, Alone, Acting, Working
  <2>4. CASE Waits(r)
    BY <2>4 DEF Waits, Passes, Acting, Working
  <2>5. CASE Ends(r)
    BY <2>5 DEF Ends, Passes, Acting, Working
  <2> QED
    BY <2>1, <2>2, <2>3, <2>4, <2>5
<1> QED
  BY <1>1, <1>3, Quiet

LEMMA AsideSteps ==
  ASSUME TypeOK, Queued, FileInv, NEW r \in Runs,
         \/ BeginNonprod(r) \/ BeginDrift(r) \/ BeginProduction(r) \/ Review(r)
         \/ StepFails(r) \/ RunnerDies(r) \/ Verify(r) \/ EmitMarker(r) \/ CheckDrift(r)
         \/ PersistFails(r) /\ Accident("persist", Current(r)) /\ UNCHANGED store
  PROVE  FileInv'
<1>1. Alone(r) /\ (Starts(r) \/ Resumes(r) \/ Works(r) \/ Waits(r) \/ Ends(r))
  BY Moves DEF Step
<1> USE DEF world, history, Accident, Befalls
<1>2. CASE BeginNonprod(r) \/ BeginDrift(r) \/ BeginProduction(r) \/ Review(r)
  <2>1. UNCHANGED <<store, live, deployed, dirty, hit>> /\ pc[r] \notin Working
    BY <1>2 DEF BeginNonprod, BeginDrift, BeginProduction, Review, Approve, Reject,
                Dequeue, Working
  <2> QED
    BY <1>1, <2>1, Aside DEF Acting, Working
<1>3. CASE StepFails(r)
  <2>1. UNCHANGED <<store, live, deployed, dirty, hit>> /\ pc'[r] = "failed" /\ pc[r] \notin Acting
    BY <1>3 DEF StepFails, Finish, Goto, Acting, TypeOK
  <2> QED
    BY <1>1, <2>1, Aside
<1>4. CASE RunnerDies(r)
  <2>1. /\ UNCHANGED <<store, live, deployed, dirty>> /\ hit \subseteq hit' /\ pc'[r] = "failed"
        /\ pc[r] \in Acting => <<"runner", Current(r)>> \in hit'
    BY <1>4 DEF RunnerDies, Finish, Goto, Acting, TypeOK
  <2>2. pc[r] \in Acting => \A f \in Files : On(r, f) => Apart(f)'
    BY <2>1 DEF On, Apart
  <2> QED
    BY <1>1, <2>1, <2>2, Aside
<1>5. CASE Verify(r) \/ EmitMarker(r)
  <2>1. UNCHANGED <<store, live, deployed, dirty, hit>> /\ pc[r] \in {"verify", "marker"}
    BY <1>5 DEF Verify, EmitMarker
  <2> QED
    BY <1>1, <2>1, Aside DEF Acting, Working
<1>6. CASE CheckDrift(r)
  <2>1. UNCHANGED <<store, live, deployed, dirty>> /\ hit \subseteq hit' /\ pc[r] = "check"
    BY <1>6 DEF CheckDrift
  <2> QED
    BY <1>1, <2>1, Aside DEF Acting, Working
<1>7. CASE PersistFails(r) /\ Accident("persist", Current(r)) /\ UNCHANGED store
  <2>1. /\ UNCHANGED <<store, live, deployed, dirty>> /\ hit \subseteq hit' /\ pc'[r] = "failed"
        /\ <<"persist", Current(r)>> \in hit'
    BY <1>7 DEF PersistFails, Finish, Goto, TypeOK
  <2>2. \A f \in Files : On(r, f) => Apart(f)'
    BY <2>1 DEF On, Apart
  <2> QED
    BY <1>1, <2>1, <2>2, Aside
<1> QED
  BY <1>2, <1>3, <1>4, <1>5, <1>6, <1>7

LEMMA FileStep ==
  ASSUME OneLockPerFile, Base, Base', FileInv, [Next]_vars
  PROVE  FileInv'
<1>0. TypeOK /\ Queued
  BY DEF Base
<1>1. ASSUME NEW r \in Runs, NEW t, NEW v, Enqueue(r, t, v)
      PROVE  FileInv'
  <2>1. /\ pc[r] = "new" /\ pc'[r] = "pending"
        /\ \A s \in Runs \ {r} :
             /\ version'[s] = version[s]
             /\ pc'[s] = pc[s] \/ (pc[s] = "pending" /\ pc'[s] = "cancelled")
        /\ UNCHANGED <<job, at, holds, local, plan, red, store, live, deployed, dirty, hit>>
    BY <1>0, <1>1, Enqueued
  <2>2. \A s \in Runs : Unmoved(s) \/ Passes(s)
    BY <2>1 DEF Unmoved, RowSame, Passes, Acting, Working
  <2> QED
    BY <2>1, <2>2, Quiet
<1>2. ASSUME NEW r \in Runs, Step(r) \/ Review(r) \/ RunnerDies(r)
      PROVE  FileInv'
  <2>1. CASE \/ BeginNonprod(r) \/ BeginDrift(r) \/ BeginProduction(r) \/ Review(r)
             \/ StepFails(r) \/ RunnerDies(r) \/ Verify(r) \/ EmitMarker(r) \/ CheckDrift(r)
    BY <1>0, <2>1, AsideSteps
  <2>2. CASE PersistRed(r) \/ PersistFails(r)
    <3>1. \/ /\ UNCHANGED hit
             /\ store' = [store EXCEPT ![Current(r)] = local[r][Current(r)]]
          \/ PersistFails(r) /\ Accident("persist", Current(r)) /\ UNCHANGED store
      BY <2>2 DEF PersistRed, PersistFails, history
    <3> QED
      BY <1>0, <2>2, <3>1, AsideSteps, PersistBackFiles
  <2>3. CASE Restore(r) \/ Plan(r) \/ Create(r) \/ Destroy(r) \/ ApplyEnds(r) \/ Persist(r)
    BY <2>3, RestoreFiles, PlanFiles, CreateFiles, DestroyFiles, ApplyEndsFiles, PersistFiles
  <2> QED
    BY <1>2, <2>1, <2>2, <2>3 DEF Step
<1>3. ASSUME NEW g \in Files, Edit(g)
      PROVE  FileInv'
  BY <1>0, <1>3, EditFiles
<1>4. CASE UNCHANGED vars
  <2>1. /\ UNCHANGED <<store, live, deployed, dirty, hit>>
        /\ \A s \in Runs : Unmoved(s)
    BY <1>4 DEF vars, run, world, history, Unmoved, RowSame
  <2> QED
    BY <2>1, Quiet
<1>5. ASSUME NEW r \in Runs, Push(r) \/ Dispatch(r) \/ Nightly(r)
      PROVE  FileInv'
  BY <1>1, <1>5 DEF Push, Dispatch, Nightly
<1> QED
  BY <1>2, <1>3, <1>4, <1>5 DEF Next

LEMMA FilesHold ==
  ASSUME OneLockPerFile
  PROVE  Spec => [](Base /\ FileInv)
<1>1. Init => Base /\ FileInv
  BY BaseInit, FileInit
<1>2. Base /\ FileInv /\ [Next]_vars => Base' /\ FileInv'
  BY BaseStep, FileStep
<1> QED
  BY <1>1, <1>2, PTL DEF Spec

\* deploy.yml, the persist steps: outside an accident, no resource is ever left
\* without a state that tracks it, however many applies end red.
THEOREM OrphansAreAccidentsHolds ==
  ASSUME OneLockPerFile
  PROVE  Spec => []OrphansAreAccidents
<1>1. Base /\ FileInv => OrphansAreAccidents
  <2> SUFFICES ASSUME FileInv, NEW f \in Files, ~Apart(f), NEW o \in live[f]
               PROVE  \/ o \in store[f]
                      \/ \E r \in Runs : /\ pc[r] \in {"apply", "persist"}
                                         /\ Current(r) = f
                                         /\ o \in local[r][f]
    BY DEF OrphansAreAccidents
  <2> QED
    BY DEF FileInv, Tracked, TrackedFile, On, Acting
<1> QED
  BY <1>1, FilesHold, PTL

\* tfstate-git.sh: outside an accident, Terraform never builds a second copy of
\* a resource that it already runs.
THEOREM DuplicatesAreAccidentsHolds ==
  ASSUME OneLockPerFile
  PROVE  Spec => []DuplicatesAreAccidents
<1>1. Base /\ FileInv => DuplicatesAreAccidents
  BY DEF DuplicatesAreAccidents, FileInv, Tracked, TrackedFile
<1> QED
  BY <1>1, FilesHold, PTL

\* deploy_marker.py as the last step: the environment a marker names holds what
\* the marked version asks for, and edits aside all of it exists.
THEOREM MarkerTruthfulHolds ==
  ASSUME OneLockPerFile
  PROVE  Spec => MarkerTruthful
<1>1. ASSUME Base, FileInv, [Next]_vars, NEW f \in Files, marker'[f] # marker[f]
      PROVE  /\ Addrs(store[f]) = Desired[marker'[f]][f]
             /\ store[f] \subseteq live[f] \/ Edited(f)
  <2>1. PICK r \in Runs : EmitMarker(r)
    <3> USE <1>1 DEF run, world, history, Accident
    <3>1. ASSUME NEW r \in Runs, Push(r) \/ Dispatch(r) \/ Nightly(r)
          PROVE  FALSE
      BY <3>1 DEF Push, Dispatch, Nightly, Enqueue
    <3>2. ASSUME NEW r \in Runs, Step(r), ~EmitMarker(r)
          PROVE  FALSE
      BY <3>2 DEF Step, BeginNonprod, BeginProduction, BeginDrift, CheckDrift, Restore, Plan,
                  Create, Destroy, ApplyEnds, Persist, PersistRed, PersistFails, StepFails, Verify
    <3>3. ASSUME NEW r \in Runs, Review(r) \/ RunnerDies(r)
          PROVE  FALSE
      BY <3>3 DEF Review, Approve, Reject, RunnerDies
    <3>4. ~((\E g \in Files : Edit(g)) \/ UNCHANGED vars)
      BY DEF Edit, vars
    <3> QED
      BY <3>1, <3>2, <3>3, <3>4 DEF Next
  <2>2. pc[r] = "marker" /\ f = Current(r) /\ marker'[f] = version[r]
    BY <1>1, <2>1, CurrentType DEF EmitMarker, Base, TypeOK
  <2>3. Holds(f, version[r])
    <3>1. at[r] \in DOMAIN Order(job[r])
      BY <1>1 DEF Base, TypeOK
    <3> QED
      BY <1>1, <2>2, <3>1 DEF FileInv, Settled, SettledRun, Current
  <2> QED
    BY <2>2, <2>3 DEF Holds
<1>2. Base /\ FileInv /\ [Next]_vars =>
        [\A f \in Files : marker'[f] # marker[f] =>
           /\ Addrs(store[f]) = Desired[marker'[f]][f]
           /\ store[f] \subseteq live[f] \/ Edited(f)]_vars
  BY <1>1
<1> QED
  BY <1>2, FilesHold, PTL DEF Spec, MarkerTruthful

\* governance.yml, concurrency: tfstate: with one lock for the nightly drift job
\* and all deployments, an alarm about a file that no accident befell, nobody
\* edited, and main has not left behind, is about an apply that did not end green.
THEOREM NoFalseAlarmHolds ==
  ASSUME AllGitHub
  PROVE  Spec => NoFalseAlarm
<1>0. OneLockPerFile
  BY DEF OneLockPerFile, AllGitHub, LockOf
<1>1. ASSUME Base, FileInv, [Next]_vars, NEW f \in alarms' \ alarms
      PROVE  \/ Apart(f)' \/ Edited(f)
             \/ f \in dirty /\ \A r \in Runs : pc[r] \in Working => Current(r) # f
             \/ \E r \in Runs : pc[r] = "check" /\ deployed[f] # version[r]
  <2> USE <1>1
  <2>0. TypeOK /\ Locked
    BY DEF Base
  <2>1. PICK r \in Runs : CheckDrift(r)
    <3> USE DEF run, world, history, Accident
    <3>1. ASSUME NEW r \in Runs, Push(r) \/ Dispatch(r) \/ Nightly(r)
          PROVE  FALSE
      BY <3>1 DEF Push, Dispatch, Nightly, Enqueue
    <3>2. ASSUME NEW r \in Runs, Step(r), ~CheckDrift(r)
          PROVE  FALSE
      BY <3>2 DEF Step, BeginNonprod, BeginProduction, BeginDrift, EmitMarker, Restore, Plan,
                  Create, Destroy, ApplyEnds, Persist, PersistRed, PersistFails, StepFails, Verify
    <3>3. ASSUME NEW r \in Runs, Review(r) \/ RunnerDies(r)
          PROVE  FALSE
      BY <3>3 DEF Review, Approve, Reject, RunnerDies
    <3>4. ~((\E g \in Files : Edit(g)) \/ UNCHANGED vars)
      BY DEF Edit, vars
    <3> QED
      BY <3>1, <3>2, <3>3, <3>4 DEF Next
  <2>2. PICK state \in {store[f], {}} :
          /\ pc[r] = "check" /\ f = Current(r) /\ f \in Files
          /\ state = store[f] \/ Befalls("fetch", f)
          /\ PlanOf(state, f, version[r]) # NoPlan
    BY <2>0, <2>1, CurrentType DEF CheckDrift
  <2>3. CASE state # store[f]
    BY <2>2, <2>3 DEF Befalls, Apart
  <2>4. ASSUME state = store[f], deployed[f] = version[r], ~Apart(f)', ~Edited(f)
        PROVE  f \in dirty
    <3>1. ~Apart(f)
      BY <2>1, <2>4 DEF CheckDrift, Befalls, Apart
    <3>2. version[r] # 0
      BY <2>0 DEF TypeOK, Versions
    <3>3. f \notin dirty => PlanOf(state, f, version[r]) = NoPlan
      <4> SUFFICES ASSUME f \notin dirty PROVE PlanOf(state, f, version[r]) = NoPlan
        OBVIOUS
      <4>1. store[f] \subseteq live[f] /\ Addrs(store[f]) = Desired[version[r]][f]
        BY <2>2, <2>4, <3>1, <3>2 DEF FileInv, Clean, CleanFile
      <4>2. state \cap live[f] = store[f]
        BY <2>4, <4>1
      <4>3. /\ Desired[version[r]][f] \ Addrs(state \cap live[f]) = {}
            /\ {o \in state \cap live[f] : o.addr \notin Desired[version[r]][f]} = {}
        BY <4>1, <4>2 DEF Addrs
      <4> QED
        BY <4>3 DEF PlanOf, NoPlan
    <3> QED
      BY <2>2, <3>3
  <2>5. \A s \in Runs : pc[s] \notin Working
    <3>1. holds[r] = "tfstate"
      BY <2>0, <2>2 DEF Locked, AllGitHub, LockOf
    <3>2. \A s \in Runs : pc[s] \in Working => holds[s] = "tfstate"
      BY <2>0 DEF Locked, AllGitHub, LockOf, Busy
    <3> QED
      BY <2>0, <2>2, <3>1, <3>2 DEF Locked, NoLock, Working
  <2> QED
    BY <2>2, <2>3, <2>4, <2>5
<1>2. Base /\ FileInv /\ [Next]_vars =>
        [\A f \in alarms' \ alarms :
           \/ Apart(f)' \/ Edited(f)
           \/ f \in dirty /\ \A r \in Runs : pc[r] \in Working => Current(r) # f
           \/ \E r \in Runs : pc[r] = "check" /\ deployed[f] # version[r]]_vars
  BY <1>1
<1> QED
  BY <1>0, <1>2, FilesHold, PTL DEF Spec, NoFalseAlarm

===============================================================================
