----------------------------- MODULE EstateProofs -----------------------------
(***************************************************************************)
(* Proofs about Estate, for any pull requests, repository and inventories  *)
(* that meet its assumptions: the types, the three promises of the gates   *)
(* and the agreement of the two catalogs.  What a commit builds, assigns   *)
(* and reports is reasoned about through the operators of the policy       *)
(* modules, part of a report by part.                                      *)
(***************************************************************************)
EXTENDS Estate, TLAPS, WellFoundedInduction, FiniteSetTheorems, FunctionTheorems

\* A table is the function it memoises.
LEMMA TableIsFunction ==
  ASSUME NEW f
  PROVE  Table(f) = f
BY DEF Table

-------------------------------------------------------------------------------
(* The types.                                                              *)

LEMMA MainIsCommit == Main \in Commits
BY DEF Main, Commits

LEMMA InitTypeOK == Init => TypeOK
<1> SUFFICES ASSUME Init PROVE TypeOK
  OBVIOUS
<1>1. {} \in Commits /\ 0 \in Days /\ 0 \in 0..MaxHands
  BY EstateAssumption DEF Commits, Days
<1>2. IsFiniteSet({})
  BY FS_EmptySet
<1> QED
  BY <1>1, <1>2 DEF Init, TypeOK, Idle

\* A hand that breaks an objective adds one id to a finite set.
LEMMA ByHandTypeOK ==
  ASSUME TypeOK, ByHand
  PROVE  TypeOK'
<1>1. hands' \in 0..MaxHands
  BY EstateAssumption DEF TypeOK, ByHand
<1>2. CASE \E m \in Watched(live.commit) : live' = [live EXCEPT !.gone = @ \cup {m.id}]
  BY <1>1, <1>2 DEF TypeOK, ByHand, Watched
<1>3. CASE live' = [live EXCEPT !.clickops = TRUE]
  BY <1>1, <1>3 DEF TypeOK, ByHand
<1>4. CASE \E s \in Objectives(live.commit) : live' = [live EXCEPT !.broken = @ \cup {s.id}]
  <2>1. PICK s \in Slos[live.commit] : live' = [live EXCEPT !.broken = @ \cup {s.id}]
    BY <1>4 DEF Objectives
  <2>2. IsFiniteSet(live.broken \cup {s.id})
    BY FS_AddElement DEF TypeOK
  <2> QED
    BY <1>1, <2>1, <2>2 DEF TypeOK, ByHand
<1>5. CASE UNCHANGED live
  BY <1>1, <1>5 DEF TypeOK, ByHand
<1> QED
  BY <1>2, <1>3, <1>4, <1>5 DEF ByHand

LEMMA NextTypeOK == TypeOK /\ [Next]_vars => TypeOK'
<1> SUFFICES ASSUME TypeOK, [Next]_vars PROVE TypeOK'
  OBVIOUS
<1>1. ASSUME NEW c \in Changes, Check(c) \/ Merge(c) PROVE TypeOK'
  BY <1>1 DEF TypeOK, Check, Merge
<1>2. CASE Validate
  BY <1>2, MainIsCommit DEF TypeOK, Validate, Idle, Commits
<1>3. CASE Apply
  BY <1>3 DEF TypeOK, Apply, Idle, Commits
<1>4. CASE Gate
  BY <1>4 DEF TypeOK, Gate, Idle, Commits
<1>5. CASE StartGovernance
  BY <1>5, MainIsCommit DEF TypeOK, StartGovernance
<1>6. CASE Report
  BY <1>6 DEF TypeOK, Report, Ends, Commits
<1>7. CASE NextDay
  BY <1>7, EstateAssumption DEF TypeOK, NextDay, Days
<1>8. CASE ByHand
  BY <1>8, ByHandTypeOK
<1>9. CASE UNCHANGED vars
  BY <1>9 DEF TypeOK, vars
<1> QED
  BY <1>1, <1>2, <1>3, <1>4, <1>5, <1>6, <1>7, <1>8, <1>9 DEF Next

\* What is deleted by hand is live, what is broken by hand was built, and a
\* governance run works on an inventory that was found.
THEOREM TypeCorrect == Spec => []TypeOK
BY InitTypeOK, NextTypeOK, PTL DEF Spec

-------------------------------------------------------------------------------
(* Budgets: a gate passes no class with more findings than an acceptance   *)
(* of that class, or of the whole check, allows.                           *)

Named(findings, check, class) == {f \in findings : f.check = check /\ f.class = class}

LEMMA PolicyOfCommit ==
  ASSUME NEW commit \in Commits
  PROVE  /\ Policy(commit) = Repository[commit].policy
         /\ RepositoryOK(Repository[commit])
BY TableIsFunction, RepositoryAssumption DEF Policy, Policies

\* An acceptance is an entry of the exceptions, and allows a number.
LEMMA AcceptanceMax ==
  ASSUME NEW commit \in Commits, NEW e \in Acceptances(Policy(commit), day)
  PROVE  e.max \in Nat
<1>1. PICK i \in DOMAIN Policy(commit).exceptions : e = Policy(commit).exceptions[i]
  BY DEF Acceptances
<1> QED
  BY <1>1, PolicyOfCommit DEF RepositoryOK

LEMMA NoMoreThanAccepted ==
  ASSUME NEW commit \in Commits, NEW findings, NEW check, NEW class, NEW S,
         IsFiniteSet(Named(findings, check, class)),
         NEW f \in Injection(S, Named(findings, check, class)),
         <<check, class>> \in Classes(findings) =>
             Unaccepted(Policy(commit), day, findings, check, class) = 0
  PROVE  AcceptedBy(commit, check, class, S)
<1> DEFINE policy == Policy(commit)
           N == Named(findings, check, class)
           Rules(k) == {e \in Acceptances(policy, day) : e.check = check /\ e.applies_to = k}
           budget == Budget(policy, day, check, class)
<1>1. Cardinality(N) \in Nat /\ Cardinality(S) \in Nat /\ Cardinality(S) <= Cardinality(N)
  BY FS_CardinalityType, FS_Injection
<1>2. IsFiniteSet(S)
  BY FS_Injection
<1> SUFFICES ASSUME S # {} PROVE AcceptedBy(commit, check, class, S)
  BY DEF AcceptedBy
<1>3. N # {}
  BY DEF Injection
<1>4. <<check, class>> \in Classes(findings)
  BY <1>3 DEF Named, Classes
<1>5. budget \in Nat /\ Cardinality(N) <= budget
  <2>1. budget \in Nat
    <3>1. CASE Rules(class) # {}
      <4>1. (CHOOSE e \in Rules(class) : TRUE) \in Rules(class)
        BY <3>1
      <4> QED
        BY <3>1, <4>1, AcceptanceMax DEF Budget
    <3>2. CASE Rules(class) = {} /\ Rules("all") # {}
      <4>1. (CHOOSE e \in Rules("all") : TRUE) \in Rules("all")
        BY <3>2
      <4> QED
        BY <3>2, <4>1, AcceptanceMax DEF Budget
    <3> QED
      BY <3>1, <3>2 DEF Budget
  <2>2. Unaccepted(policy, day, findings, check, class)
            = IF Cardinality(N) > budget THEN Cardinality(N) - budget ELSE 0
    BY DEF Unaccepted, Named
  <2> QED
    BY <1>1, <1>4, <2>1, <2>2
<1>6. \A k : k \in {class, "all"} /\ Rules(k) # {} /\ budget = (CHOOSE e \in Rules(k) : TRUE).max
                 => AcceptedBy(commit, check, class, S)
  <2> SUFFICES ASSUME NEW k \in {class, "all"}, Rules(k) # {},
                      budget = (CHOOSE e \in Rules(k) : TRUE).max
               PROVE  AcceptedBy(commit, check, class, S)
    OBVIOUS
  <2>1. PICK e \in Rules(k) : budget = e.max
    OBVIOUS
  <2>2. Cardinality(S) <= e.max
    BY <1>1, <1>5, <2>1
  <2> QED
    BY <2>1, <2>2 DEF AcceptedBy
<1>7. CASE Rules(class) = {} /\ Rules("all") = {}
  <2>1. budget = 0
    BY <1>7 DEF Budget
  <2>2. Cardinality(S) = 0
    BY <1>1, <1>5, <2>1
  <2> QED
    BY <1>2, <2>2, FS_EmptySet
<1> QED
  BY <1>6, <1>7 DEF Budget

-------------------------------------------------------------------------------
(* A report, part by part: which of its parts hold the findings of a class.*)

LEMMA ResourceFindingsOf ==
  ASSUME NEW policy, NEW monitors, NEW a, NEW f \in ResourceFindings(policy, monitors, a)
  PROVE  /\ f.check \in {"C1", "C2", "C3", "C10"}
         /\ f.check = "C1" => f = Finding("C1", "all", <<"resource", a.id>>, "uncovered")
<1> DEFINE F(check, class, what) == Finding(check, class, <<"resource", a.id>>, what)
<1>1. f \in {F("C1", "all", "uncovered"), F("C2", "all", "unowned"),
             F("C3", "discovered_resources", "tags"), F("C10", "all", "no_reason"),
             F("C10", "all", "security_profile"), F("C10", "all", "tier0_band")}
  BY DEF ResourceFindings
<1> QED
  BY <1>1 DEF Finding

LEMMA ServicesWithoutSloOf ==
  ASSUME NEW policy, NEW assignments, NEW slos,
         NEW f \in ServicesWithoutSlo(policy, assignments, slos)
  PROVE  f.check = "C4"
BY DEF ServicesWithoutSlo, Finding

LEMMA MonitorFindingsOf ==
  ASSUME NEW policy, NEW monitors, NEW m, NEW f \in MonitorFindings(policy, monitors, m)
  PROVE  f.check \notin {"C1", "C12", "C13"}
<1> DEFINE F(check, class, what) == Finding(check, class, <<"monitor", m.id>>, what)
           Checks == {"C3", "C5", "C6", "C7", "C8", "C9", "C11", "C14", "C15", "C16", "C17"}
<1>1. \E check \in Checks : \E class, what : f = F(check, class, what)
  BY DEF MonitorFindings
<1> QED
  BY <1>1 DEF Finding

LEMMA SloCatalogFindingsOf ==
  ASSUME NEW policy, NEW services, NEW resolved, NEW held,
         NEW f \in SloCatalogFindings(policy, services, resolved, held)
  PROVE  f.check = "C18"
<1>1. ASSUME NEW x \in DeclarationFindings(policy, resolved) PROVE x.check = "C18"
  <2>1. PICK s \in resolved :
          \/ x = Finding("C18", "declared_slo", <<"slo", s.slo_id>>, "placeholder")
          \/ x = Finding("C18", "telemetry_dependency", <<"slo", s.slo_id>>, "dependency")
          \/ x = Finding("C18", "declared_slo", <<"slo", s.slo_id>>, "owner")
    BY Zenon DEF DeclarationFindings
  <2> QED
    BY <2>1 DEF Finding
<1>2. ASSUME NEW entities, NEW all, NEW s, NEW x \in LiveFindings(entities, all, held, s)
      PROVE  x.check = "C18"
  <2>1. \E class, of, what : x = Finding("C18", class, of, what)
    BY DEF LiveFindings
  <2> QED
    BY <2>1 DEF Finding
<1>3. \A class, of, what : Finding("C18", class, of, what).check = "C18"
  BY DEF Finding
<1> DEFINE declared == DeclaredSlos(policy, resolved)
           entities == CatalogEntities(policy, services)
           absent == {x \in declared : x.slo_id \notin {s.slo_id : s \in held}}
<1>4. f \in DeclarationFindings(policy, resolved)
            \cup (UNION {LiveFindings(entities, declared, held, s) : s \in held})
            \cup {Finding("C18", "declared_slo", <<"slo", d.slo_id>>, "not_live") : d \in absent}
  BY DEF SloCatalogFindings
<1> HIDE DEF declared, entities, absent
<1>5. CASE \E s \in held : f \in LiveFindings(entities, declared, held, s)
  BY <1>2, <1>5
<1>6. CASE f \in {Finding("C18", "declared_slo", <<"slo", d.slo_id>>, "not_live") : d \in absent}
  BY <1>3, <1>6
<1> QED
  BY <1>1, <1>4, <1>5, <1>6

LEMMA ReportParts ==
  ASSUME NEW policy, NEW services, NEW resolved, NEW assignments, NEW monitors, NEW slos,
         NEW today, NEW f
  PROVE  f \in RunChecks(policy, services, resolved, assignments, monitors, slos, today) <=>
           \/ \E a \in assignments : f \in ResourceFindings(policy, monitors, a)
           \/ f \in ServicesWithoutSlo(policy, assignments, slos)
           \/ \E m \in monitors : f \in MonitorFindings(policy, monitors, m)
           \/ \E id \in ExpiredExceptions(policy, today) :
                 f = Finding("C12", "all", <<"exception", id>>, "expired")
           \/ \E s \in {x \in policy.slos : x.dependency} :
                 f = Finding("C13", "declared_telemetry_dependency", <<"slo", s.slo_id>>,
                             "dependency")
           \/ \E s \in {x \in slos : x.status = "error"} :
                 f = Finding("C13", "live_slo_error", <<"live", s.id>>, "error")
           \/ f \in SloCatalogFindings(policy, services, resolved, slos)
BY Zenon DEF RunChecks

\* The part of a report in which the findings of a class are.
LEMMA ReportClasses ==
  ASSUME NEW policy, NEW services, NEW resolved, NEW assignments, NEW monitors, NEW slos,
         NEW today,
         NEW f \in RunChecks(policy, services, resolved, assignments, monitors, slos, today)
  PROVE  /\ f.check = "C1" => \E a \in assignments : f \in ResourceFindings(policy, monitors, a)
         /\ f.check = "C12" => \E id \in ExpiredExceptions(policy, today) :
                f = Finding("C12", "all", <<"exception", id>>, "expired")
         /\ f.check = "C13" /\ f.class = "live_slo_error" =>
                \E s \in {x \in slos : x.status = "error"} :
                   f = Finding("C13", "live_slo_error", <<"live", s.id>>, "error")
<1>1. CASE \E a \in assignments : f \in ResourceFindings(policy, monitors, a)
  <2>1. f.check \notin {"C12", "C13"}
    BY <1>1, ResourceFindingsOf
  <2> QED
    BY <1>1, <2>1
<1>2. CASE \/ f \in ServicesWithoutSlo(policy, assignments, slos)
           \/ \E m \in monitors : f \in MonitorFindings(policy, monitors, m)
           \/ f \in SloCatalogFindings(policy, services, resolved, slos)
  <2>1. f.check \notin {"C1", "C12", "C13"}
    <3>1. CASE f \in ServicesWithoutSlo(policy, assignments, slos)
      BY <3>1, ServicesWithoutSloOf
    <3>2. CASE \E m \in monitors : f \in MonitorFindings(policy, monitors, m)
      BY <3>2, MonitorFindingsOf
    <3>3. CASE f \in SloCatalogFindings(policy, services, resolved, slos)
      BY <3>3, SloCatalogFindingsOf
    <3> QED
      BY <1>2, <3>1, <3>2, <3>3
  <2> QED
    BY <2>1
<1>3. CASE \E id \in ExpiredExceptions(policy, today) :
             f = Finding("C12", "all", <<"exception", id>>, "expired")
  <2>1. f.check = "C12"
    BY <1>3 DEF Finding
  <2> QED
    BY <1>3, <2>1
<1>4. CASE \E s \in {x \in policy.slos : x.dependency} :
             f = Finding("C13", "declared_telemetry_dependency", <<"slo", s.slo_id>>,
                         "dependency")
  <2>1. f.check = "C13" /\ f.class = "declared_telemetry_dependency"
    BY <1>4 DEF Finding
  <2> QED
    BY <2>1
<1>5. CASE \E s \in {x \in slos : x.status = "error"} :
             f = Finding("C13", "live_slo_error", <<"live", s.id>>, "error")
  <2>1. f.check = "C13"
    BY <1>5 DEF Finding
  <2> QED
    BY <1>5, <2>1
<1> QED
  BY <1>1, <1>2, <1>3, <1>4, <1>5, ReportParts, Zenon

\* The images of a finite set are finite.
LEMMA ImageFinite ==
  ASSUME NEW S, IsFiniteSet(S), NEW g
  PROVE  IsFiniteSet({g[x] : x \in S})
<1>1. [x \in S |-> g[x]] \in Surjection(S, {g[x] : x \in S})
  BY DEF Surjection
<1> QED
  BY <1>1, FS_Surjection

\* The findings of the three classes are those of their own part, and finite.
LEMMA UncoveredFindings ==
  ASSUME NEW policy, NEW services, NEW resolved, NEW assignments, NEW monitors, NEW slos,
         NEW today, IsFiniteSet(assignments)
  PROVE  IsFiniteSet(Named(RunChecks(policy, services, resolved, assignments, monitors, slos,
                                     today), "C1", "all"))
<1> DEFINE report == RunChecks(policy, services, resolved, assignments, monitors, slos, today)
           g == [a \in assignments |-> Finding("C1", "all", <<"resource", a.id>>, "uncovered")]
<1>1. IsFiniteSet({g[a] : a \in assignments})
  BY ImageFinite, Zenon
<1>2. ASSUME NEW f \in report, f.check = "C1" PROVE f \in {g[a] : a \in assignments}
  <2>1. PICK a \in assignments : f \in ResourceFindings(policy, monitors, a)
    BY <1>2, ReportClasses
  <2>2. f = g[a]
    BY <1>2, <2>1, ResourceFindingsOf
  <2> QED
    BY <2>2
<1>3. Named(report, "C1", "all") \in SUBSET {g[a] : a \in assignments}
  BY <1>2 DEF Named
<1> QED
  BY <1>1, <1>3, FS_Subset

LEMMA ExpiredFindings ==
  ASSUME NEW policy, NEW services, NEW resolved, NEW assignments, NEW monitors, NEW slos,
         NEW today, IsFiniteSet(ExpiredExceptions(policy, today))
  PROVE  IsFiniteSet(Named(RunChecks(policy, services, resolved, assignments, monitors, slos,
                                     today), "C12", "all"))
<1> DEFINE report == RunChecks(policy, services, resolved, assignments, monitors, slos, today)
           Expired == ExpiredExceptions(policy, today)
           g == [id \in Expired |-> Finding("C12", "all", <<"exception", id>>, "expired")]
<1>1. IsFiniteSet({g[id] : id \in Expired})
  BY ImageFinite, Zenon
<1>2. ASSUME NEW f \in report, f.check = "C12" PROVE f \in {g[id] : id \in Expired}
  <2>1. PICK id \in Expired : f = Finding("C12", "all", <<"exception", id>>, "expired")
    BY <1>2, ReportClasses
  <2> QED
    BY <2>1
<1>3. Named(report, "C12", "all") \in SUBSET {g[id] : id \in Expired}
  BY <1>2 DEF Named
<1> QED
  BY <1>1, <1>3, FS_Subset

LEMMA LiveErrorFindings ==
  ASSUME NEW policy, NEW services, NEW resolved, NEW assignments, NEW monitors, NEW slos,
         NEW today, IsFiniteSet({s.id : s \in {x \in slos : x.status = "error"}})
  PROVE  IsFiniteSet(Named(RunChecks(policy, services, resolved, assignments, monitors, slos,
                                     today), "C13", "live_slo_error"))
<1> DEFINE report == RunChecks(policy, services, resolved, assignments, monitors, slos, today)
           Errors == {s.id : s \in {x \in slos : x.status = "error"}}
           g == [id \in Errors |-> Finding("C13", "live_slo_error", <<"live", id>>, "error")]
<1>1. IsFiniteSet({g[id] : id \in Errors})
  <2>1. IsFiniteSet(Errors)
    OBVIOUS
  <2> HIDE DEF Errors, g
  <2> QED
    BY <2>1, ImageFinite, Zenon
<1>2. ASSUME NEW f \in report, f.check = "C13", f.class = "live_slo_error"
      PROVE  f \in {g[id] : id \in Errors}
  <2>1. PICK s \in {x \in slos : x.status = "error"} :
            f = Finding("C13", "live_slo_error", <<"live", s.id>>, "error")
    BY <1>2, ReportClasses
  <2> QED
    BY <2>1
<1>3. Named(report, "C13", "live_slo_error") \in SUBSET {g[id] : id \in Errors}
  BY <1>2 DEF Named
<1> QED
  BY <1>1, <1>3, FS_Subset

-------------------------------------------------------------------------------
(* The steps that decide.                                                  *)

LEMMA ReportsIsReport ==
  ASSUME [Next]_vars, Reports
  PROVE  Report
BY DEF Reports, Next, vars, Check, Merge, Validate, Apply, Gate, StartGovernance, NextDay, ByHand

LEMMA GatesIsGate ==
  ASSUME [Next]_vars, Gates
  PROVE  Gate
BY DEF Gates, Next, vars, Check, Merge, Validate, Apply, Report, StartGovernance, NextDay, ByHand

\* A verdict that is not red has no class of findings beyond its budget.
LEMMA GreenVerdict ==
  ASSUME TypeOK, [Next]_vars, Reports, verdict' # "red",
         NEW check, NEW class
  PROVE  LET report == Findings(governance.commit, governance.found)
         IN  /\ governance.commit \in Commits /\ governance.found \in Inventories
             /\ <<check, class>> \in Classes(report) =>
                    Unaccepted(Policy(governance.commit), day, report, check, class) = 0
<1>1. Report
  BY ReportsIsReport
<1>2. GovernancePass(Policy(governance.commit), day, Findings(governance.commit, governance.found))
  BY <1>1 DEF Report
<1> QED
  BY <1>2 DEF GovernancePass, TypeOK, Reports

LEMMA GreenGate ==
  ASSUME TypeOK, [Next]_vars, Gates, deploy'.phase = "green"
  PROVE  LET report == Findings(deploy.commit, inventory)
         IN  /\ deploy.commit \in Commits /\ inventory \in Inventories
             /\ <<"C1", "all">> \in Classes(report) =>
                    Unaccepted(Policy(deploy.commit), day, report, "C1", "all") = 0
<1>1. Gate
  BY GatesIsGate
<1>2. DeployPass(Policy(deploy.commit), day, Findings(deploy.commit, inventory))
  BY <1>1 DEF Gate, Idle
<1>3. BlocksDeploy(Finding("C1", "all", <<>>, "any"))
  BY DEF BlocksDeploy, Finding, EstateChecks
<1> QED
  BY <1>2, <1>3 DEF DeployPass, TypeOK

LEMMA FindingInjective ==
  ASSUME NEW check, NEW class, NEW sort, NEW what, NEW x, NEW y,
         Finding(check, class, <<sort, x>>, what) = Finding(check, class, <<sort, y>>, what)
  PROVE  x = y
<1>1. <<sort, x>> = <<sort, y>>
  BY DEF Finding
<1> QED
  BY <1>1

\* Of things that are each reported under an id of their own, no more are reported
\* than are accepted.
LEMMA EachIsReported ==
  ASSUME NEW commit \in Commits, NEW report, NEW check, NEW class, NEW sort, NEW what, NEW S,
         IsFiniteSet(Named(report, check, class)),
         \A id \in S : Finding(check, class, <<sort, id>>, what) \in report,
         <<check, class>> \in Classes(report) =>
             Unaccepted(Policy(commit), day, report, check, class) = 0
  PROVE  AcceptedBy(commit, check, class, S)
<1> DEFINE g == [id \in S |-> Finding(check, class, <<sort, id>>, what)]
<1>1. g \in [S -> Named(report, check, class)]
  <2>1. \A id \in S : Finding(check, class, <<sort, id>>, what) \in Named(report, check, class)
    <3> SUFFICES ASSUME NEW id \in S
                 PROVE  Finding(check, class, <<sort, id>>, what) \in Named(report, check, class)
      OBVIOUS
    <3>1. /\ Finding(check, class, <<sort, id>>, what).check = check
          /\ Finding(check, class, <<sort, id>>, what).class = class
      BY DEF Finding
    <3> QED
      BY <3>1 DEF Named
  <2> QED
    BY <2>1
<1>2. \A x, y \in S : g[x] = g[y] => x = y
  BY FindingInjective
<1>3. g \in Injection(S, Named(report, check, class))
  BY <1>1, <1>2 DEF Injection, IsInjective
<1> HIDE DEF g
<1> QED
  BY <1>3, NoMoreThanAccepted

-------------------------------------------------------------------------------
(* Objectives in error.                                                    *)

\* An objective that is in error was broken by hand.
LEMMA ErrorsAreBroken ==
  ASSUME TypeOK
  PROVE  {s.id : s \in {x \in LiveSlos : x.status = "error"}} \subseteq live.broken
<1> SUFFICES ASSUME NEW s \in LiveSlos, s.status = "error" PROVE s.id \in live.broken
  OBVIOUS
<1>1. PICK t \in Slos[live.commit] :
        s = [t EXCEPT !.status = IF t.id \in live.broken THEN "error" ELSE "ok"]
  BY DEF LiveSlos
<1>2. live.commit \in Commits
  BY DEF TypeOK
<1>3. "id" \in DOMAIN t /\ "status" \in DOMAIN t
  BY <1>2, TableIsFunction DEF Slos
<1> QED
  BY <1>1, <1>3

LEMMA ReportedErrors ==
  ASSUME TypeOK, [Next]_vars, Reports, verdict' # "red"
  PROVE  AcceptedBy(governance.commit, "C13", "live_slo_error",
                    {s.id : s \in {x \in LiveSlos : x.status = "error"}})
<1> DEFINE report == Findings(governance.commit, governance.found)
           Errors == {s.id : s \in {x \in LiveSlos : x.status = "error"}}
<1>1. IsFiniteSet(Errors)
  BY ErrorsAreBroken, FS_Subset DEF TypeOK
<1>2. IsFiniteSet(Named(report, "C13", "live_slo_error"))
  BY <1>1, LiveErrorFindings DEF Findings
<1>3. \A id \in Errors : Finding("C13", "live_slo_error", <<"live", id>>, "error") \in report
  BY ReportParts DEF Findings
<1>4. /\ governance.commit \in Commits
      /\ <<"C13", "live_slo_error">> \in Classes(report) =>
             Unaccepted(Policy(governance.commit), day, report, "C13", "live_slo_error") = 0
  BY GreenVerdict
<1> HIDE DEF report, Errors
<1>5. AcceptedBy(governance.commit, "C13", "live_slo_error", Errors)
  BY <1>2, <1>3, <1>4, EachIsReported
<1> QED
  BY <1>5 DEF Errors

\* No acceptance of another class, or of a declared dependency, hides objectives
\* in error: the governance run is red unless they are accepted as what they are.
THEOREM LiveErrorIsRedHolds == Spec => LiveErrorIsRed
<1>1. TypeOK /\ [Next]_vars =>
        (Reports /\ ~AcceptedBy(governance.commit, "C13", "live_slo_error",
                                {s.id : s \in {x \in LiveSlos : x.status = "error"}})
           => verdict' = "red")
  BY ReportedErrors
<1> QED
  BY <1>1, TypeCorrect, PTL DEF Spec, LiveErrorIsRed

-------------------------------------------------------------------------------
(* Exceptions that have run out.                                           *)

LEMMA LargestIndex ==
  ASSUME NEW n \in Nat, NEW S \in SUBSET (1..n), S # {}
  PROVE  \E x \in S : \A y \in S : y <= x
<1> DEFINE T == {n - x : x \in S}
<1>1. T \subseteq Nat /\ T # {}
  <2>1. \A x \in S : n - x \in Nat
    OBVIOUS
  <2>2. PICK x \in S : TRUE
    OBVIOUS
  <2>3. n - x \in T
    BY <2>2
  <2> QED
    BY <2>1, <2>3
<1>2. PICK t \in T : \A u \in T : ~(<<u, t>> \in OpToRel(<, Nat))
  BY <1>1, NatLessThanWellFounded, WFMin
<1>3. \A u \in T : ~(u < t)
  BY <1>1, <1>2 DEF OpToRel
<1>4. PICK x \in S : t = n - x
  BY <1>2
<1>5. \A y \in S : y <= x
  BY <1>3, <1>4
<1> QED
  BY <1>5

\* The exception on a profile is an entry of the file.
LEMMA ExceptionOfFile ==
  ASSUME NEW commit \in Commits, NEW service, NEW env,
         NEW e \in ExceptionOf(Policy(commit), service, env)
  PROVE  \E i \in DOMAIN Policy(commit).exceptions : e = Policy(commit).exceptions[i]
<1> DEFINE exceptions == Policy(commit).exceptions
           Latest(S) == CHOOSE i \in S : \A j \in S : j <= i
<1>1. Len(exceptions) \in Nat /\ DOMAIN exceptions = 1..Len(exceptions)
  BY PolicyOfCommit DEF RepositoryOK
<1>2. ASSUME NEW S \in SUBSET DOMAIN exceptions, S # {} PROVE Latest(S) \in DOMAIN exceptions
  BY <1>1, <1>2, LargestIndex
<1>3. \A x : ProfileExceptions(Policy(commit), service, x) \in SUBSET DOMAIN exceptions
  BY DEF ProfileExceptions
<1> QED
  BY <1>2, <1>3 DEF ExceptionOf

LEMMA ExpiredFinite ==
  ASSUME NEW commit \in Commits
  PROVE  IsFiniteSet(ExpiredExceptions(Policy(commit), day))
<1> DEFINE exceptions == Policy(commit).exceptions
           Past == {j \in DOMAIN exceptions : exceptions[j].expires < day}
           g == [i \in Past |-> exceptions[i].id]
<1>1. IsFiniteSet(Past)
  <2>1. Len(exceptions) \in Int /\ DOMAIN exceptions = 1..Len(exceptions)
    BY PolicyOfCommit DEF RepositoryOK
  <2>2. IsFiniteSet(1..Len(exceptions))
    BY <2>1, FS_Interval
  <2> QED
    BY <2>1, <2>2, FS_Subset
<1>2. IsFiniteSet({g[i] : i \in Past})
  BY <1>1, ImageFinite
<1>3. ExpiredExceptions(Policy(commit), day) = {g[i] : i \in Past}
  BY DEF ExpiredExceptions
<1> QED
  BY <1>2, <1>3

\* Each exception that has run out is a finding, so a run that is not red has
\* had any number of them accepted.
LEMMA LapsesCounted ==
  ASSUME TypeOK, [Next]_vars, Reports, verdict' # "red",
         NEW lapsed \in SUBSET ExpiredExceptions(Policy(governance.commit), day)
  PROVE  AcceptedBy(governance.commit, "C12", "all", lapsed)
<1> DEFINE policy == Policy(governance.commit)
           report == Findings(governance.commit, governance.found)
<1>1. /\ governance.commit \in Commits
      /\ <<"C12", "all">> \in Classes(report) =>
             Unaccepted(policy, day, report, "C12", "all") = 0
  BY GreenVerdict
<1>2. IsFiniteSet(Named(report, "C12", "all"))
  BY <1>1, ExpiredFinite, ExpiredFindings DEF Findings
<1>3. \A id \in ExpiredExceptions(policy, day) :
          Finding("C12", "all", <<"exception", id>>, "expired") \in report
  BY ReportParts DEF Findings
<1> HIDE DEF report
<1> QED
  BY <1>1, <1>2, <1>3, EachIsReported

LEMMA ReportedLapses ==
  ASSUME TypeOK, [Next]_vars, Reports, verdict' = "green"
  PROVE  AcceptedBy(governance.commit, "C12", "all",
                    {e.id : e \in {x \in Silencers(governance.commit, governance.found) :
                                      x.expires < day}})
<1> DEFINE policy == Policy(governance.commit)
           lapsed == {e.id : e \in {x \in Silencers(governance.commit, governance.found) :
                                       x.expires < day}}
<1>1. governance.commit \in Commits
  BY DEF TypeOK
<1>2. lapsed \subseteq ExpiredExceptions(policy, day)
  <2> SUFFICES ASSUME NEW e \in Silencers(governance.commit, governance.found), e.expires < day
               PROVE  e.id \in ExpiredExceptions(policy, day)
    OBVIOUS
  <2>1. PICK service, env : e \in ExceptionOf(policy, service, env)
    BY DEF Silencers
  <2>2. PICK i \in DOMAIN policy.exceptions : e = policy.exceptions[i]
    BY <1>1, <2>1, ExceptionOfFile
  <2> QED
    BY <2>2 DEF ExpiredExceptions
<1> HIDE DEF lapsed
<1>3. AcceptedBy(governance.commit, "C12", "all", lapsed)
  BY <1>2, LapsesCounted
<1> QED
  BY <1>3 DEF lapsed

\* No governance run is green while exceptions that have run out keep resources
\* silent, but for as many as somebody accepts.
THEOREM SilencedOnPurposeHolds == Spec => SilencedOnPurpose
<1>1. TypeOK /\ [Next]_vars =>
        (Reports /\ verdict' = "green" =>
           AcceptedBy(governance.commit, "C12", "all",
                      {e.id : e \in {x \in Silencers(governance.commit, governance.found) :
                                        x.expires < day}}))
  BY ReportedLapses
<1> QED
  BY <1>1, TypeCorrect, PTL DEF Spec, SilencedOnPurpose

\* The step behind ExpiryIsReported: a run that finds more exceptions past
\* their date than are accepted is red, whoever they silence and whoever uses
\* them at all.
THEOREM LapsesAreRedHolds ==
  Spec => [][/\ Reports
             /\ ~AcceptedBy(governance.commit, "C12", "all",
                            ExpiredExceptions(Policy(governance.commit), day))
             => verdict' = "red"]_vars
<1>1. TypeOK /\ [Next]_vars =>
        (/\ Reports
         /\ ~AcceptedBy(governance.commit, "C12", "all",
                        ExpiredExceptions(Policy(governance.commit), day))
         => verdict' = "red")
  BY LapsesCounted
<1> QED
  BY <1>1, TypeCorrect, PTL DEF Spec

-------------------------------------------------------------------------------
(* Resources that lack a monitor.                                          *)

\* The packs instantiate an archetype where it and the environment want it.
LEMMA PackInstanceOf ==
  ASSUME NEW commit \in Commits, NEW i \in PackInstances[commit]
  PROVE  i.env \in Policy(commit).archetypes[i.archetype].envs
         /\ i.band \in Policy(commit).archetypes[i.archetype].bands
<1> DEFINE policy == Policy(commit)
<1>1. i \in ArchetypeInstances(policy)
  BY TableIsFunction DEF PackInstances
<1>2. PICK j : /\ j \in {InstanceOf(policy, c) : c \in Candidates(policy)}
               /\ i.archetype = j.archetype /\ i.env = j.env /\ i.band = j.band
  <2>1. PICK j \in {InstanceOf(policy, c) : c \in Candidates(policy)} :
          \/ i = j
          \/ \E profile : i = [j EXCEPT !.priority = 4, !.pages = FALSE, !.profile = profile]
    BY <1>1 DEF ArchetypeInstances
  <2>2. {"archetype", "env", "band"} \subseteq DOMAIN j
    <3>1. PICK c \in Candidates(policy) : j = InstanceOf(policy, c)
      OBVIOUS
    <3> QED
      BY <3>1 DEF InstanceOf
  <2> QED
    BY <2>1, <2>2
<1>3. PICK c \in Candidates(policy) : j = InstanceOf(policy, c)
  BY <1>2
<1>4. j.archetype = c[1] /\ j.env = c[2] /\ j.band = c[3]
  BY <1>3 DEF InstanceOf
<1>5. c[2] \in policy.archetypes[c[1]].envs /\ c[3] \in policy.archetypes[c[1]].bands
  BY DEF Candidates
<1> QED
  BY <1>2, <1>4, <1>5

\* A live monitor of this archetype, environment and band stands for it, unless
\* it is one that was made by hand, and that has no band.
LEMMA DeployedStands ==
  ASSUME TypeOK, NEW aid, NEW env, NEW band, band # "none",
         <<env, band>> \in Deployed(LiveMonitors, aid)
  PROVE  <<aid, env, band>> \in {Combination(m) : m \in LiveMonitors \ {ClickOps}}
<1>1. PICK m \in LiveMonitors : /\ TagOf(m.tags, "archetype") = aid
                                /\ TagOf(m.tags, "env") = env
                                /\ TagOf(m.tags, "alert_band") = band
  BY DEF Deployed
<1>2. m # ClickOps
  <2> SUFFICES ASSUME m = ClickOps PROVE FALSE
    OBVIOUS
  <2>1. DOMAIN m.tags = {}
    BY DEF ClickOps
  <2> QED
    BY <1>1, <2>1 DEF TagOf, None
<1>3. m \in Monitors[live.commit]
  BY <1>1, <1>2 DEF LiveMonitors
<1>4. PICK i : m.tags = MonitorTags(Policy(live.commit), i)
  BY <1>3, TableIsFunction DEF Monitors, MonitorOf, TypeOK
<1>5. Combination(m) = <<aid, env, band>>
  BY <1>1, <1>4 DEF Combination, TagOf, MonitorTags
<1> QED
  BY <1>1, <1>2, <1>5

\* What nothing stands for is reported.
LEMMA UncoveredIsReported ==
  ASSUME TypeOK, NEW commit \in Commits, NEW found \in Inventories,
         NEW a \in Uncovered(commit, found)
  PROVE  Finding("C1", "all", <<"resource", a.id>>, "uncovered") \in Findings(commit, found)
<1> DEFINE policy == Policy(commit)
<1>1. /\ a \in Assignments[commit][found] /\ a.alert_band # "none"
      /\ \E i \in PackInstances[commit] :
            /\ <<i.archetype, i.env, i.band>>
                 \notin {Combination(m) : m \in LiveMonitors \ {ClickOps}}
            /\ i.archetype \in ArchetypesFor(policy, a.service_archetype, a.platform, TRUE)
            /\ i.env = a.env /\ i.band = a.alert_band
  BY DEF Uncovered, Alertable
<1>2. PICK i \in PackInstances[commit] :
        /\ <<i.archetype, i.env, i.band>> \notin {Combination(m) : m \in LiveMonitors \ {ClickOps}}
        /\ i.archetype \in ArchetypesFor(policy, a.service_archetype, a.platform, TRUE)
        /\ i.env = a.env /\ i.band = a.alert_band
  BY <1>1
<1>3. i.archetype \in MissingArchetypes(policy, LiveMonitors, a)
  BY <1>1, <1>2, DeployedStands, PackInstanceOf DEF MissingArchetypes
<1>4. Finding("C1", "all", <<"resource", a.id>>, "uncovered")
          \in ResourceFindings(policy, LiveMonitors, a)
  BY <1>1, <1>3 DEF ResourceFindings
<1> QED
  BY <1>1, <1>4, ReportParts DEF Findings

LEMMA CoverageReported ==
  ASSUME TypeOK, NEW commit \in Commits, NEW found \in Inventories,
         <<"C1", "all">> \in Classes(Findings(commit, found)) =>
             Unaccepted(Policy(commit), day, Findings(commit, found), "C1", "all") = 0
  PROVE  CoverageAccepted(commit, found)
<1> DEFINE report == Findings(commit, found)
           ids == {a.id : a \in Uncovered(commit, found)}
<1>1. IsFiniteSet(Assignments[commit][found])
  <2> DEFINE g == [r \in found |-> AssignOne(Policy(commit), Services(commit), {}, r)]
  <2>1. IsFiniteSet({g[r] : r \in found})
    BY EstateAssumption, ImageFinite
  <2>2. Assignments[commit][found] = {g[r] : r \in found}
    BY TableIsFunction DEF Assignments, Assign
  <2> QED
    BY <2>1, <2>2
<1>2. IsFiniteSet(Named(report, "C1", "all"))
  BY <1>1, UncoveredFindings DEF Findings
<1>3. \A id \in ids : Finding("C1", "all", <<"resource", id>>, "uncovered") \in report
  BY UncoveredIsReported
<1> HIDE DEF report, ids
<1>4. AcceptedBy(commit, "C1", "all", ids)
  BY <1>2, <1>3, EachIsReported DEF report
<1> QED
  BY <1>4 DEF ids, CoverageAccepted

\* Neither the governance run nor the deploy gate is green while more of the
\* resources it discovered lack a mandatory monitor than are accepted.
THEOREM GreenIsCoveredHolds == Spec => GreenIsCovered
<1>1. ASSUME TypeOK, [Next]_vars, Reports, verdict' = "green"
      PROVE  CoverageAccepted(governance.commit, governance.found)
  BY <1>1, GreenVerdict, CoverageReported
<1>2. ASSUME TypeOK, [Next]_vars, Gates, deploy'.phase = "green"
      PROVE  CoverageAccepted(deploy.commit, inventory)
  BY <1>2, GreenGate, CoverageReported
<1>3. TypeOK /\ [Next]_vars =>
        /\ Reports /\ verdict' = "green" => CoverageAccepted(governance.commit, governance.found)
        /\ Gates /\ deploy'.phase = "green" => CoverageAccepted(deploy.commit, inventory)
  BY <1>1, <1>2
<1> QED
  BY <1>3, TypeCorrect, PTL DEF Spec, GreenIsCovered

-------------------------------------------------------------------------------
(* The two catalogs.                                                       *)

\* What a suite that passed on some day has established of a commit.
LEMMA AcceptedPasses ==
  ASSUME NEW commit \in Commits, Accepted(commit)
  PROVE  \E d \in Days :
             /\ Lint(Repository[commit], d) = {}
             /\ SuiteAccepts(Policy(commit), Scores[commit])
             /\ \A m \in Manifests(commit) :
                    ManifestErrors(Policy(commit), Services(commit), m) = {}
<1>1. SuitePasses = [x \in Commits |->
        {d \in Days :
            /\ Lint(Repository[x], d) = {}
            /\ SuiteAccepts(Policy(x), Scores[x])
            /\ \A m \in Manifests(x) :
                   ManifestErrors(Policy(x), Services(x), m) = {}}]
  BY TableIsFunction, Zenon DEF SuitePasses
<1> QED
  BY <1>1, Zenon DEF Accepted

\* What the lint has established of an entity.
LEMMA LintedEntity ==
  ASSUME NEW commit \in Commits, Accepted(commit), NEW e \in Repository[commit].entities
  PROVE  LET policy == Policy(commit)
         IN  /\ e.kind \in DOMAIN policy.entity_kinds /\ e.kind # None
             /\ InferKind(policy, e) = e.kind /\ EntityKindOf(policy, e) = e.kind
             /\ PolicyOfEntity(policy, e) = KindSpec(policy, e)
             /\ e.team \in DOMAIN policy.teams
             /\ e.service_archetype = None
                  \/ e.service_archetype \in DOMAIN policy.service_archetypes
<1> DEFINE policy == Policy(commit)
           entities == Repository[commit].entities
<1>1. ValidateEntity(policy, entities, e) = {}
  <2>1. EntityErrors(Repository[commit]) = {}
    BY AcceptedPasses DEF Lint
  <2> QED
    BY <2>1, PolicyOfCommit DEF EntityErrors
<1>2. e.kind \in DOMAIN policy.entity_kinds
  BY <1>1 DEF ValidateEntity
<1>3. ArchetypeErrors(policy, e) = {} /\ {x \in {"team"} : e.team \notin DOMAIN policy.teams} = {}
  BY <1>1, <1>2 DEF ValidateEntity
<1>4. e.kind # None
  BY <1>2, PolicyOfCommit DEF RepositoryOK
<1>5. e.service_archetype = None \/ e.service_archetype \in DOMAIN policy.service_archetypes
  BY <1>3 DEF ArchetypeErrors
<1> QED
  BY <1>2, <1>3, <1>4, <1>5 DEF InferKind, EntityKindOf, PolicyOfEntity, KindPolicy, KindSpec

\* Both resolve a reference to the same kind and name.
LEMMA SameReference ==
  ASSUME NEW commit \in Commits, Accepted(commit), NEW ref, ref = <<ref[1], ref[2]>>
  PROVE  CatalogRef(Policy(commit), Repository[commit].entities, ref)
             = EntityRef(Policy(commit), Repository[commit].entities, ref)
<1> DEFINE policy == Policy(commit)
           entities == Repository[commit].entities
           target == {e \in entities : e.name = ref[2]}
           kinds == {KindSpec(policy, e).datadog_kind : e \in target} \ {None}
<1>1. CASE ref[1] # None
  BY <1>1 DEF CatalogRef, EntityRef, Given
<1>2. CASE ref[1] = None /\ target = {}
  <2>1. kinds = {}
    BY <1>2
  <2> QED
    BY <1>2, <2>1 DEF CatalogRef, EntityRef, Given
<1>3. CASE ref[1] = None /\ target # {}
  <2>1. PICK e \in entities : e.name = ref[2]
    BY <1>3
  <2>2. target = {e} /\ EntityNamed(entities, ref[2]) = e
    BY <2>1, PolicyOfCommit DEF RepositoryOK, EntityNamed
  <2>3. kinds = {DatadogKind(policy, e)} \ {None}
    BY <2>2, LintedEntity DEF DatadogKind
  <2>4. EntityRef(policy, entities, ref) = <<Given(DatadogKind(policy, e), "service"), ref[2]>>
    BY <1>3, <2>1, <2>2 DEF EntityRef
  <2>5. CASE DatadogKind(policy, e) = None
    <3>1. kinds = {}
      BY <2>3, <2>5
    <3> QED
      BY <1>3, <2>4, <2>5, <3>1 DEF CatalogRef, Given
  <2>6. CASE DatadogKind(policy, e) # None
    <3>1. kinds # {} /\ (CHOOSE k \in kinds : TRUE) = DatadogKind(policy, e)
      BY <2>3, <2>6
    <3> QED
      BY <1>3, <2>4, <2>6, <3>1 DEF CatalogRef, Given
  <2> QED
    BY <2>5, <2>6
<1> QED
  BY <1>1, <1>2, <1>3

\* Both put the same facets on an entity, but for the one of its objective.
\* What the stack calls it:
ObjectiveFacet(policy, e) ==
  <<"slo_profile", Given(e.slo.profile, policy.tiers[e.criticality].slo.scope)>>

LEMMA SameTags ==
  ASSUME NEW commit \in Commits, Accepted(commit), NEW e \in Repository[commit].entities
  PROVE  CatalogTags(Policy(commit), e)
             = {t \in ResolveTags(Policy(commit), e) : t[1] # "slo_scope"}
                   \cup {ObjectiveFacet(Policy(commit), e)}
<1> DEFINE policy == Policy(commit)
           profile == Given(e.monitoring_profile, policy.tiers[e.criticality].monitoring_profile)
           domain == ResolveDomain(policy, e)
           common ==
             {<<"entity_kind", e.kind>>, <<"team", e.team>>, <<"tier", e.criticality>>,
              <<"domain", domain>>, <<"monitoring_profile", profile>>,
              <<"alert_band", policy.profile_to_band[profile]>>}
           served == {<<"service", x.name>> : x \in {y \in {e} : KindSpec(policy, y).performance_data}}
           stated == {p \in {<<"service_archetype", e.service_archetype>>,
                             <<"platform", e.platform>>,
                             <<"compliance_scope", e.compliance_scope>>} : p[2] # None}
           called == {<<"oncall_team", t>> : t \in {OncallTeam(e)} \ {e.team}}
<1>1. domain = IF e.domain # None THEN e.domain
               ELSE IF e.service_archetype \in DOMAIN policy.service_archetypes
                    THEN policy.service_archetypes[e.service_archetype].domain
                    ELSE "platform"
  BY LintedEntity, PolicyOfCommit DEF ResolveDomain, RepositoryOK
<1>2. called = {<<"oncall_team", e.oncall>> : x \in {e.oncall} \ {None, e.team}}
  BY DEF OncallTeam, Given
<1>3. CatalogTags(policy, e) = common \cup {ObjectiveFacet(policy, e)}
          \cup served \cup stated \cup called
  BY <1>1, <1>2, LintedEntity DEF CatalogTags, ObjectiveFacet
<1>4. ResolveTags(policy, e) = common \cup {<<"slo_scope", ResolveSloScope(policy, e)>>}
          \cup served \cup stated \cup called
  BY LintedEntity DEF ResolveTags, ResolveMonitoringProfile, ResolveAlertBand
<1>5. <<"slo_scope", ResolveSloScope(policy, e)>>[1] = "slo_scope"
  OBVIOUS
<1>6. /\ \A t \in common : t[1] # "slo_scope"
      /\ \A t \in served : t[1] # "slo_scope"
      /\ \A t \in stated : t[1] # "slo_scope"
      /\ \A t \in called : t[1] # "slo_scope"
  OBVIOUS
<1> HIDE DEF common, served, stated, called
<1> QED
  BY <1>3, <1>4, <1>5, <1>6

\* A dependency or a component is resolved alike wherever it is carried.
LEMMA SameEdges ==
  ASSUME NEW commit \in Commits, Accepted(commit), NEW e \in Repository[commit].entities,
         NEW edges \in SUBSET (e.dependencies \cup e.components)
  PROVE  {CatalogRef(Policy(commit), Repository[commit].entities, d) : d \in edges}
             = {EntityRef(Policy(commit), Repository[commit].entities, d) : d \in edges}
<1>1. \A d \in edges : d = <<d[1], d[2]>>
  BY PolicyOfCommit DEF RepositoryOK
<1> QED
  BY <1>1, SameReference

\* And a part has the systems that list it.
LEMMA SameSystems ==
  ASSUME NEW commit \in Commits, Accepted(commit), NEW name
  PROVE  {s \in {x.name : x \in Repository[commit].entities} :
             <<s, name>> \in SystemMembers(Policy(commit), Repository[commit].entities)}
             = SystemsOf(Policy(commit), Repository[commit].entities, name)
<1> DEFINE policy == Policy(commit)
           entities == Repository[commit].entities
           systems == {x \in entities : KindSpec(policy, x).spec_components}
<1>1. systems = {x \in entities : PolicyOfEntity(policy, x).spec_components}
  BY LintedEntity
<1>2. ASSUME NEW s
      PROVE  <<s, name>> \in SystemMembers(policy, entities)
                 <=> \E x \in systems : s = x.name /\ \E c \in x.components : c[2] = name
  BY DEF SystemMembers
<1>3. SystemsOf(policy, entities, name)
          = {x.name : x \in {y \in systems : \E c \in y.components : c[2] = name}}
  BY <1>1 DEF SystemsOf
<1> HIDE DEF policy
<1> QED
  BY <1>2, <1>3 DEF policy

DocumentFields == {"kind", "name", "tags", "owner", "contacts", "additionalOwners", "tier",
                   "dependsOn", "components", "componentOf"}

LEMMA AsDeployedFields ==
  ASSUME NEW policy, NEW e, NEW d, DOMAIN d = DocumentFields
  PROVE  AsDeployed(policy, e, d)
           = [x \in DocumentFields |->
                IF x = "componentOf"
                THEN IF KindSpec(policy, e).spec_component_of THEN d.componentOf ELSE {}
                ELSE IF x = "tags"
                THEN {t \in d.tags : t[1] # "slo_scope"} \cup {ObjectiveFacet(policy, e)}
                ELSE d[x]]
BY DEF AsDeployed, ObjectiveFacet

LEMMA SameDocument ==
  ASSUME NEW commit \in Commits, Accepted(commit), NEW e \in Repository[commit].entities
  PROVE  CatalogDocument(Policy(commit), Repository[commit].entities, e)
             = AsDeployed(Policy(commit), e, EntityDocument(
                   Resolve(Policy(commit), Repository[commit].entities, e)))
<1> DEFINE policy == Policy(commit)
           entities == Repository[commit].entities
           c == CatalogDocument(policy, entities, e)
           r == EntityDocument(Resolve(policy, entities, e))
           spec == KindSpec(policy, e)
<1>1. PolicyOfEntity(policy, e) = spec /\ e.team \in DOMAIN policy.teams
  BY LintedEntity
<1>2. c.kind = r.kind /\ c.name = r.name /\ c.owner = r.owner /\ c.tier = r.tier
  BY <1>1 DEF CatalogDocument, EntityDocument, Resolve, DatadogKind, ResolveOwnership
<1>3. c.contacts = r.contacts
  <2>1. {policy.teams[t].email : t \in {e.team} \cap DOMAIN policy.teams}
            = {policy.teams[e.team].email}
    BY <1>1
  <2> QED
    BY <2>1 DEF CatalogDocument, EntityDocument, Resolve, ResolveOwnership
<1>4. c.additionalOwners = r.additionalOwners
  BY DEF CatalogDocument, EntityDocument, Resolve, ResolveOwnership, OncallTeam
<1>5. c.dependsOn = r.dependsOn
  BY <1>1, SameEdges DEF CatalogDocument, EntityDocument, Resolve, ResolveDependencies
<1>6. c.components = r.components
  BY <1>1, SameEdges DEF CatalogDocument, EntityDocument, Resolve, ResolveComponents
<1>7. c.componentOf = IF spec.spec_component_of THEN r.componentOf ELSE {}
  BY SameSystems DEF CatalogDocument, EntityDocument, Resolve
<1>8. c.tags = {t \in r.tags : t[1] # "slo_scope"} \cup {ObjectiveFacet(policy, e)}
  BY SameTags DEF CatalogDocument, EntityDocument, Resolve
<1>9. /\ DOMAIN c = DocumentFields /\ DOMAIN r = DocumentFields
      /\ c = [x \in DocumentFields |-> c[x]]
  BY DEF CatalogDocument, EntityDocument, DocumentFields
<1> HIDE DEF c, r, spec
<1>10. \A x \in DocumentFields \ {"tags", "componentOf"} : c[x] = r[x]
  BY <1>2, <1>3, <1>4, <1>5, <1>6 DEF DocumentFields
<1>11. AsDeployed(policy, e, r)
         = [x \in DocumentFields |->
              IF x = "componentOf" THEN IF spec.spec_component_of THEN r.componentOf ELSE {}
              ELSE IF x = "tags"
              THEN {t \in r.tags : t[1] # "slo_scope"} \cup {ObjectiveFacet(policy, e)}
              ELSE r[x]]
  BY <1>9, AsDeployedFields DEF spec
<1>12. c = AsDeployed(policy, e, r)
  BY <1>7, <1>8, <1>9, <1>10, <1>11
<1> QED
  BY <1>12 DEF c, r

LEMMA AcceptedAgrees ==
  ASSUME NEW commit \in Commits, Accepted(commit)
  PROVE  CatalogAgrees[commit]
<1> DEFINE Same(k) ==
             Catalog(Policy(k), Repository[k].entities)
               = {AsDeployed(Policy(k), e, EntityDocument(
                      Resolve(Policy(k), Repository[k].entities, e))) :
                    e \in {x \in Repository[k].entities : Emits(Policy(k), x)}}
           policy == Policy(commit)
           entities == Repository[commit].entities
<1>1. {x \in entities : KindSpec(policy, x).emits} = {x \in entities : Emits(policy, x)}
  BY LintedEntity DEF Emits
<1>2. Same(commit)
  BY <1>1, SameDocument DEF Catalog
<1>3. CatalogAgrees = [k \in Commits |-> Same(k)]
  BY TableIsFunction, Zenon DEF CatalogAgrees
<1> HIDE DEF Same
<1> QED
  BY <1>2, <1>3

\* What is live, and what is about to be, has passed the suite.
LiveInv ==
  /\ Accepted(live.catalog) /\ Accepted(live.commit)
  /\ deploy.phase = "validated" => Accepted(deploy.commit)

LEMMA LiveAccepted == Spec => []LiveInv
<1>1. Init => LiveInv
  BY RepositoryAssumption DEF Init, LiveInv, Idle
<1>2. TypeOK /\ LiveInv /\ [Next]_vars => LiveInv'
  <2> SUFFICES ASSUME TypeOK, LiveInv, [Next]_vars PROVE LiveInv'
    OBVIOUS
  <2>1. CASE Validate
    <3>1. day \in SuitePasses[Main] => Accepted(Main)
      BY DEF Accepted
    <3> QED
      BY <2>1, <3>1 DEF Validate, LiveInv, Idle, Accepted
  <2>2. CASE Apply
    BY <2>2 DEF Apply, LiveInv, Idle, TypeOK, Accepted
  <2>3. CASE Gate
    BY <2>3 DEF Gate, LiveInv, Idle, Accepted
  <2>4. CASE ByHand
    BY <2>4 DEF ByHand, LiveInv, TypeOK, Accepted
  <2>5. CASE UNCHANGED <<deploy, live>>
    BY <2>5 DEF LiveInv, Accepted
  <2> QED
    BY <2>1, <2>2, <2>3, <2>4, <2>5
       DEF Next, vars, Check, Merge, StartGovernance, Report, NextDay
<1> QED
  BY <1>1, <1>2, TypeCorrect, PTL DEF Spec

\* The catalog Terraform has built says what the reference resolver answers with,
\* but for what AsDeployed excepts, whatever was merged and however far an apply came.
THEOREM CatalogAsResolvedHolds == Spec => []CatalogAsResolved
<1>1. TypeOK /\ LiveInv => CatalogAsResolved
  BY AcceptedAgrees DEF TypeOK, LiveInv, CatalogAsResolved
<1> QED
  BY <1>1, TypeCorrect, LiveAccepted, PTL

===============================================================================
