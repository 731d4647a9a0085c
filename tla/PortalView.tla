------------------------------ MODULE PortalView ------------------------------
(***************************************************************************)
(* The executive portal's answers as functions of the sources a request    *)
(* has read: portal/app/datadog.py parses what Datadog said, view.py joins *)
(* it with the policy and the reports, sources.py rolls states up.         *)
(*                                                                         *)
(* reg is the registry of a request: source -> [status, version, ...] for  *)
(* the sources read so far.  Wording, links and sorting are left out.  A   *)
(* number that may be missing is a set of at most one number; a missing    *)
(* name is "", a missing key <<>>.  SLIs and targets are in tenths of a    *)
(* percent, budgets in percent, times in days.                             *)
(***************************************************************************)
EXTENDS Integers, Sequences, FiniteSetsExt, Functions

CONSTANTS
    Contents,       \* [source -> [version -> what it holds]]
    AvailabilityIds, \* the slo_ids that have "availability" in them
    Correlate(_),   \* signals -> groups: tools/correlate_events.py
    Correlates(_)   \* whether it ends without an exception

-----------------------------------------------------------------------------
(* sources.py: measures and how states are rolled up. *)

Measure(value, state) == [known |-> TRUE, value |-> value, state |-> state]
Unknown == [known |-> FALSE, value |-> {}, state |-> "unknown"]

WorstFirst == <<"unknown", "critical", "risk", "watch", "neutral", "ok">>

\* What cannot be seen outranks what is broken.
WorstState(states) ==
    IF states = {} THEN "ok"
    ELSE WorstFirst[Min({i \in DOMAIN WorstFirst : WorstFirst[i] \in states})]

\* For the headline: the worst that is known, a blind spot second.
Rollup(states) ==
    LET known == states \ {"unknown"}
    IN  IF states # {} /\ known = {} THEN "unknown"
        ELSE IF known = {"ok"} /\ "unknown" \in states THEN "watch"
        ELSE WorstState(known)

Ok(reg, source) == source \in DOMAIN reg /\ reg[source].status # "unavailable"
DataOf(reg, source) == Contents[source][reg[source].version]

\* A panel is unknown when its source is, whatever else the code has at hand.
IfRead(reg, source, panel) == IF Ok(reg, source) THEN panel ELSE Unknown

Count(S) == {Cardinality(S)}
Percent(S, all) == IF all = {} THEN {} ELSE {(100 * Cardinality(S)) \div Cardinality(all)}
\* Of the values of a function.
Mean(f) == IF DOMAIN f = {} THEN {} ELSE {SumFunction(f) \div Cardinality(DOMAIN f)}
Either(name, other) == IF name # "" THEN name ELSE other
The(optional) == CHOOSE x \in optional : TRUE

-----------------------------------------------------------------------------
(* datadog.py: the adapters. *)

\* An objective has the status of its own timeframe, or the first one there is.
ParseSlos(payload) ==
    {LET tf == IF s.thresholds = <<>> THEN 30 ELSE s.thresholds[1].timeframe
         own == {i \in DOMAIN s.statuses : s.statuses[i].timeframe = tf}
         status == IF s.statuses = <<>> THEN [sli |-> {}, budget |-> {}, error |-> FALSE]
                   ELSE s.statuses[IF own = {} THEN 1 ELSE Min(own)]
     IN  [slo_id |-> Either(s.tags.slo_id, s.id), domain |-> s.tags.domain,
          service |-> s.tags.service, timeframe |-> tf,
          target |-> IF s.thresholds = <<>> THEN {} ELSE {s.thresholds[1].target},
          sli |-> status.sli, budget |-> status.budget, error |-> status.error] :
        s \in payload}

\* An incident that carries no detection was detected when it was created.
ParseIncidents(payload, now) ==
    {LET detected == IF i.detected # {} THEN i.detected ELSE i.created
         Since(end) == IF i.created = {} \/ end = {} THEN {} ELSE {The(end) - The(i.created)}
     IN  [id |-> i.id, severity |-> Either(i.severity, "UNKNOWN"),
          active |-> i.state \notin {"resolved", "completed", "stable"},
          services |-> i.services, cause |-> i.cause, correlation_key |-> i.correlation_key,
          created |-> i.created, resolved |-> i.resolved,
          duration |-> Since(IF i.resolved # {} THEN i.resolved ELSE {now}),
          to_detect |-> Since(detected), to_resolve |-> Since(i.resolved)] : i \in payload}

\* An alert without the platform's keys is a signal and a group of its own.
ParseEvents(payload) ==
    {LET Key(key) == IF key # <<>> THEN key ELSE <<"unmanaged", e.id>>
     IN  [id |-> e.id, correlation_key |-> Key(e.correlation_key), dedup_key |-> Key(e.dedup_key),
          archetype |-> e.archetype, service |-> e.service, maintenance |-> e.maintenance,
          kind |-> IF e.status \in {"ok", "success", "recovery"} THEN "recovery"
                   ELSE IF e.change THEN "change" ELSE "alert"] : e \in payload}

\* A schedule is staffed by the members of its layers.
ParseOncall(payload) ==
    LET Members(s) == UNION {payload.members[l] : l \in s.layers \cap DOMAIN payload.members}
    IN  [total |-> payload.schedules,
         staffed |-> {s \in payload.schedules : Members(s) # {}}]

\* The newest version is the last in the order of strings.
ParseFleet(payload) ==
    LET versions == {h.version : h \in payload.hosts} \ {0}
    IN  [known |-> IF payload.total = {} THEN Cardinality(payload.hosts) ELSE The(payload.total),
         expected |-> payload.expected,
         newest |-> {h \in payload.hosts : versions # {} /\ h.version = Max(versions)}]

\* The last billed day's month to date, projected over thirty days.
ParseCost(payload) ==
    LET billed == {d \in payload : d.total # {}}
        last == CHOOSE d \in billed : \A e \in billed : d.day >= e.day
    IN  IF billed = {} THEN [spent |-> {}, forecast |-> {}]
        ELSE [spent |-> last.total,
              forecast |-> IF last.day = 0 THEN {} ELSE {(30 * The(last.total)) \div last.day}]

-----------------------------------------------------------------------------
(* view.py: the collections the panels share. *)

BudgetRisk == 25
BudgetWatch == 50
Tier1Target == 999

SeverityState(severity) ==
    CASE severity = "SEV-1" -> "critical"
      [] severity = "SEV-2" -> "risk"
      [] severity \in {"SEV-4", "SEV-5"} -> "neutral"
      [] OTHER -> "watch"

SloState(row) ==
    CASE row.error \/ row.sli = {} -> "unknown"
      [] \E b \in row.budget : b <= 0 -> "critical"
      [] \E b \in row.budget : b < BudgetRisk -> "risk"
      [] \E b \in row.budget : b < BudgetWatch -> "watch"
      [] \E s \in row.sli, t \in row.target : s < t -> "risk"
      [] OTHER -> "ok"

CatalogSlos(reg) == IF Ok(reg, "policy") THEN DataOf(reg, "policy").slos ELSE <<>>

\* Datadog's rows, completed from the objective's declaration.
Slos(reg) ==
    IF ~Ok(reg, "slos") THEN {}
    ELSE {LET declared == IF row.slo_id \in DOMAIN CatalogSlos(reg)
                          THEN CatalogSlos(reg)[row.slo_id] ELSE [domain |-> "", service |-> ""]
          IN  [row EXCEPT !.domain = Either(@, declared.domain),
                          !.service = Either(@, declared.service)] :
             row \in ParseSlos(DataOf(reg, "slos"))}

Incidents(reg, now) ==
    IF ~Ok(reg, "incidents") THEN {} ELSE ParseIncidents(DataOf(reg, "incidents"), now)
Active(reg, now) == {i \in Incidents(reg, now) : i.active}

Signals(reg) == IF Ok(reg, "events") THEN ParseEvents(DataOf(reg, "events")) ELSE {}
RawAlerts(reg) == {s \in Signals(reg) : s.kind = "alert" /\ ~s.maintenance}

\* No group is known where the stream is not, or where correlate() raised.
Correlated(reg) == Ok(reg, "events") /\ Correlates(Signals(reg))
Groups(reg) == IF Correlated(reg) THEN Correlate(Signals(reg)) ELSE {}

\* Registered services declare a tier; the catalog's services have a domain.
ModelOf(policy) ==
    LET Declared(name) == {policy.slos[id].domain :
                               id \in {x \in DOMAIN policy.slos : policy.slos[x].service = name}}
        names == DOMAIN policy.services \cup {policy.slos[id].service : id \in DOMAIN policy.slos}
    IN  [name \in names \ {""} |->
            [tier |-> IF name \in DOMAIN policy.services THEN policy.services[name] ELSE "",
             domain |-> IF Declared(name) \ {""} = {} THEN "" ELSE The(Declared(name) \ {""})]]
ServiceModel(reg) == IF Ok(reg, "policy") THEN ModelOf(DataOf(reg, "policy")) ELSE <<>>

Reconciliation(reg) == IF Ok(reg, "reconciliation") THEN DataOf(reg, "reconciliation") ELSE {}

-----------------------------------------------------------------------------
(* Systems: the domains of the policy. *)

SystemSlos(slos, id) == {s \in slos : s.domain = id}

\* An incident belongs to the system of a service it records, once for each.
SystemIncidents(active, services, id) ==
    UNION {{<<i, name>> : name \in {n \in i.services \cap DOMAIN services :
                                        services[n].domain = id}} : i \in active}

SystemState(slos, incidents) ==
    LET states == {SloState(s) : s \in slos} \cup {SeverityState(i[1].severity) : i \in incidents}
    IN  IF states = {} THEN "unknown" ELSE WorstState(states)

\* Critical by the promise of its objectives, or by the tier of a service.
CriticalSystem(slos, services, id) ==
    \/ \E s \in slos : \E t \in s.target : t >= Tier1Target
    \/ \E name \in DOMAIN services :
           services[name].domain = id /\ services[name].tier \in {"tier0", "tier1"}

\* Each monitor counts for the domain of its objective.
MonitorsOf(reg, id) ==
    {row \in Reconciliation(reg) :
        row.slo \in DOMAIN CatalogSlos(reg) /\ CatalogSlos(reg)[row.slo].domain = id}

Grade(reg, id) ==
    IF Ok(reg, "scorecard") /\ id \in DOMAIN DataOf(reg, "scorecard")
    THEN DataOf(reg, "scorecard")[id] ELSE ""

SystemRow(reg, services, id, slos, incidents) ==
    [id |-> id, state |-> SystemState(slos, incidents),
     critical |-> CriticalSystem(slos, services, id),
     slos |-> Count(slos), incidents |-> Count(incidents),
     monitors |-> MonitorsOf(reg, id), grade |-> Grade(reg, id)]

SystemsOf(reg, slos, active, services) ==
    {SystemRow(reg, services, id, SystemSlos(slos, id), SystemIncidents(active, services, id)) :
        id \in DataOf(reg, "policy").domains}

Systems(reg, now) ==
    IF Ok(reg, "policy") THEN SystemsOf(reg, Slos(reg), Active(reg, now), ServiceModel(reg)) ELSE {}

-----------------------------------------------------------------------------
(* The panels of the overview, each a measure. *)

IncidentPanel(reg, now, severity, state) ==
    LET of == {i \in Active(reg, now) : i.severity = severity}
    IN  IfRead(reg, "incidents", Measure(Count(of), IF of = {} THEN "ok" ELSE state))

Tier1Panel(reg, systems) ==
    LET critical == {s \in systems : s.critical}
    IN  IfRead(reg, "slos", Measure(Count({s \in critical : s.state = "ok"}),
                                    WorstState({s.state : s \in critical})))

Computable(reg) == {s \in Slos(reg) : ~s.error /\ s.sli # {}}

AttainmentPanel(reg) ==
    LET met == {s \in Slos(reg) : \E v \in s.sli, t \in s.target : v >= t}
    IN  IfRead(reg, "slos",
            IF Computable(reg) = {} THEN Unknown
            ELSE LET pct == The(Percent(met, Computable(reg)))
                 IN  Measure({pct}, IF pct >= 100 THEN "ok" ELSE IF pct >= 90 THEN "watch" ELSE "risk"))

ErrorBudgetPanel(reg) ==
    LET AtMost(limit) == {s \in Computable(reg) : \E b \in s.budget : b <= limit}
    IN  IfRead(reg, "slos",
            Measure(Count(AtMost(0)), IF AtMost(0) # {} THEN "critical"
                                      ELSE IF AtMost(BudgetRisk - 1) # {} THEN "risk" ELSE "ok"))

AvailabilityPanel(reg) ==
    LET mean == Mean([s \in {x \in Computable(reg) : x.slo_id \in AvailabilityIds} |-> The(s.sli)])
    IN  IfRead(reg, "slos",
            IF mean = {} THEN Unknown
            ELSE Measure(mean, IF The(mean) >= Tier1Target THEN "ok"
                               ELSE IF The(mean) >= 990 THEN "risk" ELSE "critical"))

\* Mean times to resolve and to detect, over the incidents that have one.
MeanTimePanel(reg, now, time) ==
    LET mean == Mean([i \in {x \in Incidents(reg, now) : x[time] # {}} |-> The(i[time])])
    IN  IfRead(reg, "incidents", IF mean = {} THEN Unknown ELSE Measure(mean, "neutral"))

\* Six weeks of incidents: the last three against the three before.
TrendPanel(reg, now) ==
    LET Opened(weeks) == {i \in Incidents(reg, now) :
                             \E c \in i.created : (now - c) \div 7 \in weeks}
        recent == Cardinality(Opened(0..2))
        prior == Cardinality(Opened(3..5))
    IN  IfRead(reg, "incidents",
            IF Opened(0..5) = {} THEN Unknown
            ELSE Measure({recent - prior}, IF recent > prior THEN "risk"
                                           ELSE IF recent < prior THEN "ok" ELSE "neutral"))

\* Days until the budget is gone at the window's average burn.
DaysToExhaustion(row) ==
    IF row.budget = {} THEN {}
    ELSE LET b == The(row.budget)
         IN  IF b <= 0 THEN {0} ELSE IF b >= 100 THEN {} ELSE {(b * row.timeframe) \div (100 - b)}

ForecastPanel(reg) ==
    LET Within(days) == {s \in Slos(reg) : ~s.error /\ \E d \in DaysToExhaustion(s) : d <= days}
    IN  IfRead(reg, "slos",
            Measure(Count(Within(30)), IF Within(3) # {} THEN "critical"
                                       ELSE IF Within(30) # {} THEN "risk" ELSE "ok"))

\* A correlation key with more than one group: a failure that returned.
RecurringPanel(reg) ==
    LET Times(key) == Cardinality({g \in Groups(reg) : g.key = key})
        AtLeast(n) == {key \in {g.key : g \in Groups(reg)} : Times(key) >= n}
    IN  IF ~Correlated(reg) THEN Unknown
        ELSE Measure(Count(AtLeast(2)), IF AtLeast(3) # {} THEN "risk"
                                        ELSE IF AtLeast(2) # {} THEN "watch" ELSE "ok")

\* Systems with a predictive monitor firing; without the policy none is known.
CapacityPanel(reg) ==
    LET forecasts == IF Ok(reg, "policy") THEN DataOf(reg, "policy").forecasts ELSE {}
        firing == {s.service : s \in {x \in Signals(reg) :
                                         x.kind = "alert" /\ x.archetype \in forecasts}} \ {""}
    IN  IF ~Correlated(reg) THEN Unknown
        ELSE Measure(Count(firing), IF Cardinality(firing) >= 3 THEN "risk"
                                    ELSE IF firing # {} THEN "watch" ELSE "ok")

FleetPanel(reg) ==
    IfRead(reg, "fleet",
        LET fleet == ParseFleet(DataOf(reg, "fleet"))
        IN  Measure({fleet.known}, IF fleet.expected \subseteq {0} THEN "watch"
                                   ELSE IF fleet.known < The(fleet.expected) THEN "risk" ELSE "ok"))

AgentPanel(reg) ==
    IfRead(reg, "fleet",
        LET fleet == ParseFleet(DataOf(reg, "fleet"))
            pct == (100 * fleet.known) \div The(fleet.expected)
        IN  IF fleet.expected \subseteq {0} THEN Unknown
            ELSE Measure({pct}, IF pct >= 99 THEN "ok" ELSE "risk"))

\* Unknown only when both of its sources are.
TelemetryPanel(reg) ==
    LET declared == IF Ok(reg, "coverage") THEN DataOf(reg, "coverage").gaps ELSE {}
        broken == {s.slo_id : s \in {x \in Slos(reg) : x.error}}
    IN  IF ~Ok(reg, "coverage") /\ ~Ok(reg, "slos") THEN Unknown
        ELSE Measure({Cardinality(declared) + Cardinality(broken)},
                     IF broken # {} THEN "critical" ELSE IF declared # {} THEN "watch" ELSE "ok")

CostPanel(reg) ==
    IfRead(reg, "cost",
        LET cost == ParseCost(DataOf(reg, "cost"))
        IN  IF cost.spent = {} THEN Unknown ELSE Measure(cost.forecast, "neutral"))

OwnershipPanel(reg) ==
    IfRead(reg, "coverage",
        LET c == DataOf(reg, "coverage")
        IN  IF c.resources = 0 THEN Unknown
            ELSE Measure({(100 * (c.resources - c.unowned)) \div c.resources},
                         IF c.unowned = 0 THEN "ok" ELSE "risk"))

MonitoringPanel(reg) ==
    IfRead(reg, "coverage",
        LET pct == DataOf(reg, "coverage").coverage_pct
        IN  Measure(pct, IF \E p \in pct : p >= 100 THEN "ok" ELSE "risk"))

RunbookPanel(reg) ==
    LET attached == {row \in Reconciliation(reg) : row.attached}
    IN  IfRead(reg, "reconciliation",
            Measure(Percent(attached, Reconciliation(reg)),
                    IF attached = Reconciliation(reg) THEN "ok" ELSE "risk"))

SloCoveragePanel(reg) ==
    LET services == {row.service : row \in Reconciliation(reg)} \ {""}
        promised == {row.service : row \in {r \in Reconciliation(reg) : r.slo # ""}} \ {""}
    IN  IfRead(reg, "reconciliation",
            Measure(Percent(promised, services), IF promised = services THEN "ok" ELSE "risk"))

OncallPanel(reg) ==
    IfRead(reg, "oncall",
        LET oncall == ParseOncall(DataOf(reg, "oncall"))
        IN  Measure(Percent(oncall.staffed, oncall.total),
                    IF oncall.total # {} /\ oncall.staffed = oncall.total THEN "ok"
                    ELSE IF oncall.staffed = {} THEN "critical" ELSE "risk"))

-----------------------------------------------------------------------------
(* The answers. *)

Unavailable(reg) == {source \in DOMAIN reg : ~Ok(reg, source)}
Stale(reg) == {source \in DOMAIN reg : reg[source].status = "stale"}

Freshness(reg) ==
    [state |-> IF reg = <<>> THEN "unknown"
               ELSE IF Unavailable(reg) # {} THEN "critical"
               ELSE IF Stale(reg) # {} THEN "risk" ELSE "ok",
     unavailable |-> Unavailable(reg), stale |-> Stale(reg)]

\* The sentence under the headline as the set of facts it states.
OverallNote(state, systems, active) ==
    LET Running(severity) == \E i \in active : i.severity = severity
        InState(states) == \E s \in systems : s.state \in states
    IN  IF state = "unknown" THEN {"nothing visible"}
        ELSE {IF Running("SEV-1") THEN "P1"
              ELSE IF Running("SEV-2") THEN "P2"
              ELSE IF InState({"critical", "risk", "watch"}) THEN "degraded" ELSE "healthy"}
             \cup (IF InState({"unknown"}) THEN {"blind"} ELSE {})

Health(reg, systems, active) ==
    Rollup({s.state : s \in systems} \cup {SeverityState(i.severity) : i \in active}
             \cup (IF Ok(reg, "slos") /\ Ok(reg, "incidents") THEN {} ELSE {"unknown"}))

\* (A source that is down leaves the headline to those that are up.)
OverallByWhatIsRead(reg, systems, active) ==
    [state |-> Health(reg, systems, active),
     note |-> OverallNote(Health(reg, systems, active), systems, active)]

\* With any source down, one sentence replaces what the page knows.
Overall(reg, systems, active) ==
    IF Unavailable(reg) = {}
    THEN [state |-> Health(reg, systems, active),
          note |-> OverallNote(Health(reg, systems, active), systems, active)]
    ELSE [state |-> "unknown", note |-> {"incomplete"}]

EventReduction(reg) ==
    LET incidents == {g \in Groups(reg) : g.creates_incident}
        raw == Cardinality(RawAlerts(reg))
    IN  IF ~Correlated(reg) THEN [available |-> FALSE]
        ELSE [available |-> TRUE, raw |-> raw, correlated |-> Cardinality(Groups(reg)),
              incidents |-> Cardinality(incidents),
              paging |-> MapThenSumSet(LAMBDA g : g.pages, Groups(reg)),
              pct |-> IF raw = 0 THEN {} ELSE {(100 * (raw - Cardinality(incidents))) \div raw}]

\* An incident's group is one with its correlation key.
GroupOf(reg, key) == {g \in Groups(reg) : key # <<>> /\ g.key = key}

\* The cause is the recorded one, or the service of the group's parent.
ActiveIncidents(reg, now) ==
    {LET groups == GroupOf(reg, i.correlation_key)
     IN  [id |-> i.id, severity |-> i.severity,
          cause |-> Either(i.cause, IF groups = {} THEN "" ELSE The(groups).parent),
          signals |-> IF groups = {} THEN {} ELSE {1 + Cardinality(The(groups).children)}] :
        i \in Active(reg, now)}

OverviewOf(reg, now, systems) ==
    [overall |-> Overall(reg, systems, Active(reg, now)),
     systems |-> systems,
     incidents |-> ActiveIncidents(reg, now),
     reduction |-> EventReduction(reg),
     panels |-> [p1 |-> IncidentPanel(reg, now, "SEV-1", "critical"),
                 p2 |-> IncidentPanel(reg, now, "SEV-2", "risk"),
                 tier1 |-> Tier1Panel(reg, systems), attainment |-> AttainmentPanel(reg),
                 error_budget |-> ErrorBudgetPanel(reg),
                 availability |-> AvailabilityPanel(reg),
                 mttr |-> MeanTimePanel(reg, now, "to_resolve"),
                 mttd |-> MeanTimePanel(reg, now, "to_detect"),
                 trend |-> TrendPanel(reg, now), forecast |-> ForecastPanel(reg),
                 recurring |-> RecurringPanel(reg), capacity |-> CapacityPanel(reg),
                 fleet |-> FleetPanel(reg), telemetry |-> TelemetryPanel(reg),
                 cost |-> CostPanel(reg), ownership |-> OwnershipPanel(reg),
                 monitoring |-> MonitoringPanel(reg), runbook |-> RunbookPanel(reg),
                 slo |-> SloCoveragePanel(reg), oncall |-> OncallPanel(reg),
                 agent |-> AgentPanel(reg)]]

Overview(reg, now) == OverviewOf(reg, now, Systems(reg, now))

\* What the service's objectives say; nothing said is nothing known.
ServiceState(slos, name) ==
    LET own == {s \in slos : s.service = name}
    IN  IF own = {} THEN "unknown" ELSE WorstState({SloState(s) : s \in own})

\* (The domain's name is looked for among the services an incident records.)
SystemIncidentRowsByName(active, services, id) == {i \in active : id \in i.services}

\* Active incidents that record a service of the system.
SystemIncidentRows(active, services, id) ==
    {i \in active : \E n \in i.services \cap DOMAIN services : services[n].domain = id}

SystemPage(id, systems, slos, active, services) ==
    [system |-> {s \in systems : s.id = id},
     services |-> {[name |-> n, state |-> ServiceState(slos, n)] :
                      n \in {x \in DOMAIN services : services[x].domain = id}},
     slos |-> SystemSlos(slos, id),
     incidents |-> SystemIncidentRows(active, services, id)]

SystemDetail(reg, now, id) ==
    SystemPage(id, Systems(reg, now), Slos(reg), Active(reg, now), ServiceModel(reg))

\* Evidence: the reconciliation's rows of a service or of an objective.
MonitorsForService(reg, name) == {row \in Reconciliation(reg) : row.service = name}
MonitorsForSlo(reg, id) == {row \in Reconciliation(reg) : row.slo = id}

ServiceDetail(reg, now, name) ==
    [state |-> ServiceState(Slos(reg), name),
     slos |-> {s \in Slos(reg) : s.service = name},
     monitors |-> MonitorsForService(reg, name),
     incidents |-> {i \in Incidents(reg, now) : name \in i.services}]

\* An objective that is declared and not in Datadog has a page that says so.
SloDetail(reg, id) ==
    LET live == {s \in Slos(reg) : s.slo_id = id}
    IN  IF live = {} THEN [state |-> "unknown", monitors |-> MonitorsForSlo(reg, id)]
        ELSE LET slo == The(live)
             IN  [state |-> SloState(slo), monitors |-> MonitorsForSlo(reg, id),
                  days |-> DaysToExhaustion(slo),
                  groups |-> {g \in Groups(reg) : slo.service \in {g.parent} \cup g.children}]

IncidentDetail(reg, now, id) ==
    LET incident == CHOOSE i \in Incidents(reg, now) : i.id = id
    IN  [incident |-> incident, correlation |-> GroupOf(reg, incident.correlation_key),
         monitors |-> UNION {MonitorsForService(reg, n) : n \in incident.services}]

===============================================================================
