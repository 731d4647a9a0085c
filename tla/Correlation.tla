------------------------------ MODULE Correlation ------------------------------
(***************************************************************************)
(* Event correlation: tools/correlate_events.py under the rules of         *)
(* platform/events/correlation-rules.yaml.                                 *)
(*                                                                         *)
(* correlate() goes over the events in the order of their times, puts the  *)
(* alerts it keeps into groups, turns the groups into incidents, lets      *)
(* causes adopt their symptoms in three passes over the incidents, raises  *)
(* the priority of broad ones and decides what to page.  Here every event, *)
(* and then every pass, is a step.                                         *)
(*                                                                         *)
(* A monitor stands for its dedup_key and has its attributes.  Events      *)
(* under maintenance are dropped first and so left out.  Times are whole   *)
(* seconds: int(ts), the tag of a later group, is the time itself.         *)
(***************************************************************************)
EXTENDS Integers, Sequences, FiniteSetsExt, SequencesExt

CONSTANTS
  Monitors, Keys, Envs, Regions, Services, Packs,
  KeyOf, EnvOf, RegionOf, ServiceOf, PackOf,  \* attributes of a monitor
  PriorityOf,   \* monitor -> 1..4, 1 being the most severe
  SignalRank,   \* monitor -> the place of its signal in root_cause_ranking
  SchedulerParents, SchedulerChildren,
  VendorParents, VendorChildren,
  TopologyParents, TopologyChildren,
  Window, DedupWindow, SchedulerWindow, Lookback,
  ServicesIn,   \* pack -> how many services it has, 0: not known
  OneIn,        \* threshold: more than 1/OneIn of the pack's services
  MaxTime,      \* bound: the last time of an event
  MaxEvents     \* bound: events in the input

Times == 0..MaxTime

ASSUME MonitorsAssumption ==
  /\ KeyOf      \in [Monitors -> Keys]
  /\ EnvOf      \in [Monitors -> Envs]
  /\ RegionOf   \in [Monitors -> Regions]
  /\ ServiceOf  \in [Monitors -> Services]
  /\ PackOf     \in [Monitors -> Packs]
  /\ PriorityOf \in [Monitors -> 1..4]
  /\ SignalRank \in [Monitors -> Nat]
  /\ ServicesIn \in [Packs -> Nat]
ASSUME RulesAssumption ==
  /\ {Window, SchedulerWindow, Lookback} \subseteq Nat
  /\ {DedupWindow, OneIn} \subseteq Nat \ {0}
  /\ MaxTime \in Nat /\ MaxEvents \in Nat
\* The scheduler's causes are archetypes of their own, of a domain that is no
\* cause (correlation-rules.yaml: parent_archetypes, parent_domains).
ASSUME CausesAssumption ==
  SchedulerParents \cap (VendorParents \cup TopologyParents) = {}

VARIABLES
  phase,     \* the part of correlate() it is in
  now,       \* time of the last event
  seen,      \* monitor -> time of the last alert kept
  groups,    \* the dict of groups, in insertion order
  recovered, \* monitors with a recovery event
  changes,   \* change events
  incidents, \* result: an incident keeps the place of its group in the dict
  \* history variables
  count,     \* events so far
  kept,      \* alerts that passed deduplication
  replaced   \* alerts of groups that another group replaced in the dict

input   == <<now, seen, groups, recovered, changes>>
history == <<count, kept, replaced>>
vars    == <<phase, input, incidents, history>>

Never  == -1 \* not seen
First  == -1 \* tag of the group whose name is the key alone
Alerts == [mon: Monitors, at: Times]
Changes == [env: Envs, at: Times]
Groups == [key: Keys, tag: {First} \cup Times, first: Times, members: Seq(Alerts)]
Incidents == [parent: Alerts, children: SUBSET Alerts, context: SUBSET Changes,
              closed: BOOLEAN, priority: 1..4, pages: 0..1]
Phases == {"events", "scheduler", "vendor", "topology", "uplift", "decide",
           "done"}

TypeOK ==
  /\ phase     \in Phases
  /\ now       \in Times
  /\ seen      \in [Monitors -> {Never} \cup Times]
  /\ groups    \in Seq(Groups)
  /\ \A i, j \in DOMAIN groups :
       groups[i].key = groups[j].key /\ groups[i].tag = groups[j].tag => i = j
  /\ recovered \subseteq Monitors
  /\ changes   \subseteq Changes
  /\ incidents \in [DOMAIN incidents -> Incidents]
  /\ DOMAIN incidents \subseteq DOMAIN groups
  /\ count     \in 0..MaxEvents
  /\ kept      \subseteq Alerts
  /\ replaced  \subseteq kept

Init ==
  /\ phase     = "events"
  /\ now       = 0
  /\ seen      = [m \in Monitors |-> Never]
  /\ groups    = <<>>
  /\ recovered = {}
  /\ changes   = {}
  /\ incidents = <<>>
  /\ count     = 0
  /\ kept      = {}
  /\ replaced  = {}

-------------------------------------------------------------------------------
(* The events.                                                             *)

Takes(t) ==
  /\ phase = "events"
  /\ count < MaxEvents
  /\ t >= now
  /\ now' = t
  /\ count' = count + 1
  /\ UNCHANGED <<phase, incidents>>

\* The same dedup_key within the window of the last one kept.
Duplicate(m, t) == seen[m] # Never /\ t - seen[m] < DedupWindow

\* Places of a name in the dict: at most one.
Named(k, tag) == {i \in DOMAIN groups : groups[i].key = k /\ groups[i].tag = tag}

NewGroup(m, t, tag) ==
  [key |-> KeyOf[m], tag |-> tag, first |-> t, members |-> <<[mon |-> m, at |-> t]>>]

\* groups[gkey] = {...}: under a name of its own, or in the place of another.
OpenGroup(m, t, tag) ==
  IF Named(KeyOf[m], tag) = {}
    THEN groups' = Append(groups, NewGroup(m, t, tag)) /\ UNCHANGED replaced
    ELSE \E i \in Named(KeyOf[m], tag) :
           /\ groups' = [groups EXCEPT ![i] = NewGroup(m, t, tag)]
           /\ replaced' = replaced \cup Range(groups[i].members)

\* An alert is compared with the first group of its key only.
Join(m, t) ==
  IF Named(KeyOf[m], First) = {}
    THEN OpenGroup(m, t, First)
    ELSE \E i \in Named(KeyOf[m], First) :
           IF t - groups[i].first > Window
             THEN OpenGroup(m, t, t)
             ELSE /\ groups' = [groups EXCEPT ![i].members =
                                  Append(@, [mon |-> m, at |-> t])]
                  /\ UNCHANGED replaced

Drop(m, t) ==
  /\ Takes(t)
  /\ Duplicate(m, t)
  /\ UNCHANGED <<seen, groups, recovered, changes, kept, replaced>>

Keep(m, t) ==
  /\ Takes(t)
  /\ ~Duplicate(m, t)
  /\ seen' = [seen EXCEPT ![m] = t]
  /\ kept' = kept \cup {[mon |-> m, at |-> t]}
  /\ Join(m, t)
  /\ UNCHANGED <<recovered, changes>>

\* The time of a recovery is not kept.
Recover(m, t) ==
  /\ Takes(t)
  /\ recovered' = recovered \cup {m}
  /\ UNCHANGED <<seen, groups, changes, kept, replaced>>

Change(e, t) ==
  /\ Takes(t)
  /\ changes' = changes \cup {[env |-> e, at |-> t]}
  /\ UNCHANGED <<seen, groups, recovered, kept, replaced>>

-------------------------------------------------------------------------------
(* Incidents.                                                              *)

Apart(s, t) == IF s < t THEN t - s ELSE s - t

\* rank: signal, then priority; the time comes last, as members are in order.
Outranks(a, b) ==
  \/ SignalRank[a.mon] < SignalRank[b.mon]
  \/ /\ SignalRank[a.mon] = SignalRank[b.mon]
     /\ PriorityOf[a.mon] < PriorityOf[b.mon]

ParentOf(g) ==
  g.members[CHOOSE i \in DOMAIN g.members : \A j \in DOMAIN g.members :
              /\ ~Outranks(g.members[j], g.members[i])
              /\ j < i => Outranks(g.members[i], g.members[j])]

ChildrenOf(g) == Range(g.members) \ {ParentOf(g)}

\* (Without require_all_children_recovered.)
ClosedByParent(g) == ParentOf(g).mon \in recovered

Closed(g) ==
  /\ ParentOf(g).mon \in recovered
  /\ \A c \in ChildrenOf(g) : c.mon \in recovered

\* A group's environment is that of the alert that opened it.
Context(g) ==
  {c \in changes : /\ c.env = EnvOf[g.members[1].mon]
                   /\ Apart(c.at, g.first) <= Lookback}

Incident(g) ==
  [parent |-> ParentOf(g), children |-> ChildrenOf(g), context |-> Context(g),
   closed |-> Closed(g), priority |-> PriorityOf[ParentOf(g).mon], pages |-> 0]

\* Every step of correlate() after the events is a pass over the incidents.
Pass(from, to, result) ==
  /\ phase = from
  /\ phase' = to
  /\ incidents' = result
  /\ UNCHANGED <<input, history>>

SelectParents ==
  Pass("events", "scheduler", [i \in DOMAIN groups |-> Incident(groups[i])])

\* c is in the same place and time as g, and would adopt it.
Near(c, g, region, window) ==
  LET m == c.parent.mon
      n == g.parent.mon
  IN /\ EnvOf[m] = EnvOf[n]
     /\ region => RegionOf[m] = RegionOf[n]
     /\ Apart(c.parent.at, g.parent.at) <= window

\* (The first cause of the environment or none.)
CausesFirst(incs, causes, g, region, window) ==
  LET here == {i \in causes : EnvOf[incs[i].parent.mon] = EnvOf[g.parent.mon]}
  IN {i \in here : (\A j \in here : i <= j) /\ Near(incs[i], g, region, window)}

Causes(incs, causes, g, region, window) ==
  {i \in causes : Near(incs[i], g, region, window)}

\* (cause["children"].append(g["parent"]).)
FamilyHead(g) == {g.parent}

Family(g) == {g.parent} \cup g.children

\* (The group keeps its own priority.)
InheritedNot(p, adopted) == p

\* The most severe of its own priority and those it adopts.
Inherited(p, adopted) == Min({p} \cup {g.priority : g \in adopted})

\* _absorb: a group of a child domain that is no cause itself goes to the first
\* cause near it; the rest stays where it is.
Absorb(incs, parents, children, region, window, inherit) ==
  LET causes   == {i \in DOMAIN incs : incs[i].parent.mon \in parents}
      near(j)  == Causes(incs, causes, incs[j], region, window)
      symptoms == {j \in DOMAIN incs \ causes :
                     incs[j].parent.mon \in children /\ near(j) # {}}
      adopted(i) == {incs[j] : j \in {k \in symptoms : Min(near(k)) = i}}
  IN [i \in DOMAIN incs \ symptoms |->
        [incs[i] EXCEPT
           !.children = @ \cup UNION {Family(g) : g \in adopted(i)},
           !.context  = @ \cup UNION {g.context : g \in adopted(i)},
           !.priority = IF inherit THEN Inherited(@, adopted(i)) ELSE @]]

AbsorbScheduler ==
  Pass("scheduler", "vendor",
       Absorb(incidents, SchedulerParents, SchedulerChildren, FALSE,
              SchedulerWindow, TRUE))

AbsorbVendor ==
  Pass("vendor", "topology",
       Absorb(incidents, VendorParents, VendorChildren, FALSE, Window, FALSE))

AbsorbTopology ==
  Pass("topology", "uplift",
       Absorb(incidents, TopologyParents, TopologyChildren, TRUE, Window, FALSE))

\* Broad: its services are more than the threshold's share of the pack.
Broad(g) ==
  LET pack == PackOf[g.parent.mon] IN
  /\ ServicesIn[pack] > 0
  /\ OneIn * Cardinality({ServiceOf[a.mon] : a \in Family(g)}) > ServicesIn[pack]

\* Breadth raises the priority by one level, to P1 at most.
ScopeUplift ==
  Pass("uplift", "decide",
       [i \in DOMAIN incidents |->
          IF Broad(incidents[i])
            THEN [incidents[i] EXCEPT !.priority = Max({1, @ - 1})]
            ELSE incidents[i]])

\* One page for an open group that ended as P1 or P2.
Decide ==
  Pass("decide", "done",
       [i \in DOMAIN incidents |->
          [incidents[i] EXCEPT !.pages =
             IF ~incidents[i].closed /\ incidents[i].priority \in {1, 2}
               THEN 1 ELSE 0]])

Event(t) ==
  \/ \E m \in Monitors : Keep(m, t) \/ Drop(m, t) \/ Recover(m, t)
  \/ \E e \in Envs : Change(e, t)

Next ==
  \/ \E t \in Times : Event(t)
  \/ SelectParents
  \/ AbsorbScheduler
  \/ AbsorbVendor
  \/ AbsorbTopology
  \/ ScopeUplift
  \/ Decide

Spec == Init /\ [][Next]_vars

-------------------------------------------------------------------------------
(* Properties.                                                             *)

Holds(i) == {incidents[i].parent} \cup incidents[i].children

\* Correlation sorts alerts, it does not lose or multiply them: after every pass
\* each alert that was kept is in exactly one incident.  The one exception is
\* the group of a key's second burst, replaced by another of the same second.
Bursts(a, b, c) ==
  /\ KeyOf[a.mon] = KeyOf[b.mon] /\ KeyOf[b.mon] = KeyOf[c.mon]
  /\ b.at - a.at > Window
  /\ c.at = b.at /\ c # b

AlertsConserved ==
  /\ \A b \in replaced : \E a, c \in kept : Bursts(a, b, c)
  /\ phase # "events" => \A a \in kept :
       Cardinality({i \in DOMAIN incidents : a \in Holds(i)})
         = IF a \in replaced THEN 0 ELSE 1

\* "It is them, not us": when all is done, no symptom stands beside a cause that
\* explains it, in spite of the order of the passes and of causes that were
\* themselves adopted.
SymptomsAdopted ==
  phase = "done" => \A i, j \in DOMAIN incidents :
    LET c == incidents[i]
        g == incidents[j]
        beside(parents, children, region, window) ==
          /\ c.parent.mon \in parents
          /\ g.parent.mon \in children \ parents
          /\ Near(c, g, region, window)
    IN /\ ~beside(SchedulerParents, SchedulerChildren, FALSE, SchedulerWindow)
       /\ ~beside(VendorParents, VendorChildren, FALSE, Window)
       /\ ~beside(TopologyParents, TopologyChildren, TRUE, Window)

\* "Adopting a child cannot silently downgrade the incident" (_absorb): a
\* scheduler incident is as severe as every group it has adopted was.
SchedulerKeepsSeverity ==
  phase \notin {"events", "scheduler"} => \A i \in DOMAIN incidents :
    incidents[i].parent.mon \in SchedulerParents =>
      \A j \in DOMAIN groups : ParentOf(groups[j]) \in Holds(i) =>
        incidents[i].priority <= PriorityOf[ParentOf(groups[j]).mon]

\* require_all_children_recovered, for the alerts of one key: a closed incident
\* has a recovery for each alert of the group it was made from.
ClosedGroupsRecovered ==
  \A i \in DOMAIN incidents : incidents[i].closed =>
    \A j \in DOMAIN groups : incidents[i].parent \in Range(groups[j].members) =>
      \A k \in DOMAIN groups[j].members : groups[j].members[k].mon \in recovered

\* "Group stays open while a child is still alerting" (test_correlation.py): a
\* closed incident has a recovery for every alert it holds.
StaysOpen ==
  \A i \in DOMAIN incidents :
    incidents[i].closed => \A a \in Holds(i) : a.mon \in recovered

===============================================================================
