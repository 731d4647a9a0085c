--------------------------- MODULE CorrelationProofs ---------------------------
(***************************************************************************)
(* Proofs about Correlation, for any monitors, rules, windows, times and   *)
(* number of events: the types, the conservation of alerts, the severity   *)
(* of scheduler incidents, recovery and the completeness of the passes.    *)
(***************************************************************************)
EXTENDS Correlation, TLAPS, WellFoundedInduction, FiniteSetTheorems,
        SequenceTheorems

-------------------------------------------------------------------------------
(* The inductive invariant.                                                *)

\* Deduplication remembers the last alert kept of a monitor.
SeenLast ==
  /\ \A a \in kept : seen[a.mon] # Never /\ a.at <= seen[a.mon]
  /\ \A m \in Monitors : seen[m] <= now

\* A group: alerts of its key, in a named one all of the second of its name.
GroupMade(g) ==
  /\ g.members # <<>> /\ g.members[1].at = g.first
  /\ \A i \in DOMAIN g.members :
       /\ g.members[i] \in kept
       /\ KeyOf[g.members[i].mon] = g.key
       /\ g.tag # First => g.members[i].at = g.tag

In(a, i) == \E k \in DOMAIN groups[i].members : groups[i].members[k] = a

GroupsMade == \A i \in DOMAIN groups : GroupMade(groups[i])

\* Each alert kept is in one group, or was replaced.
Grouped ==
  /\ \A a \in kept : a \notin replaced <=> \E i \in DOMAIN groups : In(a, i)
  /\ \A i, j \in DOMAIN groups : \A a \in kept : In(a, i) /\ In(a, j) => i = j

ReplacedBurst == \A b \in replaced : \E a, c \in kept : Bursts(a, b, c)

GroupInv == TypeOK /\ SeenLast /\ GroupsMade /\ Grouped /\ ReplacedBurst

\* An incident is what became of the group at its place.
IncidentOf(i) ==
  /\ incidents[i].parent = ParentOf(groups[i])
  /\ incidents[i].closed = Closed(groups[i])

IncidentsMade == \A i \in DOMAIN incidents : IncidentOf(i)

Conserved ==
  /\ \A a \in kept \ replaced : \E i \in DOMAIN incidents : a \in Holds(i)
  /\ \A i \in DOMAIN incidents : Holds(i) \subseteq kept \ replaced
  /\ \A i, j \in DOMAIN incidents : Holds(i) \cap Holds(j) # {} => i = j

\* No symptom stands beside a cause of a pass that is over.
Beside(i, j, parents, children, region, window) ==
  /\ incidents[i].parent.mon \in parents
  /\ incidents[j].parent.mon \in children \ parents
  /\ Near(incidents[i], incidents[j], region, window)

SchedulerDone ==
  \A i, j \in DOMAIN incidents :
    ~Beside(i, j, SchedulerParents, SchedulerChildren, FALSE, SchedulerWindow)
VendorDone ==
  \A i, j \in DOMAIN incidents :
    ~Beside(i, j, VendorParents, VendorChildren, FALSE, Window)
TopologyDone ==
  \A i, j \in DOMAIN incidents :
    ~Beside(i, j, TopologyParents, TopologyChildren, TRUE, Window)

\* The severity of the groups before the passes, and of the scheduler's after.
OwnSeverity ==
  \A i \in DOMAIN incidents :
    incidents[i].priority = PriorityOf[ParentOf(groups[i]).mon]
OwnAlerts ==
  \A i \in DOMAIN incidents : \A a \in Holds(i) : In(a, i)

PassInv ==
  /\ phase = "events" => DOMAIN incidents = {}
  /\ IncidentsMade
  /\ phase # "events" => Conserved
  /\ phase = "scheduler" =>
       OwnSeverity /\ OwnAlerts /\ DOMAIN incidents = DOMAIN groups
  /\ phase \notin {"events", "scheduler"} => SchedulerDone
  /\ phase \notin {"events", "scheduler", "vendor"} => VendorDone
  /\ phase \notin {"events", "scheduler", "vendor", "topology"} => TopologyDone
  /\ SchedulerKeepsSeverity

Inv == GroupInv /\ PassInv

-------------------------------------------------------------------------------
(* Operators.                                                              *)

LEMMA SmallestNat ==
  ASSUME NEW S, S \subseteq Nat, S # {}
  PROVE  \E x \in S : \A y \in S : x <= y
<1>1. PICK x \in S : \A y \in S : ~(<<y, x>> \in OpToRel(<, Nat))
  BY NatLessThanWellFounded, WFMin
<1>2. \A y \in S : ~(y < x)
  BY <1>1 DEF OpToRel
<1> QED
  BY <1>2

LEMMA MinNat ==
  ASSUME NEW S, S \subseteq Nat, S # {}
  PROVE  Min(S) \in S /\ \A y \in S : Min(S) <= y
BY SmallestNat DEF Min

LEMMA AlertType ==
  ASSUME NEW a \in Alerts
  PROVE  /\ a.mon \in Monitors /\ a.at \in Times
         /\ KeyOf[a.mon] \in Keys
         /\ SignalRank[a.mon] \in Nat /\ PriorityOf[a.mon] \in 1..4
<1>1. a.mon \in Monitors /\ a.at \in Times
  BY DEF Alerts
<1> QED
  BY <1>1, MonitorsAssumption

\* The root cause of a group is one of its members.
LEMMA ParentIn ==
  ASSUME NEW g \in Groups, g.members # <<>>
  PROVE  /\ ParentOf(g) \in Alerts
         /\ \E i \in DOMAIN g.members : ParentOf(g) = g.members[i]
<1> DEFINE s == g.members
           rank(i) == SignalRank[s[i].mon]
           prio(i) == PriorityOf[s[i].mon]
           Best(i) == \A j \in DOMAIN s : /\ ~Outranks(s[j], s[i])
                                          /\ j < i => Outranks(s[i], s[j])
<1>1. /\ s \in Seq(Alerts) /\ s # <<>>
      /\ ParentOf(g) = s[CHOOSE i \in DOMAIN s : Best(i)]
  BY DEF Groups, ParentOf
<1>2. /\ DOMAIN s \subseteq Nat /\ DOMAIN s # {}
      /\ \A i \in DOMAIN s : s[i] \in Alerts /\ rank(i) \in Nat /\ prio(i) \in Nat
  <2>1. \A i \in DOMAIN s : s[i] \in Alerts
    BY <1>1
  <2>2. \A i \in DOMAIN s : rank(i) \in Nat /\ prio(i) \in Nat
    BY <2>1, AlertType
  <2> QED
    BY <1>1, <2>1, <2>2
<1> DEFINE A == {i \in DOMAIN s : \A j \in DOMAIN s : rank(i) <= rank(j)}
           B == {i \in A : \A j \in A : prio(i) <= prio(j)}
<1> HIDE DEF s, rank, prio
<1>3. A # {}
  <2>1. PICK x \in {rank(i) : i \in DOMAIN s} : \A y \in {rank(i) : i \in DOMAIN s} : x <= y
    BY <1>2, SmallestNat
  <2> QED
    BY <2>1
<1>4. B # {}
  <2>1. PICK x \in {prio(i) : i \in A} : \A y \in {prio(i) : i \in A} : x <= y
    BY <1>2, <1>3, SmallestNat, ZenonT(30)
  <2> QED
    BY <2>1
<1>5. PICK i \in B : \A j \in B : i <= j
  BY <1>2, <1>4, SmallestNat
<1>6. Best(i)
  <2> SUFFICES ASSUME NEW j \in DOMAIN s
               PROVE  ~Outranks(s[j], s[i]) /\ (j < i => Outranks(s[i], s[j]))
    OBVIOUS
  <2>1. /\ i \in Nat /\ j \in Nat
        /\ rank(i) \in Nat /\ rank(j) \in Nat /\ prio(i) \in Nat /\ prio(j) \in Nat
    BY <1>2
  <2>2. /\ rank(i) <= rank(j)
        /\ rank(i) = rank(j) => prio(i) <= prio(j)
        /\ rank(i) = rank(j) /\ prio(i) = prio(j) => i <= j
    <3>1. rank(i) <= rank(j)
      OBVIOUS
    <3>2. rank(i) = rank(j) => j \in A
      OBVIOUS
    <3>3. j \in A /\ prio(i) = prio(j) => j \in B
      OBVIOUS
    <3> QED
      BY <1>5, <3>1, <3>2, <3>3
  <2>3. /\ Outranks(s[j], s[i]) <=> rank(j) < rank(i) \/ (rank(j) = rank(i) /\ prio(j) < prio(i))
        /\ Outranks(s[i], s[j]) <=> rank(i) < rank(j) \/ (rank(i) = rank(j) /\ prio(i) < prio(j))
    BY DEF Outranks, rank, prio
  <2> QED
    BY <2>1, <2>2, <2>3
<1>7. ParentOf(g) \in {s[k] : k \in DOMAIN s}
  <2> HIDE DEF Best
  <2> QED
    BY <1>1, <1>6
<1> QED
  BY <1>2, <1>7 DEF s

-------------------------------------------------------------------------------
(* The events.                                                             *)

Alert(m, t) == [mon |-> m, at |-> t]

\* Where an alert goes: a new group, the place of another, or a first group.
Opens(m, t, k) ==
  /\ k \notin DOMAIN groups /\ replaced' = replaced
  /\ groups'[k] \in {NewGroup(m, t, First), NewGroup(m, t, t)}
Replaces(m, t, k) ==
  /\ k \in DOMAIN groups /\ groups[k].key = KeyOf[m] /\ groups[k].tag = t
  /\ replaced' = replaced \cup Range(groups[k].members)
  /\ groups'[k] = NewGroup(m, t, t)
  /\ \E i \in DOMAIN groups : groups[i].key = KeyOf[m] /\ t - groups[i].first > Window
Joins(m, t, k) ==
  /\ k \in DOMAIN groups /\ groups[k].key = KeyOf[m] /\ groups[k].tag = First
  /\ replaced' = replaced
  /\ groups'[k] = [groups[k] EXCEPT !.members = Append(groups[k].members, Alert(m, t))]

NamesApart(gs) ==
  \A i, j \in DOMAIN gs : gs[i].key = gs[j].key /\ gs[i].tag = gs[j].tag => i = j

LEMMA NewGroupType ==
  ASSUME NEW m \in Monitors, NEW t \in Times, NEW tag \in {First} \cup Times
  PROVE  /\ NewGroup(m, t, tag) \in Groups
         /\ NewGroup(m, t, tag).key = KeyOf[m] /\ NewGroup(m, t, tag).tag = tag
         /\ NewGroup(m, t, tag).first = t
         /\ NewGroup(m, t, tag).members = <<Alert(m, t)>>
<1>1. Alert(m, t) \in Alerts /\ KeyOf[m] \in Keys
  BY MonitorsAssumption DEF Alert, Alerts
<1> QED
  BY <1>1 DEF NewGroup, Groups, Alert

LEMMA OpenedGroup ==
  ASSUME TypeOK, NEW m \in Monitors, NEW t \in Times, NEW tag \in {First, t},
         Named(KeyOf[m], tag) = {}, OpenGroup(m, t, tag)
  PROVE  /\ groups' \in Seq(Groups) /\ NamesApart(groups')
         /\ \E k \in Nat : /\ DOMAIN groups' = DOMAIN groups \cup {k}
                           /\ \A i \in DOMAIN groups \ {k} : groups'[i] = groups[i]
                           /\ Opens(m, t, k)
<1> DEFINE g == NewGroup(m, t, tag)
           k == Len(groups) + 1
<1>1. groups' = Append(groups, g) /\ replaced' = replaced
  BY DEF OpenGroup
<1>2. g \in Groups /\ g.key = KeyOf[m] /\ g.tag = tag
  BY NewGroupType
<1>3. groups \in Seq(Groups) /\ NamesApart(groups)
  BY DEF TypeOK, NamesApart
<1>4. \A i \in DOMAIN groups : ~(groups[i].key = KeyOf[m] /\ groups[i].tag = tag)
  BY DEF Named
<1>5. g \in {NewGroup(m, t, First), NewGroup(m, t, t)}
  OBVIOUS
<1> HIDE DEF g
<1>6. /\ groups' \in Seq(Groups) /\ k \in Nat /\ k \notin DOMAIN groups
      /\ DOMAIN groups' = DOMAIN groups \cup {k} /\ groups'[k] = g
      /\ \A i \in DOMAIN groups : groups'[i] = groups[i]
  BY <1>1, <1>2, <1>3
<1> HIDE DEF k
<1>7. NamesApart(groups')
  BY <1>2, <1>3, <1>4, <1>6 DEF NamesApart
<1> QED
  BY <1>1, <1>5, <1>6, <1>7 DEF Opens

LEMMA PlacedGroup ==
  ASSUME TypeOK, NEW k \in DOMAIN groups, NEW g \in Groups,
         g.key = groups[k].key, g.tag = groups[k].tag,
         groups' = [groups EXCEPT ![k] = g]
  PROVE  /\ groups' \in Seq(Groups) /\ NamesApart(groups') /\ k \in Nat
         /\ DOMAIN groups' = DOMAIN groups \cup {k} /\ groups'[k] = g
         /\ \A i \in DOMAIN groups \ {k} : groups'[i] = groups[i]
<1>1. groups \in Seq(Groups) /\ NamesApart(groups)
  BY DEF TypeOK, NamesApart
<1>2. /\ groups' \in Seq(Groups) /\ k \in Nat
      /\ DOMAIN groups' = DOMAIN groups /\ groups'[k] = g
      /\ \A i \in DOMAIN groups \ {k} : groups'[i] = groups[i]
  <2>1. groups' \in Seq(Groups)
    BY <1>1, ExceptSeq
  <2>2. DOMAIN groups \subseteq Nat
    BY <1>1
  <2>3. /\ DOMAIN groups' = DOMAIN groups /\ groups'[k] = g
        /\ \A i \in DOMAIN groups \ {k} : groups'[i] = groups[i]
    BY <1>1
  <2> QED
    BY <2>1, <2>2, <2>3
<1>3. \A i \in DOMAIN groups : groups'[i].key = groups[i].key /\ groups'[i].tag = groups[i].tag
  BY <1>2
<1>4. NamesApart(groups')
  BY <1>1, <1>2, <1>3 DEF NamesApart
<1> QED
  BY <1>2, <1>4

LEMMA Joined ==
  ASSUME TypeOK, NEW m \in Monitors, NEW t \in Times, Join(m, t)
  PROVE  /\ groups' \in Seq(Groups) /\ NamesApart(groups')
         /\ \E k \in Nat : /\ DOMAIN groups' = DOMAIN groups \cup {k}
                           /\ \A i \in DOMAIN groups \ {k} : groups'[i] = groups[i]
                           /\ Opens(m, t, k) \/ Replaces(m, t, k) \/ Joins(m, t, k)
<1>1. CASE Named(KeyOf[m], First) = {}
  BY <1>1, OpenedGroup DEF Join
<1>2. CASE Named(KeyOf[m], First) # {}
  <2>1. PICK i \in Named(KeyOf[m], First) :
          IF t - groups[i].first > Window
            THEN OpenGroup(m, t, t)
            ELSE /\ groups' = [groups EXCEPT ![i].members =
                                 Append(@, [mon |-> m, at |-> t])]
                 /\ UNCHANGED replaced
    BY <1>2 DEF Join
  <2>2. i \in DOMAIN groups /\ groups[i].key = KeyOf[m] /\ groups[i].tag = First
    BY DEF Named
  <2>3. CASE t - groups[i].first > Window
    <3>1. CASE Named(KeyOf[m], t) = {}
      BY <2>1, <2>3, <3>1, OpenedGroup
    <3>2. CASE Named(KeyOf[m], t) # {}
      <4>1. PICK k \in Named(KeyOf[m], t) :
              /\ groups' = [groups EXCEPT ![k] = NewGroup(m, t, t)]
              /\ replaced' = replaced \cup Range(groups[k].members)
        BY <2>1, <2>3, <3>2 DEF OpenGroup
      <4>2. k \in DOMAIN groups /\ groups[k].key = KeyOf[m] /\ groups[k].tag = t
        BY DEF Named
      <4>3. /\ groups' \in Seq(Groups) /\ NamesApart(groups') /\ k \in Nat
            /\ DOMAIN groups' = DOMAIN groups \cup {k} /\ groups'[k] = NewGroup(m, t, t)
            /\ \A j \in DOMAIN groups \ {k} : groups'[j] = groups[j]
        <5>1. /\ NewGroup(m, t, t) \in Groups
              /\ NewGroup(m, t, t).key = groups[k].key /\ NewGroup(m, t, t).tag = groups[k].tag
          BY <4>2, NewGroupType
        <5> QED
          BY <4>1, <4>2, <5>1, PlacedGroup
      <4> QED
        BY <2>2, <2>3, <4>1, <4>2, <4>3 DEF Replaces
    <3> QED
      BY <3>1, <3>2
  <2>4. CASE ~(t - groups[i].first > Window)
    <3> DEFINE g == [groups[i] EXCEPT !.members = Append(groups[i].members, Alert(m, t))]
    <3>1. groups' = [groups EXCEPT ![i] = g] /\ replaced' = replaced
      BY <2>1, <2>4 DEF Alert
    <3>2. groups[i] \in Groups /\ Alert(m, t) \in Alerts
      BY <2>2 DEF TypeOK, Alert, Alerts
    <3>3. g \in Groups /\ g.key = groups[i].key /\ g.tag = groups[i].tag
      <4>1. Append(groups[i].members, Alert(m, t)) \in Seq(Alerts)
        BY <3>2 DEF Groups
      <4> QED
        BY <3>2, <4>1 DEF Groups
    <3>4. /\ groups' \in Seq(Groups) /\ NamesApart(groups') /\ i \in Nat
          /\ DOMAIN groups' = DOMAIN groups \cup {i} /\ groups'[i] = g
          /\ \A j \in DOMAIN groups \ {i} : groups'[j] = groups[j]
      BY <2>2, <3>1, <3>3, PlacedGroup
    <3> QED
      BY <2>2, <3>1, <3>4 DEF Joins
  <2> QED
    BY <2>3, <2>4
<1> QED
  BY <1>1, <1>2

\* What an event leaves to prove.
LEMMA TakesType ==
  ASSUME TypeOK, NEW t \in Times, Takes(t)
  PROVE  /\ phase' = phase /\ phase = "events" /\ incidents' = incidents
         /\ now' = t /\ t \in Int /\ now \in Int /\ now <= t
         /\ now' \in Times /\ count' \in 0..MaxEvents
BY RulesAssumption DEF Takes, TypeOK, Times

LEMMA KeepFresh ==
  ASSUME TypeOK, SeenLast, NEW m \in Monitors, NEW t \in Times, Takes(t), ~Duplicate(m, t)
  PROVE  Alert(m, t) \notin kept
<1>1. seen[m] # Never /\ seen[m] \in Int => t - seen[m] >= DedupWindow
  BY RulesAssumption DEF Duplicate, Times
<1>2. ASSUME Alert(m, t) \in kept PROVE FALSE
  <2>1. Alert(m, t).mon = m /\ Alert(m, t).at = t
    BY DEF Alert
  <2>2. seen[m] # Never /\ t <= seen[m] /\ seen[m] \in Int
    BY <1>2, <2>1 DEF SeenLast, TypeOK, Times, Never
  <2> QED
    BY <1>1, <2>2, RulesAssumption DEF Times
<1> QED
  BY <1>2

LEMMA KeepSeen ==
  ASSUME TypeOK, SeenLast, NEW m \in Monitors, NEW t \in Times, Keep(m, t)
  PROVE  SeenLast' /\ seen' \in [Monitors -> {Never} \cup Times]
<1>1. /\ seen' = [seen EXCEPT ![m] = t] /\ kept' = kept \cup {Alert(m, t)}
      /\ now' = t /\ now <= t /\ t \in Int /\ now \in Int
  BY TakesType DEF Keep, Alert
<1>2. /\ seen \in [Monitors -> {Never} \cup Times] /\ t # Never
      /\ \A n \in Monitors : seen[n] \in Int /\ seen[n] <= now
  BY DEF TypeOK, Times, Never, SeenLast
<1>3. \A n \in Monitors : seen'[n] = IF n = m THEN t ELSE seen[n]
  BY <1>1, <1>2
<1>4. \A a \in kept : a.mon \in Monitors /\ a.at \in Int /\ seen[a.mon] # Never /\ a.at <= seen[a.mon]
  BY AlertType DEF TypeOK, SeenLast, Times
<1>5. Alert(m, t).mon = m /\ Alert(m, t).at = t
  BY DEF Alert
<1>6. \A a \in kept' : seen'[a.mon] # Never /\ a.at <= seen'[a.mon]
  BY <1>1, <1>2, <1>3, <1>4, <1>5
<1>7. \A n \in Monitors : seen'[n] <= now'
  BY <1>1, <1>2, <1>3
<1> QED
  BY <1>1, <1>2, <1>6, <1>7 DEF SeenLast

LEMMA KeepGroups ==
  ASSUME GroupInv, NEW m \in Monitors, NEW t \in Times, Keep(m, t)
  PROVE  GroupInv'
<1> DEFINE n == Alert(m, t)
<1>1. TypeOK /\ SeenLast /\ GroupsMade /\ Grouped /\ ReplacedBurst
  BY DEF GroupInv
<1>2. /\ n \in Alerts /\ n.mon = m /\ n.at = t /\ n \notin kept
      /\ kept' = kept \cup {n} /\ UNCHANGED <<recovered, changes>>
      /\ t # First /\ t \in Int /\ KeyOf[m] \in Keys
  <2>1. n \notin kept
    BY <1>1, KeepFresh DEF Keep
  <2> QED
    BY <2>1, MonitorsAssumption DEF Keep, Alert, Alerts, Times, First
<1>3. /\ groups' \in Seq(Groups) /\ NamesApart(groups')
      /\ \E k \in Nat : /\ DOMAIN groups' = DOMAIN groups \cup {k}
                        /\ \A i \in DOMAIN groups \ {k} : groups'[i] = groups[i]
                        /\ Opens(m, t, k) \/ Replaces(m, t, k) \/ Joins(m, t, k)
  BY <1>1, Joined DEF Keep
<1>4. PICK k \in Nat :
        /\ DOMAIN groups' = DOMAIN groups \cup {k}
        /\ \A i \in DOMAIN groups \ {k} : groups'[i] = groups[i]
        /\ Opens(m, t, k) \/ Replaces(m, t, k) \/ Joins(m, t, k)
  BY <1>3
<1>5. \A i \in DOMAIN groups : groups[i] \in Groups /\ GroupMade(groups[i])
  BY <1>1 DEF TypeOK, GroupsMade
<1>6. \A a, i : In(a, i) /\ i \in DOMAIN groups => a \in kept
  BY <1>5 DEF In, GroupMade
<1>7. replaced \subseteq kept
  BY <1>1 DEF TypeOK
<1>8. /\ \A i \in DOMAIN groups \ {k} : \A a : In(a, i)' <=> In(a, i)
      /\ k \in DOMAIN groups'
  BY <1>4 DEF In
<1> HIDE DEF n
<1>9. CASE Opens(m, t, k) \/ Replaces(m, t, k)
  <2>1. PICK tag \in {First, t} : groups'[k] = NewGroup(m, t, tag)
    BY <1>9 DEF Opens, Replaces
  <2>2. /\ groups'[k].key = KeyOf[m] /\ groups'[k].first = t /\ groups'[k].tag = tag
        /\ groups'[k].members = <<n>>
    BY <2>1, NewGroupType DEF n
  <2>3. GroupMade(groups[k])' /\ (\A a : In(a, k)' <=> a = n)
    BY <1>2, <2>2 DEF GroupMade, In
  <2> QED
    <3>1. CASE Opens(m, t, k)
      <4>1. k \notin DOMAIN groups /\ replaced' = replaced
        BY <3>1 DEF Opens
      <4>2. Grouped'
        BY <1>1, <1>2, <1>4, <1>6, <1>7, <1>8, <2>3, <4>1 DEF Grouped
      <4>3. GroupsMade'
        BY <1>2, <1>4, <1>5, <2>3 DEF GroupsMade, GroupMade
      <4>4. ReplacedBurst'
        BY <1>1, <1>2, <4>1 DEF ReplacedBurst
      <4>5. TypeOK'
        BY <1>1, <1>2, <1>3, <1>4, <1>7, <4>1, TakesType, KeepSeen DEF Keep, TypeOK, NamesApart
      <4> QED
        BY <1>1, <4>2, <4>3, <4>4, <4>5, KeepSeen DEF GroupInv
    <3>2. CASE Replaces(m, t, k)
      <4>1. /\ k \in DOMAIN groups /\ groups[k].key = KeyOf[m] /\ groups[k].tag = t
            /\ replaced' = replaced \cup Range(groups[k].members)
        BY <3>2 DEF Replaces
      <4>2. \A a : a \in Range(groups[k].members) <=> In(a, k)
        BY DEF Range, In
      <4>3. Grouped'
        BY <1>1, <1>2, <1>4, <1>6, <1>7, <1>8, <2>3, <4>1, <4>2 DEF Grouped
      <4>4. GroupsMade'
        BY <1>2, <1>4, <1>5, <2>3 DEF GroupsMade, GroupMade
      <4>5. ReplacedBurst'
        <5>1. ASSUME NEW b, In(b, k)
              PROVE  \E a, c \in kept' : Bursts(a, b, c)
          <6>1. b \in kept /\ KeyOf[b.mon] = KeyOf[m] /\ b.at = t
            BY <1>2, <1>5, <4>1, <5>1 DEF In, GroupMade
          <6>2. PICK i \in DOMAIN groups : groups[i].key = KeyOf[m] /\ t - groups[i].first > Window
            BY <3>2 DEF Replaces
          <6>3. /\ GroupMade(groups[i]) /\ groups[i].members \in Seq(Alerts)
            BY <1>5 DEF Groups
          <6>4. 1 \in DOMAIN groups[i].members
            BY <6>3 DEF GroupMade
          <6>5. PICK a \in kept : a.at = groups[i].first /\ KeyOf[a.mon] = KeyOf[m]
            BY <6>2, <6>3, <6>4 DEF GroupMade
          <6> QED
            BY <1>2, <6>1, <6>2, <6>5 DEF Bursts
        <5> QED
          BY <1>1, <1>2, <4>1, <4>2, <5>1 DEF ReplacedBurst
      <4>6. TypeOK'
        <5>1. replaced' \subseteq kept'
          BY <1>2, <1>6, <1>7, <4>1, <4>2
        <5> QED
          BY <1>1, <1>2, <1>3, <1>4, <5>1, TakesType, KeepSeen DEF Keep, TypeOK, NamesApart
      <4> QED
        BY <1>1, <4>3, <4>4, <4>5, <4>6, KeepSeen DEF GroupInv
    <3> QED
      BY <1>9, <3>1, <3>2
<1>10. CASE Joins(m, t, k)
  <2>1. /\ k \in DOMAIN groups /\ groups[k].key = KeyOf[m] /\ groups[k].tag = First
        /\ replaced' = replaced
        /\ groups'[k] = [groups[k] EXCEPT !.members = Append(groups[k].members, n)]
    BY <1>10 DEF Joins, n
  <2>2. groups[k] \in Groups /\ GroupMade(groups[k]) /\ groups[k].members \in Seq(Alerts)
    BY <1>5, <2>1 DEF Groups
  <2>3. /\ groups'[k].members = Append(groups[k].members, n)
        /\ groups'[k].key = KeyOf[m] /\ groups'[k].tag = First
        /\ groups'[k].first = groups[k].first
    BY <2>1, <2>2 DEF Groups
  <2> DEFINE s == groups[k].members
  <2>4. /\ s \in Seq(Alerts) /\ s # <<>>
        /\ \A i \in DOMAIN s : s[i] \in kept /\ KeyOf[s[i].mon] = KeyOf[m]
        /\ s[1].at = groups[k].first
    BY <2>1, <2>2 DEF GroupMade
  <2> HIDE DEF s
  <2>5. /\ DOMAIN Append(s, n) = DOMAIN s \cup {Len(s) + 1} /\ Len(s) + 1 \notin DOMAIN s
        /\ \A i \in DOMAIN s : Append(s, n)[i] = s[i]
        /\ Append(s, n)[Len(s) + 1] = n /\ Append(s, n) # <<>> /\ 1 \in DOMAIN s
    BY <1>2, <2>4
  <2>6. GroupMade(groups[k])'
    BY <1>2, <2>3, <2>4, <2>5, SMTT(30) DEF GroupMade, s
  <2>7. \A a : In(a, k)' <=> In(a, k) \/ a = n
    BY <2>3, <2>5 DEF In, s
  <2>8. Grouped'
    BY <1>1, <1>2, <1>4, <1>6, <1>7, <1>8, <2>1, <2>7 DEF Grouped
  <2>9. GroupsMade'
    BY <1>2, <1>4, <1>5, <2>6 DEF GroupsMade, GroupMade
  <2>10. ReplacedBurst'
    BY <1>1, <1>2, <2>1 DEF ReplacedBurst
  <2>11. TypeOK'
    BY <1>1, <1>2, <1>3, <1>4, <1>7, <2>1, TakesType, KeepSeen DEF Keep, TypeOK, NamesApart
  <2> QED
    BY <1>1, <2>8, <2>9, <2>10, <2>11, KeepSeen DEF GroupInv
<1> QED
  BY <1>4, <1>9, <1>10

LEMMA EventGroups ==
  ASSUME GroupInv, NEW t \in Times, Event(t)
  PROVE  GroupInv'
<1>1. TypeOK
  BY DEF GroupInv
<1>2. ASSUME NEW m \in Monitors, Keep(m, t)
      PROVE  GroupInv'
  BY <1>2, KeepGroups
<1>3. ASSUME NEW m \in Monitors, Drop(m, t) \/ Recover(m, t)
      PROVE  GroupInv'
  <2>1. /\ UNCHANGED <<seen, groups, changes, kept, replaced>> /\ recovered' \subseteq Monitors
        /\ Takes(t)
    BY <1>1, <1>3 DEF Drop, Recover, TypeOK
  <2>2. TypeOK'
    BY <1>1, <2>1, TakesType DEF TypeOK
  <2>3. \A n \in Monitors : seen[n] <= t
    BY <1>1, <2>1, TakesType DEF GroupInv, SeenLast, TypeOK, Times, Never
  <2> QED
    BY <1>1, <2>1, <2>2, <2>3, TakesType
       DEF GroupInv, SeenLast, GroupsMade, GroupMade, Grouped, In, ReplacedBurst
<1>4. ASSUME NEW e \in Envs, Change(e, t)
      PROVE  GroupInv'
  <2>1. /\ UNCHANGED <<seen, groups, recovered, kept, replaced>> /\ changes' \subseteq Changes
        /\ Takes(t)
    BY <1>1, <1>4 DEF Change, TypeOK, Changes
  <2>2. TypeOK'
    BY <1>1, <2>1, TakesType DEF TypeOK
  <2>3. \A n \in Monitors : seen[n] <= t
    BY <1>1, <2>1, TakesType DEF GroupInv, SeenLast, TypeOK, Times, Never
  <2> QED
    BY <1>1, <2>1, <2>2, <2>3, TakesType
       DEF GroupInv, SeenLast, GroupsMade, GroupMade, Grouped, In, ReplacedBurst
<1> QED
  BY <1>2, <1>3, <1>4 DEF Event

LEMMA EventPasses ==
  ASSUME TypeOK, PassInv, NEW t \in Times, Event(t)
  PROVE  PassInv'
<1>1. phase = "events" /\ phase' = "events" /\ incidents' = incidents
  BY TakesType DEF Event, Keep, Drop, Recover, Change
<1>2. DOMAIN incidents = {}
  BY <1>1 DEF PassInv
<1> QED
  BY <1>1, <1>2 DEF PassInv, IncidentsMade, SchedulerKeepsSeverity

-------------------------------------------------------------------------------
(* The passes.                                                             *)

\* A pass leaves the groups and what is known of them alone.
LEMMA PassGroups ==
  ASSUME GroupInv, UNCHANGED <<input, history>>, phase' \in Phases,
         incidents' \in [DOMAIN incidents' -> Incidents],
         DOMAIN incidents' \subseteq DOMAIN groups
  PROVE  GroupInv'
<1>1. UNCHANGED <<now, seen, groups, recovered, changes, count, kept, replaced>>
  BY DEF input, history
<1>2. TypeOK'
  BY <1>1 DEF GroupInv, TypeOK
<1> QED
  BY <1>1, <1>2 DEF GroupInv, SeenLast, GroupsMade, GroupMade, Grouped, In, ReplacedBurst

\* The groups of the incidents, in terms of places.
LEMMA GroupFacts ==
  ASSUME GroupInv, NEW i \in DOMAIN groups
  PROVE  /\ groups[i] \in Groups /\ groups[i].members # <<>>
         /\ ParentOf(groups[i]) \in Alerts /\ In(ParentOf(groups[i]), i)
         /\ ParentOf(groups[i]) \in kept
         /\ \A a : In(a, i) => a \in kept \ replaced /\ a \in Alerts
         /\ {ParentOf(groups[i])} \cup ChildrenOf(groups[i]) = {a \in kept : In(a, i)}
<1>1. groups[i] \in Groups /\ GroupMade(groups[i])
  BY DEF GroupInv, TypeOK, GroupsMade
<1>2. groups[i].members # <<>> /\ \A a : In(a, i) => a \in kept
  BY <1>1 DEF GroupMade, In
<1>3. ParentOf(groups[i]) \in Alerts /\ In(ParentOf(groups[i]), i)
  BY <1>1, <1>2, ParentIn DEF In
<1>4. \A a : In(a, i) => a \in kept \ replaced /\ a \in Alerts
  BY <1>2 DEF GroupInv, Grouped, TypeOK
<1>5. \A a : a \in Range(groups[i].members) <=> In(a, i)
  BY DEF Range, In
<1>6. {ParentOf(groups[i])} \cup ChildrenOf(groups[i]) = {a \in kept : In(a, i)}
  BY <1>2, <1>3, <1>5 DEF ChildrenOf
<1> QED
  BY <1>1, <1>2, <1>3, <1>4, <1>6

LEMMA IncidentType ==
  ASSUME GroupInv, NEW i \in DOMAIN groups
  PROVE  /\ Incident(groups[i]) \in Incidents
         /\ Incident(groups[i]).parent = ParentOf(groups[i])
         /\ Incident(groups[i]).children = ChildrenOf(groups[i])
         /\ Incident(groups[i]).closed = Closed(groups[i])
         /\ Incident(groups[i]).priority = PriorityOf[ParentOf(groups[i]).mon]
<1>1. ParentOf(groups[i]) \in Alerts
  BY GroupFacts
<1>2. ChildrenOf(groups[i]) \subseteq Alerts
  BY GroupFacts
<1>3. Context(groups[i]) \subseteq Changes
  BY DEF Context, GroupInv, TypeOK
<1>4. PriorityOf[ParentOf(groups[i]).mon] \in 1..4
  BY <1>1, AlertType
<1>5. Closed(groups[i]) \in BOOLEAN
  BY DEF Closed
<1> QED
  BY <1>1, <1>2, <1>3, <1>4, <1>5 DEF Incident, Incidents

LEMMA SelectStep ==
  ASSUME GroupInv, SelectParents
  PROVE  GroupInv' /\ PassInv'
<1>1. /\ phase' = "scheduler" /\ UNCHANGED <<input, history>>
      /\ incidents' = [i \in DOMAIN groups |-> Incident(groups[i])]
  BY DEF SelectParents, Pass
<1>2. UNCHANGED <<groups, recovered, kept, replaced>>
  BY <1>1 DEF input, history
<1>3. incidents' \in [DOMAIN groups -> Incidents] /\ DOMAIN incidents' = DOMAIN groups
  BY <1>1, IncidentType
<1>4. GroupInv'
  BY <1>1, <1>3, PassGroups DEF Phases
<1>5. \A i \in DOMAIN groups :
        /\ incidents'[i].parent = ParentOf(groups[i])
        /\ incidents'[i].closed = Closed(groups[i])
        /\ incidents'[i].priority = PriorityOf[ParentOf(groups[i]).mon]
        /\ Holds(i)' = {a \in kept : In(a, i)}
  <2> SUFFICES ASSUME NEW i \in DOMAIN groups
               PROVE  /\ incidents'[i].parent = ParentOf(groups[i])
                      /\ incidents'[i].closed = Closed(groups[i])
                      /\ incidents'[i].priority = PriorityOf[ParentOf(groups[i]).mon]
                      /\ Holds(i)' = {a \in kept : In(a, i)}
    OBVIOUS
  <2>1. incidents'[i] = Incident(groups[i])
    BY <1>1
  <2> QED
    BY <2>1, IncidentType, GroupFacts DEF Holds
<1>6. IncidentsMade'
  BY <1>2, <1>3, <1>5 DEF IncidentsMade, IncidentOf, Closed
<1>7. Conserved'
  <2>1. \A a \in kept \ replaced : \E i \in DOMAIN groups : In(a, i)
    BY DEF GroupInv, Grouped
  <2>2. \A i \in DOMAIN groups : \A a \in kept : In(a, i) => a \notin replaced
    BY DEF GroupInv, Grouped
  <2>3. \A i, j \in DOMAIN groups : \A a \in kept : In(a, i) /\ In(a, j) => i = j
    BY DEF GroupInv, Grouped
  <2> QED
    BY <1>2, <1>3, <1>5, <2>1, <2>2, <2>3 DEF Conserved
<1>8. OwnSeverity' /\ OwnAlerts'
  BY <1>2, <1>3, <1>5 DEF OwnSeverity, OwnAlerts, In
<1> QED
  BY <1>1, <1>2, <1>3, <1>4, <1>6, <1>7, <1>8 DEF PassInv, SchedulerKeepsSeverity

LEMMA FamilyType ==
  ASSUME NEW g \in Incidents
  PROVE  /\ g.parent \in Alerts /\ g.children \subseteq Alerts /\ Family(g) \subseteq Alerts
         /\ g.context \subseteq Changes /\ g.closed \in BOOLEAN
         /\ g.priority \in 1..4 /\ g.pages \in 0..1
BY DEF Incidents, Family

LEMMA InheritedLeast ==
  ASSUME NEW p \in 1..4, NEW G, \A g \in G : g.priority \in 1..4
  PROVE  /\ Inherited(p, G) \in 1..4 /\ Inherited(p, G) <= p
         /\ \A g \in G : Inherited(p, G) <= g.priority
<1> DEFINE S == {p} \cup {g.priority : g \in G}
<1>1. S \subseteq 1..4 /\ S \subseteq Nat /\ S # {}
  OBVIOUS
<1>2. Min(S) \in S /\ \A y \in S : Min(S) <= y
  BY <1>1, MinNat
<1>3. Inherited(p, G) = Min(S)
  BY DEF Inherited
<1> HIDE DEF S
<1>4. p \in S /\ \A g \in G : g.priority \in S
  BY DEF S
<1> QED
  BY <1>1, <1>2, <1>3, <1>4

\* A pass hands every incident to one that stays, and leaves no symptom behind.
\* owner[i] is where incident i is afterwards.
Absorbed(incs, res, owner, D, parents, inherit) ==
  /\ owner \in [D -> D] /\ res \in [DOMAIN res -> Incidents] /\ DOMAIN res \subseteq D
  /\ \A i \in D : owner[i] \in DOMAIN res
  /\ \A i \in D : owner[i] # i => incs[owner[i]].parent.mon \in parents
  /\ \A i \in DOMAIN res :
       /\ owner[i] = i
       /\ res[i].parent = incs[i].parent /\ res[i].closed = incs[i].closed
       /\ Family(res[i]) = UNION {Family(incs[j]) : j \in {k \in D : owner[k] = i}}
       /\ ~inherit => res[i].priority = incs[i].priority
       /\ inherit => \A j \in D : owner[j] = i => res[i].priority <= incs[j].priority

LEMMA AbsorbFacts ==
  ASSUME NEW D, D \subseteq Nat, NEW incs \in [D -> Incidents], NEW parents, NEW children,
         NEW region, NEW window, NEW inherit \in BOOLEAN,
         NEW res, res = Absorb(incs, parents, children, region, window, inherit)
  PROVE  /\ \E owner : Absorbed(incs, res, owner, D, parents, inherit)
         /\ \A i, j \in DOMAIN res :
              ~ /\ incs[i].parent.mon \in parents
                /\ incs[j].parent.mon \in children \ parents
                /\ Near(incs[i], incs[j], region, window)
<1> DEFINE causes   == {i \in D : incs[i].parent.mon \in parents}
           near(j)  == Causes(incs, causes, incs[j], region, window)
           symptoms == {j \in D \ causes : incs[j].parent.mon \in children /\ near(j) # {}}
           adopted(i) == {incs[j] : j \in {k \in symptoms : Min(near(k)) = i}}
           C(i) == incs[i].children \cup UNION {Family(g) : g \in adopted(i)}
           K(i) == incs[i].context \cup UNION {g.context : g \in adopted(i)}
           P(i) == IF inherit THEN Inherited(incs[i].priority, adopted(i)) ELSE incs[i].priority
           owner == [i \in D |-> IF i \in symptoms THEN Min(near(i)) ELSE i]
<1>1. res = [i \in D \ symptoms |->
               [incs[i] EXCEPT !.children = C(i), !.context = K(i), !.priority = P(i)]]
  BY DEF Absorb
<1>2. \A j \in D : near(j) = {i \in causes : Near(incs[i], incs[j], region, window)}
  BY DEF Causes
<1>3. \A i \in symptoms : Min(near(i)) \in causes
  <2> TAKE i \in symptoms
  <2>1. near(i) \subseteq causes /\ near(i) \subseteq Nat /\ near(i) # {}
    BY <1>2
  <2> HIDE DEF near, causes
  <2> QED
    BY <2>1, MinNat
<1>4. causes \subseteq D \ symptoms
  OBVIOUS
<1>5. \A i \in D : incs[i] \in Incidents
  OBVIOUS
<1>6. \A i, j \in D \ symptoms :
        ~ /\ incs[i].parent.mon \in parents
          /\ incs[j].parent.mon \in children \ parents
          /\ Near(incs[i], incs[j], region, window)
  BY <1>2
<1>7. \A i \in D : \A g \in adopted(i) : g \in Incidents
  BY <1>5
<1>8. \A i \in D : C(i) \subseteq Alerts /\ K(i) \subseteq Changes
  BY <1>5, <1>7, FamilyType
<1>9. \A i \in D : /\ P(i) \in 1..4
                   /\ ~inherit => P(i) = incs[i].priority
                   /\ inherit => /\ P(i) <= incs[i].priority
                                 /\ \A g \in adopted(i) : P(i) <= g.priority
  <2> TAKE i \in D
  <2>1. incs[i].priority \in 1..4 /\ \A g \in adopted(i) : g.priority \in 1..4
    BY <1>5, <1>7, FamilyType
  <2> HIDE DEF adopted
  <2> QED
    BY <2>1, InheritedLeast
<1>10. /\ owner \in [D -> D]
       /\ \A i \in D : owner[i] \in D \ symptoms
       /\ \A i \in D : owner[i] # i => incs[owner[i]].parent.mon \in parents
       /\ \A i \in D \ symptoms : owner[i] = i
  BY <1>3, <1>4
<1>11. \A i \in D \ symptoms : \A j \in D :
         owner[j] = i <=> j = i \/ (j \in symptoms /\ Min(near(j)) = i)
  OBVIOUS
<1>12. ASSUME NEW i \in D \ symptoms
       PROVE  adopted(i) = {incs[j] : j \in {k \in D : owner[k] = i} \ {i}}
  <2>1. symptoms \subseteq D /\ i \notin symptoms
    BY <1>12
  <2>2. {k \in symptoms : Min(near(k)) = i} = {k \in D : owner[k] = i} \ {i}
    <3> HIDE DEF symptoms, near, owner
    <3> QED
      BY <1>11, <1>12, <2>1
  <2>3. adopted(i) = {incs[j] : j \in {k \in symptoms : Min(near(k)) = i}}
    OBVIOUS
  <2> HIDE DEF symptoms, near, owner, adopted
  <2> QED
    BY <2>2, <2>3
<1> HIDE DEF C, K, P, adopted, owner, symptoms, causes, near
<1>13. DOMAIN res = D \ symptoms
  BY <1>1
<1>14. ASSUME NEW i \in DOMAIN res
       PROVE  /\ res[i] \in Incidents
              /\ res[i].parent = incs[i].parent /\ res[i].closed = incs[i].closed
              /\ res[i].children = C(i) /\ res[i].priority = P(i)
  <2>1. res[i] = [incs[i] EXCEPT !.children = C(i), !.context = K(i), !.priority = P(i)]
    BY <1>1, <1>13
  <2>2. incs[i] \in Incidents /\ C(i) \in SUBSET Alerts /\ K(i) \in SUBSET Changes /\ P(i) \in 1..4
    BY <1>5, <1>8, <1>9, <1>13
  <2> HIDE DEF C, K, P
  <2>3. PICK g \in Incidents, c \in SUBSET Alerts, k \in SUBSET Changes, p \in 1..4 :
          g = incs[i] /\ c = C(i) /\ k = K(i) /\ p = P(i)
    BY <2>2
  <2>4. PICK h : h = res[i]
    OBVIOUS
  <2>5. h = [g EXCEPT !.children = c, !.context = k, !.priority = p]
    BY <2>1, <2>3, <2>4
  <2>6. h \in Incidents /\ h.parent = g.parent /\ h.closed = g.closed /\ h.children = c /\ h.priority = p
    BY <2>3, <2>5 DEF Incidents
  <2> QED
    BY <2>3, <2>4, <2>6
<1>15. ASSUME NEW i \in DOMAIN res
       PROVE  Family(res[i]) = UNION {Family(incs[j]) : j \in {k \in D : owner[k] = i}}
  <2>1. Family(res[i]) = Family(incs[i]) \cup UNION {Family(g) : g \in adopted(i)}
    BY <1>14 DEF Family, C
  <2>2. adopted(i) = {incs[j] : j \in {k \in D : owner[k] = i} \ {i}} /\ i \in D /\ owner[i] = i
    BY <1>10, <1>12, <1>13
  <2> QED
    BY <2>1, <2>2
<1>16. ASSUME NEW i \in DOMAIN res
       PROVE  /\ ~inherit => res[i].priority = incs[i].priority
              /\ inherit => \A j \in D : owner[j] = i => res[i].priority <= incs[j].priority
  <2>1. \A j \in D : owner[j] = i => j = i \/ incs[j] \in adopted(i)
    BY <1>12, <1>13
  <2> QED
    BY <1>9, <1>13, <1>14, <2>1
<1>17. Absorbed(incs, res, owner, D, parents, inherit)
  <2>1. res \in [DOMAIN res -> Incidents]
    BY <1>1, <1>13, <1>14
  <2> QED
    BY <1>10, <1>13, <1>14, <1>15, <1>16, <2>1 DEF Absorbed
<1> QED
  BY <1>6, <1>13, <1>17

\* What every pass after the first keeps, if it keeps alerts and parents.
Kept(owner) ==
  /\ owner \in [DOMAIN incidents -> DOMAIN incidents']
  /\ DOMAIN incidents' \subseteq DOMAIN incidents
  /\ \A i \in DOMAIN incidents' :
       /\ owner[i] = i
       /\ incidents'[i].parent = incidents[i].parent
       /\ incidents'[i].closed = incidents[i].closed
       /\ Holds(i)' = UNION {Holds(j) : j \in {k \in DOMAIN incidents : owner[k] = i}}

LEMMA PassKeeps ==
  ASSUME GroupInv, PassInv, phase # "events", UNCHANGED <<input, history>>,
         NEW owner, Kept(owner)
  PROVE  /\ IncidentsMade' /\ Conserved'
         /\ SchedulerDone => SchedulerDone'
         /\ VendorDone => VendorDone'
         /\ TopologyDone => TopologyDone'
<1>1. UNCHANGED <<groups, recovered, kept, replaced>>
  BY DEF input, history
<1>2. IncidentsMade'
  BY <1>1 DEF PassInv, IncidentsMade, IncidentOf, Closed, Kept
<1>3. Conserved'
  <2>1. Conserved
    BY DEF PassInv
  <2>2. \A i \in DOMAIN incidents' : \A a : a \in Holds(i)' <=>
          \E j \in DOMAIN incidents : owner[j] = i /\ a \in Holds(j)
    BY DEF Kept
  <2>3. \A j \in DOMAIN incidents : owner[j] \in DOMAIN incidents'
    BY DEF Kept
  <2>4. \A a \in kept \ replaced : \E i \in DOMAIN incidents' : a \in Holds(i)'
    BY <2>1, <2>2, <2>3 DEF Conserved
  <2>5. \A i \in DOMAIN incidents' : Holds(i)' \subseteq kept \ replaced
    BY <2>1, <2>2 DEF Conserved
  <2>6. ASSUME NEW i \in DOMAIN incidents', NEW j \in DOMAIN incidents',
               NEW a, a \in Holds(i)', a \in Holds(j)'
        PROVE  i = j
    <3>1. PICK k \in DOMAIN incidents : owner[k] = i /\ a \in Holds(k)
      BY <2>2, <2>6
    <3>2. PICK l \in DOMAIN incidents : owner[l] = j /\ a \in Holds(l)
      BY <2>2, <2>6
    <3>3. k = l
      BY <2>1, <3>1, <3>2 DEF Conserved
    <3> QED
      BY <3>1, <3>2, <3>3
  <2>7. \A i, j \in DOMAIN incidents' : Holds(i)' \cap Holds(j)' # {} => i = j
    BY <2>6
  <2> QED
    BY <1>1, <2>4, <2>5, <2>7 DEF Conserved
<1>4. \A i, j \in DOMAIN incidents' : \A P, C, window : \A region \in BOOLEAN :
        Beside(i, j, P, C, region, window)' => Beside(i, j, P, C, region, window)
  BY DEF Kept, Beside, Near
<1>5. DOMAIN incidents' \subseteq DOMAIN incidents
  BY DEF Kept
<1> QED
  BY <1>2, <1>3, <1>4, <1>5 DEF SchedulerDone, VendorDone, TopologyDone

LEMMA AbsorbStep ==
  ASSUME GroupInv, PassInv, phase # "events", UNCHANGED <<input, history>>, phase' \in Phases,
         NEW parents, NEW children, NEW region \in BOOLEAN, NEW window, NEW inherit \in BOOLEAN,
         incidents' = Absorb(incidents, parents, children, region, window, inherit)
  PROVE  /\ GroupInv'
         /\ \E owner : /\ Kept(owner)
                       /\ Absorbed(incidents, incidents', owner, DOMAIN incidents, parents, inherit)
         /\ \A i, j \in DOMAIN incidents' : ~Beside(i, j, parents, children, region, window)'
<1> DEFINE D == DOMAIN incidents
<1>1. D \subseteq DOMAIN groups /\ D \subseteq Nat /\ incidents \in [D -> Incidents]
  BY DEF GroupInv, TypeOK
<1>2. /\ \E owner : Absorbed(incidents, incidents', owner, D, parents, inherit)
      /\ \A i, j \in DOMAIN incidents' :
           ~ /\ incidents[i].parent.mon \in parents
             /\ incidents[j].parent.mon \in children \ parents
             /\ Near(incidents[i], incidents[j], region, window)
  <2> HIDE DEF D
  <2> QED
    BY <1>1, AbsorbFacts
<1>3. PICK owner : Absorbed(incidents, incidents', owner, D, parents, inherit)
  BY <1>2
<1>4. GroupInv'
  BY <1>1, <1>3, PassGroups DEF Absorbed
<1>5. Kept(owner)
  <2>1. \A i \in D : Holds(i) = Family(incidents[i])
    BY DEF Holds, Family
  <2>2. \A i \in DOMAIN incidents' : Holds(i)' = Family(incidents'[i])
    BY DEF Holds, Family
  <2>3. owner \in [D -> DOMAIN incidents']
    BY <1>3 DEF Absorbed
  <2>4. \A i \in DOMAIN incidents' :
          Holds(i)' = UNION {Holds(j) : j \in {k \in D : owner[k] = i}}
    BY <1>3, <2>1, <2>2 DEF Absorbed
  <2> QED
    BY <1>3, <2>3, <2>4 DEF Kept, Absorbed
<1>6. \A i, j \in DOMAIN incidents' : ~Beside(i, j, parents, children, region, window)'
  BY <1>2, <1>3 DEF Absorbed, Beside, Near
<1> QED
  BY <1>3, <1>4, <1>5, <1>6

LEMMA SchedulerStep ==
  ASSUME GroupInv, PassInv, AbsorbScheduler
  PROVE  GroupInv' /\ PassInv'
<1>1. /\ phase = "scheduler" /\ phase' = "vendor" /\ UNCHANGED <<input, history>>
      /\ incidents' = Absorb(incidents, SchedulerParents, SchedulerChildren, FALSE,
                             SchedulerWindow, TRUE)
  BY DEF AbsorbScheduler, Pass
<1>2. phase # "events" /\ phase' \in Phases
  BY <1>1 DEF Phases
<1>3. PICK owner : /\ Kept(owner)
                   /\ Absorbed(incidents, incidents', owner, DOMAIN incidents,
                               SchedulerParents, TRUE)
  BY <1>1, <1>2, AbsorbStep
<1>4. GroupInv' /\ SchedulerDone'
  BY <1>1, <1>2, AbsorbStep DEF SchedulerDone
<1>5. IncidentsMade' /\ Conserved'
  BY <1>1, <1>2, <1>3, PassKeeps
<1>6. OwnSeverity /\ OwnAlerts /\ groups' = groups /\ DOMAIN incidents = DOMAIN groups
  BY <1>1 DEF PassInv, input
<1>7. ASSUME NEW i \in DOMAIN incidents', NEW j \in DOMAIN groups,
             ParentOf(groups[j]) \in Holds(i)'
      PROVE  incidents'[i].priority <= PriorityOf[ParentOf(groups[j]).mon]
  <2>1. PICK k \in DOMAIN incidents : owner[k] = i /\ ParentOf(groups[j]) \in Holds(k)
    BY <1>3, <1>7 DEF Kept
  <2>2. In(ParentOf(groups[j]), k) /\ k \in DOMAIN groups
    BY <1>6, <2>1 DEF OwnAlerts
  <2>3. In(ParentOf(groups[j]), j) /\ ParentOf(groups[j]) \in kept
    BY GroupFacts
  <2>4. k = j
    BY <2>2, <2>3 DEF GroupInv, Grouped
  <2>5. incidents'[i].priority <= incidents[k].priority
    BY <1>3, <2>1 DEF Absorbed
  <2> QED
    BY <1>6, <2>1, <2>4, <2>5 DEF OwnSeverity
<1>8. SchedulerKeepsSeverity'
  BY <1>6, <1>7 DEF SchedulerKeepsSeverity
<1> QED
  BY <1>1, <1>4, <1>5, <1>8 DEF PassInv

\* A pass that cannot reach the incidents of the scheduler.
LEMMA SeverityKept ==
  ASSUME PassInv, phase \notin {"events", "scheduler"}, groups' = groups,
         NEW owner, Kept(owner),
         \A i \in DOMAIN incidents' : incidents[i].parent.mon \in SchedulerParents =>
           /\ \A k \in DOMAIN incidents : owner[k] = i => k = i
           /\ incidents'[i].priority <= incidents[i].priority
           /\ incidents'[i].priority \in Nat /\ incidents[i].priority \in Nat,
         \A j \in DOMAIN groups : PriorityOf[ParentOf(groups[j]).mon] \in Nat
  PROVE  SchedulerKeepsSeverity'
<1>1. ASSUME NEW i \in DOMAIN incidents', incidents'[i].parent.mon \in SchedulerParents,
             NEW j \in DOMAIN groups, ParentOf(groups[j]) \in Holds(i)'
      PROVE  incidents'[i].priority <= PriorityOf[ParentOf(groups[j]).mon]
  <2>1. i \in DOMAIN incidents /\ incidents[i].parent.mon \in SchedulerParents
    BY <1>1 DEF Kept
  <2>2. Holds(i)' = UNION {Holds(k) : k \in {l \in DOMAIN incidents : owner[l] = i}}
    BY DEF Kept
  <2>3. ParentOf(groups[j]) \in Holds(i)
    BY <1>1, <2>1, <2>2
  <2>4. incidents[i].priority <= PriorityOf[ParentOf(groups[j]).mon]
    BY <2>1, <2>3 DEF PassInv, SchedulerKeepsSeverity
  <2> QED
    BY <2>1, <2>4
<1> QED
  BY <1>1 DEF SchedulerKeepsSeverity

LEMMA LaterStep ==
  ASSUME GroupInv, PassInv, UNCHANGED <<input, history>>, phase' \in Phases,
         phase \notin {"events", "scheduler"},
         NEW parents, SchedulerParents \cap parents = {},
         NEW children, NEW region \in BOOLEAN, NEW window,
         incidents' = Absorb(incidents, parents, children, region, window, FALSE)
  PROVE  /\ GroupInv' /\ IncidentsMade' /\ Conserved' /\ SchedulerDone' /\ SchedulerKeepsSeverity'
         /\ VendorDone => VendorDone'
         /\ \A i, j \in DOMAIN incidents' : ~Beside(i, j, parents, children, region, window)'
<1>1. PICK owner : /\ Kept(owner)
                   /\ Absorbed(incidents, incidents', owner, DOMAIN incidents, parents, FALSE)
  BY AbsorbStep
<1>2. /\ GroupInv'
      /\ \A i, j \in DOMAIN incidents' : ~Beside(i, j, parents, children, region, window)'
  BY AbsorbStep
<1>3. /\ IncidentsMade' /\ Conserved' /\ SchedulerDone'
      /\ VendorDone => VendorDone'
  BY <1>1, PassKeeps DEF PassInv
<1>4. groups' = groups /\ \A j \in DOMAIN groups : PriorityOf[ParentOf(groups[j]).mon] \in Nat
  BY GroupFacts, AlertType DEF input
<1>5. \A i \in DOMAIN incidents' : incidents[i].parent.mon \in SchedulerParents =>
        /\ \A k \in DOMAIN incidents : owner[k] = i => k = i
        /\ incidents'[i].priority <= incidents[i].priority
        /\ incidents'[i].priority \in Nat /\ incidents[i].priority \in Nat
  <2>1. \A i \in DOMAIN incidents : incidents[i].priority \in Nat
    BY FamilyType DEF GroupInv, TypeOK
  <2>2. \A i \in DOMAIN incidents' : i \in DOMAIN incidents /\ incidents'[i].priority = incidents[i].priority
    BY <1>1 DEF Absorbed
  <2>3. \A k \in DOMAIN incidents : owner[k] # k => incidents[owner[k]].parent.mon \notin SchedulerParents
    BY <1>1 DEF Absorbed
  <2>4. \A i \in DOMAIN incidents' : incidents[i].parent.mon \in SchedulerParents =>
          \A k \in DOMAIN incidents : owner[k] = i => k = i
    BY <2>3
  <2>5. \A i \in DOMAIN incidents' :
          /\ incidents'[i].priority <= incidents[i].priority
          /\ incidents'[i].priority \in Nat /\ incidents[i].priority \in Nat
    <3> TAKE i \in DOMAIN incidents'
    <3>1. PICK p \in Nat : p = incidents[i].priority /\ p = incidents'[i].priority
      BY <2>1, <2>2
    <3>2. p <= p
      OBVIOUS
    <3> QED
      BY <3>1, <3>2
  <2> QED
    BY <2>4, <2>5
<1>6. SchedulerKeepsSeverity'
  BY <1>1, <1>4, <1>5, SeverityKept
<1> QED
  BY <1>2, <1>3, <1>6

LEMMA VendorStep ==
  ASSUME GroupInv, PassInv, AbsorbVendor
  PROVE  GroupInv' /\ PassInv'
<1>1. /\ phase = "vendor" /\ phase' = "topology" /\ UNCHANGED <<input, history>>
      /\ incidents' = Absorb(incidents, VendorParents, VendorChildren, FALSE, Window, FALSE)
  BY DEF AbsorbVendor, Pass
<1>2. phase \notin {"events", "scheduler"} /\ phase' \in Phases
  BY <1>1 DEF Phases
<1>3. SchedulerParents \cap VendorParents = {}
  BY CausesAssumption
<1>4. /\ GroupInv' /\ IncidentsMade' /\ Conserved' /\ SchedulerDone' /\ SchedulerKeepsSeverity'
      /\ VendorDone'
  BY <1>1, <1>2, <1>3, LaterStep DEF VendorDone
<1> QED
  BY <1>1, <1>4 DEF PassInv

LEMMA TopologyStep ==
  ASSUME GroupInv, PassInv, AbsorbTopology
  PROVE  GroupInv' /\ PassInv'
<1>1. /\ phase = "topology" /\ phase' = "uplift" /\ UNCHANGED <<input, history>>
      /\ incidents' = Absorb(incidents, TopologyParents, TopologyChildren, TRUE, Window, FALSE)
  BY DEF AbsorbTopology, Pass
<1>2. phase \notin {"events", "scheduler"} /\ phase' \in Phases
  BY <1>1 DEF Phases
<1>3. SchedulerParents \cap TopologyParents = {}
  BY CausesAssumption
<1>4. VendorDone
  BY <1>1 DEF PassInv
<1>5. /\ GroupInv' /\ IncidentsMade' /\ Conserved' /\ SchedulerDone' /\ SchedulerKeepsSeverity'
      /\ VendorDone' /\ TopologyDone'
  BY <1>1, <1>2, <1>3, <1>4, LaterStep DEF TopologyDone
<1> QED
  BY <1>1, <1>5 DEF PassInv

LEMMA UpliftedLess ==
  ASSUME NEW p \in 1..4
  PROVE  Max({1, p - 1}) \in 1..4 /\ Max({1, p - 1}) <= p
<1>1. \E x \in {1, p - 1} : \A y \in {1, p - 1} : x >= y
  OBVIOUS
<1> QED
  BY <1>1 DEF Max

\* Uplift and decision change priority and pages only.
LEMMA LastSteps ==
  ASSUME GroupInv, PassInv, ScopeUplift \/ Decide
  PROVE  GroupInv' /\ PassInv'
<1> DEFINE D == DOMAIN incidents
           owner == [i \in D |-> i]
<1>1. /\ phase \in {"uplift", "decide"} /\ phase' \in {"decide", "done"} /\ phase' \in Phases
      /\ UNCHANGED <<input, history>> /\ DOMAIN incidents' = D
      /\ incidents' = [i \in D |-> incidents'[i]]
  BY DEF ScopeUplift, Decide, Pass, Phases
<1>2. \A i \in D : incidents[i] \in Incidents /\ incidents[i].priority \in 1..4
  BY FamilyType DEF GroupInv, TypeOK
<1>3. ASSUME NEW i \in D
      PROVE  \/ incidents'[i] = incidents[i]
             \/ incidents'[i] = [incidents[i] EXCEPT !.priority = Max({1, incidents[i].priority - 1})]
             \/ \E n \in 0..1 : incidents'[i] = [incidents[i] EXCEPT !.pages = n]
  BY DEF ScopeUplift, Decide, Pass
<1>4. ASSUME NEW i \in D
      PROVE  /\ incidents'[i] \in Incidents
             /\ incidents'[i].parent = incidents[i].parent
             /\ incidents'[i].children = incidents[i].children
             /\ incidents'[i].closed = incidents[i].closed
             /\ incidents'[i].priority \in 1..4
             /\ incidents'[i].priority <= incidents[i].priority
  <2>1. PICK g \in Incidents, q \in 1..4 : g = incidents[i] /\ q = Max({1, g.priority - 1}) /\ q <= g.priority
    BY <1>2, UpliftedLess
  <2>2. PICK h : h = incidents'[i]
    OBVIOUS
  <2>3. \/ h = g
        \/ h = [g EXCEPT !.priority = q]
        \/ \E n \in 0..1 : h = [g EXCEPT !.pages = n]
    BY <1>3, <2>1, <2>2
  <2>4. /\ h \in Incidents /\ h.parent = g.parent /\ h.children = g.children /\ h.closed = g.closed
        /\ h.priority \in 1..4 /\ h.priority <= g.priority
    BY <2>1, <2>3 DEF Incidents
  <2> QED
    BY <2>1, <2>2, <2>4
<1>5. GroupInv'
  <2>1. incidents' \in [D -> Incidents] /\ D \subseteq DOMAIN groups
    BY <1>1, <1>4 DEF GroupInv, TypeOK
  <2> QED
    BY <1>1, <2>1, PassGroups
<1>6. Kept(owner)
  <2>1. \A i \in D : Holds(i)' = Holds(i)
    BY <1>4 DEF Holds
  <2>2. \A i \in D : Holds(i)' = UNION {Holds(j) : j \in {k \in D : owner[k] = i}}
    BY <2>1
  <2>3. owner \in [D -> DOMAIN incidents'] /\ \A i \in D : owner[i] = i
    BY <1>1
  <2> HIDE DEF owner
  <2> QED
    BY <1>1, <1>4, <2>2, <2>3 DEF Kept
<1>7. SchedulerDone /\ VendorDone /\ TopologyDone /\ phase # "events"
  BY <1>1 DEF PassInv
<1>8. IncidentsMade' /\ Conserved' /\ SchedulerDone' /\ VendorDone' /\ TopologyDone'
  <2> HIDE DEF owner
  <2> QED
    BY <1>1, <1>6, <1>7, PassKeeps
<1>9. SchedulerKeepsSeverity'
  <2>1. groups' = groups /\ \A j \in DOMAIN groups : PriorityOf[ParentOf(groups[j]).mon] \in Nat
    BY <1>1, GroupFacts, AlertType DEF input
  <2>2. \A i \in DOMAIN incidents' :
          /\ \A k \in DOMAIN incidents : owner[k] = i => k = i
          /\ incidents'[i].priority <= incidents[i].priority
          /\ incidents'[i].priority \in Nat /\ incidents[i].priority \in Nat
    BY <1>1, <1>2, <1>4
  <2>3. phase \notin {"events", "scheduler"}
    BY <1>1
  <2> HIDE DEF owner
  <2> QED
    BY <1>6, <2>1, <2>2, <2>3, SeverityKept
<1> QED
  BY <1>1, <1>5, <1>8, <1>9 DEF PassInv

-------------------------------------------------------------------------------
(* The theorems.                                                           *)

LEMMA InvInit == Init => Inv
<1> SUFFICES ASSUME Init PROVE Inv
  OBVIOUS
<1>1. /\ DOMAIN groups = {} /\ DOMAIN incidents = {} /\ groups \in Seq(Groups)
      /\ incidents \in [DOMAIN incidents -> Incidents]
  BY DEF Init
<1>2. 0 \in Times /\ 0 \in 0..MaxEvents
  BY RulesAssumption DEF Times
<1>3. TypeOK
  BY <1>1, <1>2 DEF Init, TypeOK, Phases
<1>4. SeenLast /\ GroupsMade /\ Grouped /\ ReplacedBurst
  BY <1>1 DEF Init, SeenLast, GroupsMade, Grouped, ReplacedBurst, Never
<1>5. PassInv
  BY <1>1 DEF Init, PassInv, IncidentsMade, SchedulerKeepsSeverity
<1> QED
  BY <1>3, <1>4, <1>5 DEF Inv, GroupInv

LEMMA InvStep == Inv /\ [Next]_vars => Inv'
<1> SUFFICES ASSUME GroupInv, PassInv, [Next]_vars PROVE GroupInv' /\ PassInv'
  BY DEF Inv
<1>1. ASSUME NEW t \in Times, Event(t)
      PROVE  GroupInv' /\ PassInv'
  BY <1>1, EventGroups, EventPasses DEF GroupInv
<1>2. CASE UNCHANGED vars
  <2>1. UNCHANGED <<phase, input, history, incidents>>
    BY <1>2 DEF vars
  <2>2. GroupInv'
    BY <2>1, PassGroups DEF GroupInv, TypeOK
  <2> USE DEF input, history
  <2>3. IncidentsMade => IncidentsMade'
    BY <2>1 DEF IncidentsMade, IncidentOf, Closed
  <2>4. SchedulerKeepsSeverity => SchedulerKeepsSeverity'
    BY <2>1 DEF SchedulerKeepsSeverity, Holds
  <2>5. (Conserved => Conserved') /\ (OwnSeverity => OwnSeverity') /\ (OwnAlerts => OwnAlerts')
    BY <2>1 DEF Conserved, Holds, OwnSeverity, OwnAlerts, In
  <2>6. /\ SchedulerDone => SchedulerDone'
        /\ VendorDone => VendorDone'
        /\ TopologyDone => TopologyDone'
    BY <2>1 DEF SchedulerDone, VendorDone, TopologyDone, Beside, Near
  <2> QED
    BY <2>1, <2>2, <2>3, <2>4, <2>5, <2>6 DEF PassInv
<1> QED
  BY <1>1, <1>2, SelectStep, SchedulerStep, VendorStep, TopologyStep, LastSteps DEF Next

LEMMA InvHolds == Spec => []Inv
BY InvInit, InvStep, PTL DEF Spec

\* The types of correlate(): places of groups and incidents, priorities P1 to P4.
THEOREM TypeCorrect == Spec => []TypeOK
<1>1. Inv => TypeOK
  BY DEF Inv, GroupInv
<1> QED
  BY <1>1, InvHolds, PTL

\* correlate() accounts for every alert that passed deduplication: exactly one
\* incident holds it through all passes, unless its group was replaced by one of
\* the same key and second.
THEOREM AlertsConservedHolds == Spec => []AlertsConserved
<1>1. Inv => AlertsConserved
  <2> SUFFICES ASSUME GroupInv, PassInv PROVE AlertsConserved
    BY DEF Inv
  <2>1. ASSUME Conserved, NEW a \in kept, a \in replaced
        PROVE  Cardinality({i \in DOMAIN incidents : a \in Holds(i)}) = 0
    <3>1. {i \in DOMAIN incidents : a \in Holds(i)} = {}
      BY <2>1 DEF Conserved
    <3> QED
      BY <3>1, FS_EmptySet
  <2>2. ASSUME Conserved, NEW a \in kept, a \notin replaced
        PROVE  Cardinality({i \in DOMAIN incidents : a \in Holds(i)}) = 1
    <3>1. PICK i \in DOMAIN incidents : a \in Holds(i)
      BY <2>2 DEF Conserved
    <3>2. {j \in DOMAIN incidents : a \in Holds(j)} = {i}
      BY <2>2, <3>1 DEF Conserved
    <3> QED
      BY <3>2, FS_Singleton
  <2> QED
    BY <2>1, <2>2 DEF AlertsConserved, GroupInv, ReplacedBurst, PassInv
<1> QED
  BY <1>1, InvHolds, PTL

\* _absorb: when all passes are done nothing that a cause explains stands beside
\* it, whatever earlier passes did to causes and symptoms.
THEOREM SymptomsAdoptedHolds == Spec => []SymptomsAdopted
<1>1. Inv => SymptomsAdopted
  BY DEF Inv, PassInv, SymptomsAdopted, SchedulerDone, VendorDone, TopologyDone, Beside
<1> QED
  BY <1>1, InvHolds, PTL

\* inherit_child_priority: an incident of the scheduler never ends up less severe
\* than a group it adopted.
THEOREM SchedulerKeepsSeverityHolds == Spec => []SchedulerKeepsSeverity
<1>1. Inv => SchedulerKeepsSeverity
  BY DEF Inv, PassInv
<1> QED
  BY <1>1, InvHolds, PTL

\* require_all_children_recovered: a closed incident has a recovery for each
\* alert of the group it was made from.
THEOREM ClosedGroupsRecoveredHolds == Spec => []ClosedGroupsRecovered
<1>1. Inv => ClosedGroupsRecovered
  <2> SUFFICES ASSUME GroupInv, PassInv, NEW i \in DOMAIN incidents, incidents[i].closed,
                      NEW j \in DOMAIN groups,
                      incidents[i].parent \in Range(groups[j].members),
                      NEW k \in DOMAIN groups[j].members
               PROVE  groups[j].members[k].mon \in recovered
    BY DEF Inv, ClosedGroupsRecovered
  <2>1. i \in DOMAIN groups /\ IncidentOf(i)
    BY DEF GroupInv, TypeOK, PassInv, IncidentsMade
  <2>2. In(incidents[i].parent, i) /\ incidents[i].parent \in kept
    BY <2>1, GroupFacts DEF IncidentOf
  <2>3. In(incidents[i].parent, j)
    BY DEF Range, In
  <2>4. i = j
    BY <2>1, <2>2, <2>3 DEF GroupInv, Grouped
  <2>5. groups[j].members[k] \in {ParentOf(groups[j])} \cup ChildrenOf(groups[j])
    BY DEF ChildrenOf, Range
  <2> QED
    BY <2>1, <2>4, <2>5 DEF IncidentOf, Closed
<1> QED
  BY <1>1, InvHolds, PTL

===============================================================================
