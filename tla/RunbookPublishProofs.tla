-------------------------- MODULE RunbookPublishProofs --------------------------
(***************************************************************************)
(* Proofs about RunbookPublish, for any runbooks, publishers, bounds and   *)
(* number of attempts: the types, the notebooks of a name, and what the    *)
(* reconciler spares and removes.                                          *)
(***************************************************************************)
EXTENDS RunbookPublish, TLAPS, WellFoundedInduction, FiniteSetTheorems,
        SequenceTheorems

-------------------------------------------------------------------------------
(* The inductive invariant.                                                *)

\* No two notebooks have an id, and the next id is new.
Fresh ==
  /\ \A i, j \in DOMAIN notebooks : notebooks[i].id = notebooks[j].id => i = j
  /\ \A i \in DOMAIN notebooks : notebooks[i].id < nextId

\* An id that is or was the id of a notebook of the name.
Of(id, name) ==
  id # NoId => /\ id < nextId
               /\ \A n \in Range(notebooks) : n.id = id => n.name = name

CheckoutRight(c) == \A r \in Runbooks : Of(c.id[r], r)

GoingRight(x) ==
  /\ CheckoutRight(x.from)
  /\ x.todo \subseteq Registered(x.from)
  /\ \A i \in DOMAIN x.remote : Of(x.remote[i].id, x.remote[i].name)
  /\ \A r \in Runbooks : Of(x.assigned[r], r)

\* A request writes a notebook of its name, or its run had listed none.
RequestRight(x) ==
  /\ GoingRight(x.then)
  /\ x.name \in Registered(x.then.from)
  /\ Of(x.id, x.name)
  /\ x.id = NoId => \A n \in Range(x.then.remote) : n.name # x.name

RunRight(x) ==
  /\ x.step = "list" => CheckoutRight(x.from)
  /\ x.step = "next" => GoingRight(x)
  /\ x.step = "write" => RequestRight(x)

\* What a reconciler has yet to remove was never called like a runbook of its
\* checkout; what it has done is gone or has failed.
Spared(t) ==
  t[1] = "notebook" =>
    /\ t[2] < nextId
    /\ \A n \in Range(notebooks) : n.id = t[2] => n.name \notin Registered(rec.from)

RecRight ==
  /\ rec.step = "delete" =>
       \A t \in rec.all : /\ Spared(t)
                          /\ t \in rec.todo \/ t \in rec.failed \/ ~Present(t)
  /\ rec.step = "delete" => rec.todo \subseteq rec.all
  /\ rec.step = "green" => 
       \A t \in rec.all : ~Present(t) /\ (t[1] = "notebook" => t[2] < nextId)

NamesInv ==
  /\ TypeOK /\ Fresh
  /\ CheckoutRight(repo)
  /\ \A p \in Publishers : RunRight(run[p])

Inv == NamesInv /\ RecRight

-------------------------------------------------------------------------------
(* What a step does.                                                       *)

\* A notebook that was there keeps its name; what is gone does not return.
Kept ==
  /\ nextId <= nextId'
  /\ services' \subseteq services
  /\ \A m \in Range(notebooks') :
       m.id < nextId => \E n \in Range(notebooks) : n.id = m.id /\ n.name = m.name

\* Of a runbook that has a notebook a second one is explained.
Accounted(name) ==
  name \in Runbooks /\ Called(name) # {} => extra'[name] > extra[name]

OrgStep ==
  \/ \E name \in Runbooks \cup OtherNames, stamp \in Versions :
       Created(name, stamp) /\ Accounted(name)
  \/ \E n \in Range(notebooks), stamp \in Versions : Written(n.id, n.name, stamp)
  \/ /\ \E id \in Ids : notebooks' = Without(id)
     /\ UNCHANGED <<services, nextId>>
  \/ /\ UNCHANGED <<notebooks, nextId>>
     /\ services' \subseteq services

RepoStep ==
  \/ UNCHANGED repo
  \/ \E c \in Checkout : repo' = c /\ CheckoutRight(c)

RunStep ==
  \/ UNCHANGED run
  \/ \E p \in Publishers, y \in Runs :
       run' = [run EXCEPT ![p] = y] /\ (RunRight(y) \/ RunRight(y)')

CountStep ==
  /\ byHand' \in 0..MaxByHand /\ faults' \in 0..MaxFaults
  /\ extra' \in [Runbooks -> Nat]
  /\ \A r \in Runbooks : extra[r] <= extra'[r]

Step == OrgStep /\ RepoStep /\ RunStep /\ CountStep

-------------------------------------------------------------------------------
(* The listing of the notebooks.                                           *)

LEMMA SmallestNat ==
  ASSUME NEW S, S \subseteq Nat, S # {}
  PROVE  \E x \in S : \A y \in S : x <= y
<1>1. PICK x \in S : \A y \in S : ~(<<y, x>> \in OpToRel(<, Nat))
  BY NatLessThanWellFounded, WFMin
<1>2. \A y \in S : ~(y < x)
  BY <1>1 DEF OpToRel
<1> QED
  BY <1>2

LEMMA MaxOfPlaces ==
  ASSUME NEW k \in Nat, NEW S, S \subseteq 1..k, S # {}
  PROVE  Max(S) \in S
<1> DEFINE T == {k - x : x \in S}
<1>0. \A x \in S : x \in 1..k
  OBVIOUS
<1>1. T \subseteq Nat /\ T # {}
  <2>1. \A x \in S : k - x \in Nat
    BY <1>0
  <2> QED
    BY <2>1
<1>2. PICK t \in T : \A u \in T : t <= u
  BY <1>1, SmallestNat
<1>3. PICK x \in S : t = k - x
  BY <1>2
<1>4. \A y \in S : y <= x
  <2> TAKE y \in S
  <2>1. k - y \in T
    OBVIOUS
  <2>2. t <= k - y
    BY <2>1, <1>2
  <2> HIDE DEF T
  <2> QED
    BY <2>2, <1>0, <1>3
<1>5. \A y \in S : x >= y
  BY <1>4
<1> QED
  BY <1>5 DEF Max

LEMMA RemoveAtFacts ==
  ASSUME NEW S, NEW s \in Seq(S), NEW i \in 1..Len(s)
  PROVE  /\ RemoveAt(s, i) \in Seq(S)
         /\ Len(RemoveAt(s, i)) = Len(s) - 1
         /\ \A k \in 1..(Len(s) - 1) :
              RemoveAt(s, i)[k] = IF k < i THEN s[k] ELSE s[k + 1]
<1> DEFINE a == SubSeq(s, 1, i - 1)
           b == SubSeq(s, i + 1, Len(s))
<1>1. Len(s) \in Nat /\ \A k \in 1..Len(s) : s[k] \in S
  BY LenProperties, ElementOfSeq
<1>2. /\ a \in Seq(S) /\ Len(a) = i - 1
      /\ \A k \in 1..(i - 1) : a[k] = s[k]
  <2>1. \A k \in 1..(i - 1) : s[k] \in S
    BY <1>1
  <2> QED
    BY <1>1, <2>1, SubSeqProperties
<1>3. /\ b \in Seq(S) /\ Len(b) = Len(s) - i
      /\ \A k \in 1..(Len(s) - i) : b[k] = s[i + k]
  <2>1. \A k \in (i + 1)..Len(s) : s[k] \in S
    BY <1>1
  <2>2. /\ b \in Seq(S)
        /\ Len(b) = IF i + 1 <= Len(s) THEN Len(s) - (i + 1) + 1 ELSE 0
        /\ \A k \in 1..(Len(s) - (i + 1) + 1) : b[k] = s[(i + 1) + k - 1]
    BY <1>1, <2>1, SubSeqProperties
  <2> QED
    BY <1>1, <2>2
<1> HIDE DEF a, b
<1>4. /\ a \o b \in Seq(S) /\ Len(a \o b) = Len(s) - 1
      /\ \A k \in 1..(Len(s) - 1) :
           (a \o b)[k] = IF k <= i - 1 THEN a[k] ELSE b[k - (i - 1)]
  <2>1. Len(a) + Len(b) = Len(s) - 1
    BY <1>1, <1>2, <1>3
  <2>2. /\ a \o b \in Seq(S) /\ Len(a \o b) = Len(a) + Len(b)
        /\ \A k \in 1..(Len(a) + Len(b)) :
             (a \o b)[k] = IF k <= Len(a) THEN a[k] ELSE b[k - Len(a)]
    BY <1>2, <1>3, ConcatProperties
  <2> QED
    BY <2>1, <2>2, <1>2
<1>5. \A k \in 1..(Len(s) - 1) : (a \o b)[k] = IF k < i THEN s[k] ELSE s[k + 1]
  <2> TAKE k \in 1..(Len(s) - 1)
  <2>1. CASE k < i
    BY <2>1, <1>1, <1>2, <1>4
  <2>2. CASE ~(k < i)
    <3>1. k - (i - 1) \in 1..(Len(s) - i)
      BY <2>2, <1>1
    <3>2. (a \o b)[k] = b[k - (i - 1)]
      BY <2>2, <1>1, <1>4
    <3>3. b[k - (i - 1)] = s[i + (k - (i - 1))]
      BY <3>1, <1>3
    <3>4. i + (k - (i - 1)) = k + 1
      BY <1>1
    <3> QED
      BY <2>2, <3>2, <3>3, <3>4
  <2> QED
    BY <2>1, <2>2
<1> QED
  BY <1>4, <1>5 DEF RemoveAt, a, b

\* The listing without the notebook of an id.
LEMMA WithoutFacts ==
  ASSUME TypeOK, Fresh, NEW id
  PROVE  /\ Without(id) \in Seq(Notebook)
         /\ \A i, j \in DOMAIN Without(id) :
              Without(id)[i].id = Without(id)[j].id => i = j
         /\ Range(Without(id)) = {n \in Range(notebooks) : n.id # id}
<1>1. /\ notebooks \in Seq(Notebook) /\ DOMAIN notebooks = 1..Len(notebooks)
      /\ Len(notebooks) \in Nat
  BY LenProperties DEF TypeOK
<1>2. CASE Live(id) = {}
  <2>1. Without(id) = notebooks
    BY <1>2 DEF Without
  <2>2. \A n \in Range(notebooks) : n.id # id
    BY <1>2 DEF Live
  <2> QED
    BY <2>1, <2>2, <1>1 DEF Fresh
<1>3. CASE Live(id) # {}
  <2>1. \E i \in DOMAIN notebooks : notebooks[i].id = id
    BY <1>3 DEF Live, Range
  <2>2. PICK i \in DOMAIN notebooks : notebooks[i].id = id /\ Without(id) = RemoveAt(notebooks, i)
    BY <1>3, <2>1 DEF Without
  <2> DEFINE w == RemoveAt(notebooks, i)
  <2>3. /\ w \in Seq(Notebook) /\ Len(w) = Len(notebooks) - 1
        /\ \A k \in 1..(Len(notebooks) - 1) :
             w[k] = IF k < i THEN notebooks[k] ELSE notebooks[k + 1]
    BY <1>1, RemoveAtFacts
  <2> HIDE DEF w
  <2>4. DOMAIN w = 1..(Len(notebooks) - 1)
    BY <2>3, LenProperties
  <2>5. \A k, l \in DOMAIN w : w[k].id = w[l].id => k = l
    <3> SUFFICES ASSUME NEW k \in DOMAIN w, NEW l \in DOMAIN w, w[k].id = w[l].id
                 PROVE  k = l
      OBVIOUS
    <3> DEFINE u == IF k < i THEN k ELSE k + 1
               v == IF l < i THEN l ELSE l + 1
    <3>1. w[k] = notebooks[u] /\ w[l] = notebooks[v]
      BY <2>3, <2>4
    <3>2. u \in DOMAIN notebooks /\ v \in DOMAIN notebooks
      BY <1>1, <2>4
    <3> HIDE DEF u, v
    <3>3. u = v
      BY <3>1, <3>2 DEF Fresh
    <3> QED
      BY <3>3, <1>1, <2>4 DEF u, v
  <2>6. Range(w) \subseteq {n \in Range(notebooks) : n.id # id}
    <3> SUFFICES ASSUME NEW k \in DOMAIN w
                 PROVE  w[k] \in Range(notebooks) /\ w[k].id # id
      BY DEF Range
    <3> DEFINE u == IF k < i THEN k ELSE k + 1
    <3>1. w[k] = notebooks[u]
      BY <2>3, <2>4
    <3>2. u \in DOMAIN notebooks /\ u # i
      BY <1>1, <2>4
    <3> HIDE DEF u
    <3> QED
      BY <3>1, <3>2, <2>2 DEF Fresh, Range
  <2>7. {n \in Range(notebooks) : n.id # id} \subseteq Range(w)
    <3> SUFFICES ASSUME NEW j \in DOMAIN notebooks, notebooks[j].id # id
                 PROVE  notebooks[j] \in Range(w)
      BY DEF Range
    <3>1. j # i
      BY <2>2
    <3> DEFINE k == IF j < i THEN j ELSE j - 1
    <3>2. k \in DOMAIN w /\ w[k] = notebooks[j]
      BY <3>1, <2>3, <2>4, <1>1
    <3> QED
      BY <3>2 DEF Range
  <2> QED
    BY <2>2, <2>3, <2>5, <2>6, <2>7 DEF w
<1> QED
  BY <1>2, <1>3

\* A notebook more at the end of a listing.
LEMMA AppendFacts ==
  ASSUME NEW s \in Seq(Notebook), NEW e \in Notebook
  PROVE  /\ Append(s, e) \in Seq(Notebook)
         /\ Range(Append(s, e)) = Range(s) \cup {e}
         /\ /\ \A i, j \in DOMAIN s : s[i].id = s[j].id => i = j
            /\ \A n \in Range(s) : n.id # e.id
            => \A i, j \in DOMAIN Append(s, e) :
                 Append(s, e)[i].id = Append(s, e)[j].id => i = j
<1> DEFINE t == Append(s, e)
<1>1. /\ t \in Seq(Notebook) /\ Len(t) = Len(s) + 1
      /\ \A i \in 1..Len(s) : t[i] = s[i]
      /\ t[Len(s) + 1] = e
  BY AppendProperties
<1> HIDE DEF t
<1>2. DOMAIN s = 1..Len(s) /\ DOMAIN t = 1..(Len(s) + 1) /\ Len(s) \in Nat
  BY <1>1, LenProperties
<1>3. Range(t) = Range(s) \cup {e}
  <2>1. Range(t) \subseteq Range(s) \cup {e}
    BY <1>1, <1>2 DEF Range
  <2>2. Range(s) \subseteq Range(t)
    BY <1>1, <1>2 DEF Range
  <2>3. e \in Range(t)
    BY <1>1, <1>2 DEF Range
  <2> QED
    BY <2>1, <2>2, <2>3
<1>4. ASSUME \A i, j \in DOMAIN s : s[i].id = s[j].id => i = j,
             \A n \in Range(s) : n.id # e.id
      PROVE  \A i, j \in DOMAIN t : t[i].id = t[j].id => i = j
  <2>1. \A i \in DOMAIN s : s[i].id # e.id
    BY <1>4 DEF Range
  <2> QED
    BY <1>1, <1>2, <1>4, <2>1
<1> QED
  BY <1>1, <1>3, <1>4 DEF t

-------------------------------------------------------------------------------
(* What a step keeps.                                                      *)

LEMMA CreatedKeeps ==
  ASSUME TypeOK, Fresh, NEW name \in Runbooks \cup OtherNames, NEW stamp \in Versions,
         Created(name, stamp)
  PROVE  /\ notebooks' \in Seq(Notebook) /\ nextId' \in 1..(MaxId + 1)
         /\ services' \subseteq Services
         /\ Fresh' /\ Kept
         /\ Range(notebooks') =
              Range(notebooks) \cup {[id |-> nextId, name |-> name, stamp |-> stamp]}
<1> DEFINE e == [id |-> nextId, name |-> name, stamp |-> stamp]
<1>1. /\ e \in Notebook /\ e.id = nextId
      /\ notebooks' = Append(notebooks, e) /\ nextId' = nextId + 1
      /\ services' = services /\ nextId \in 1..MaxId
  BY DEF Created, Notebook, Ids
<1>2. notebooks \in Seq(Notebook) /\ services \subseteq Services
  BY DEF TypeOK
<1>3. \A n \in Range(notebooks) : n.id < nextId /\ n.id \in Nat
  <2>1. \A i \in DOMAIN notebooks : notebooks[i] \in Notebook
    BY <1>2, LenProperties, ElementOfSeq
  <2> QED
    BY <2>1 DEF Fresh, Range, Notebook, Ids
<1> HIDE DEF e
<1>4. /\ notebooks' \in Seq(Notebook)
      /\ Range(notebooks') = Range(notebooks) \cup {e}
      /\ \A i, j \in DOMAIN notebooks' : notebooks'[i].id = notebooks'[j].id => i = j
  <2>1. \A n \in Range(notebooks) : n.id # e.id
    BY <1>1, <1>3
  <2> QED
    BY <1>1, <1>2, <2>1, AppendFacts DEF Fresh
<1>5. Fresh'
  <2>1. \A n \in Range(notebooks') : n.id < nextId'
    BY <1>1, <1>3, <1>4
  <2>2. \A i \in DOMAIN notebooks' : notebooks'[i] \in Range(notebooks')
    BY DEF Range
  <2> QED
    BY <1>4, <2>1, <2>2 DEF Fresh
<1>6. Kept
  BY <1>1, <1>3, <1>4 DEF Kept
<1>7. nextId' \in 1..(MaxId + 1)
  BY <1>1, PublishAssumption
<1> QED
  BY <1>1, <1>2, <1>4, <1>5, <1>6, <1>7 DEF e

LEMMA WrittenKeeps ==
  ASSUME TypeOK, Fresh, NEW n \in Range(notebooks), NEW stamp \in Versions,
         Written(n.id, n.name, stamp)
  PROVE  /\ notebooks' \in Seq(Notebook)
         /\ nextId' = nextId /\ services' = services
         /\ Fresh' /\ Kept
         /\ Range(notebooks') =
              {m \in Range(notebooks) : m.id # n.id}
                \cup {[id |-> n.id, name |-> n.name, stamp |-> stamp]}
<1> DEFINE e == [id |-> n.id, name |-> n.name, stamp |-> stamp]
           w == Without(n.id)
<1>1. /\ notebooks' = Append(w, e)
      /\ nextId' = nextId /\ services' = services
      /\ e.id = n.id /\ e.name = n.name
  BY DEF Written
<1>2. \A m \in Range(notebooks) : m \in Notebook /\ m.id < nextId
  <2>1. \A i \in DOMAIN notebooks : notebooks[i] \in Notebook
    BY LenProperties, ElementOfSeq DEF TypeOK
  <2> QED
    BY <2>1 DEF Fresh, Range
<1>3. e \in Notebook /\ nextId \in Int
  BY <1>2 DEF Notebook, TypeOK
<1>4. /\ w \in Seq(Notebook)
      /\ \A i, j \in DOMAIN w : w[i].id = w[j].id => i = j
      /\ Range(w) = {m \in Range(notebooks) : m.id # n.id}
  BY WithoutFacts
<1> HIDE DEF w, e
<1>5. /\ notebooks' \in Seq(Notebook)
      /\ Range(notebooks') = Range(w) \cup {e}
      /\ \A i, j \in DOMAIN notebooks' : notebooks'[i].id = notebooks'[j].id => i = j
  <2>1. \A m \in Range(w) : m.id # e.id
    BY <1>1, <1>4
  <2> QED
    BY <1>1, <1>3, <1>4, <2>1, AppendFacts
<1>6. Fresh'
  <2>1. \A m \in Range(notebooks') : m.id < nextId'
    BY <1>1, <1>2, <1>4, <1>5
  <2>2. \A i \in DOMAIN notebooks' : notebooks'[i] \in Range(notebooks')
    BY DEF Range
  <2> QED
    BY <1>5, <2>1, <2>2 DEF Fresh
<1>7. Kept
  BY <1>1, <1>3, <1>4, <1>5 DEF Kept
<1> QED
  BY <1>1, <1>4, <1>5, <1>6, <1>7 DEF e

LEMMA WithoutKeeps ==
  ASSUME TypeOK, Fresh, NEW id, notebooks' = Without(id), UNCHANGED <<services, nextId>>
  PROVE  /\ notebooks' \in Seq(Notebook)
         /\ Fresh' /\ Kept
         /\ Range(notebooks') = {n \in Range(notebooks) : n.id # id}
<1>1. /\ notebooks' \in Seq(Notebook)
      /\ \A i, j \in DOMAIN notebooks' : notebooks'[i].id = notebooks'[j].id => i = j
      /\ Range(notebooks') = {n \in Range(notebooks) : n.id # id}
  BY WithoutFacts
<1>2. Fresh'
  <2>1. \A n \in Range(notebooks') : n.id < nextId'
    BY <1>1 DEF Fresh, Range
  <2>2. \A i \in DOMAIN notebooks' : notebooks'[i] \in Range(notebooks')
    BY DEF Range
  <2> QED
    BY <1>1, <2>1, <2>2 DEF Fresh
<1>3. Kept
  BY <1>1 DEF Kept, TypeOK
<1> QED
  BY <1>1, <1>2, <1>3

LEMMA OrgKeeps ==
  ASSUME TypeOK, Fresh, OrgStep
  PROVE  /\ notebooks' \in Seq(Notebook) /\ nextId' \in 1..(MaxId + 1)
         /\ services' \subseteq Services
         /\ Fresh' /\ Kept
<1>1. CASE \E name \in Runbooks \cup OtherNames, stamp \in Versions :
             Created(name, stamp) /\ Accounted(name)
  BY <1>1, CreatedKeeps
<1>2. CASE \E n \in Range(notebooks), stamp \in Versions : Written(n.id, n.name, stamp)
  BY <1>2, WrittenKeeps DEF TypeOK
<1>3. CASE (\E id \in Ids : notebooks' = Without(id)) /\ UNCHANGED <<services, nextId>>
  BY <1>3, WithoutKeeps DEF TypeOK
<1>4. CASE UNCHANGED <<notebooks, nextId>> /\ services' \subseteq services
  BY <1>4 DEF TypeOK, Fresh, Kept
<1> QED
  BY <1>1, <1>2, <1>3, <1>4 DEF OrgStep

LEMMA ListedTypes ==
  ASSUME TypeOK, NEW n \in Range(notebooks)
  PROVE  n \in Notebook /\ n.id \in Ids
<1>1. \A i \in DOMAIN notebooks : notebooks[i] \in Notebook
  BY LenProperties, ElementOfSeq DEF TypeOK
<1> QED
  BY <1>1 DEF Range, Notebook

\* What is known of an id stays so.
LEMMA OfKept ==
  ASSUME TypeOK, Fresh, nextId' \in Nat, Kept, NEW id \in {NoId} \cup Ids, NEW name, Of(id, name)
  PROVE  Of(id, name)'
BY DEF Of, Kept, TypeOK, Ids

LEMMA CheckoutKept ==
  ASSUME TypeOK, Fresh, nextId' \in Nat, Kept, NEW c \in Checkout, CheckoutRight(c)
  PROVE  CheckoutRight(c)'
<1>1. \A r \in Runbooks : c.id[r] \in {NoId} \cup Ids
  BY DEF Checkout
<1> QED
  BY <1>1, OfKept DEF CheckoutRight

LEMMA GoingKept ==
  ASSUME TypeOK, Fresh, nextId' \in Nat, Kept, NEW x \in Going, GoingRight(x)
  PROVE  GoingRight(x)'
<1>1. /\ x.from \in Checkout
      /\ \A r \in Runbooks : x.assigned[r] \in {NoId} \cup Ids
      /\ \A i \in DOMAIN x.remote : x.remote[i].id \in {NoId} \cup Ids
  <2>1. \A i \in DOMAIN x.remote : x.remote[i] \in Notebook
    BY LenProperties, ElementOfSeq DEF Going
  <2> QED
    BY <2>1 DEF Going, Notebook
<1>2. CheckoutRight(x.from)'
  BY <1>1, CheckoutKept DEF GoingRight
<1> QED
  BY <1>1, <1>2, OfKept DEF GoingRight, Registered

LEMMA RunKept ==
  ASSUME TypeOK, Fresh, nextId' \in Nat, Kept, NEW x \in Runs, RunRight(x)
  PROVE  RunRight(x)'
<1>1. CASE x.step = "list"
  <2>1. x.from \in Checkout
    BY <1>1 DEF Runs, Idle, Going, Request
  <2> QED
    BY <1>1, <2>1, CheckoutKept DEF RunRight
<1>2. CASE x.step = "next"
  <2>1. x \in Going
    BY <1>2 DEF Runs, Idle, Request
  <2> QED
    BY <1>2, <2>1, GoingKept DEF RunRight
<1>3. CASE x.step = "write"
  <2>1. x \in Request
    BY <1>3 DEF Runs, Idle, Going
  <2>2. x.then \in Going /\ x.id \in {NoId} \cup Ids
    BY <2>1 DEF Request
  <2> QED
    BY <1>3, <2>2, GoingKept, OfKept DEF RunRight, RequestRight, Registered
<1> QED
  BY <1>1, <1>2, <1>3 DEF RunRight

LEMMA AbsentKept ==
  ASSUME TypeOK, TypeOK', Kept, NEW t \in Removable,
         t[1] = "notebook" => t[2] < nextId, ~Present(t)
  PROVE  ~Present(t)'
<1>1. CASE t[1] = "service"
  BY <1>1 DEF Present, Kept
<1>2. CASE t[1] # "service"
  <2>1. t[1] = "notebook"
    BY <1>2 DEF Removable
  <2>2. \A n \in Range(notebooks) : n.id # t[2]
    BY <1>2 DEF Present, Live
  <2>3. \A n \in Range(notebooks') : n.id # t[2]
    BY <2>1, <2>2 DEF Kept
  <2> QED
    BY <1>2, <2>3 DEF Present, Live
<1> QED
  BY <1>1, <1>2

LEMMA SparedKept ==
  ASSUME TypeOK, TypeOK', Kept, rec'.from = rec.from, NEW t \in Removable, Spared(t)
  PROVE  Spared(t)'
<1>1. CASE t[1] = "notebook"
  <2>1. t[2] < nextId /\ t[2] \in Nat
    BY <1>1 DEF Spared, Removable, Ids
  <2>2. t[2] < nextId'
    BY <2>1 DEF Kept, TypeOK
  <2>3. \A n \in Range(notebooks') :
          n.id = t[2] => n.name \notin Registered(rec.from)
    BY <1>1, <2>1 DEF Spared, Kept
  <2> QED
    BY <2>2, <2>3 DEF Spared, Registered
<1> QED
  BY <1>1 DEF Spared

LEMMA RecKept ==
  ASSUME TypeOK, TypeOK', Kept, UNCHANGED rec, RecRight
  PROVE  RecRight'
<1>1. CASE rec.step = "delete"
  <2>1. rec.all \subseteq Removable
    BY <1>1 DEF TypeOK, RecRuns, Idle, Removing
  <2>2. ASSUME NEW t \in rec.all
        PROVE  /\ Spared(t)'
               /\ t \in rec.todo \/ t \in rec.failed \/ ~Present(t)'
    <3>1. /\ t \in Removable /\ Spared(t)
          /\ t \in rec.todo \/ t \in rec.failed \/ ~Present(t)
      BY <1>1, <2>1 DEF RecRight
    <3>2. Spared(t)'
      BY <3>1, SparedKept
    <3>3. ~Present(t) => ~Present(t)'
      BY <3>1, AbsentKept DEF Spared
    <3> QED
      BY <3>1, <3>2, <3>3
  <2> QED
    BY <1>1, <2>2 DEF RecRight
<1>2. CASE rec.step = "green"
  <2>1. rec.all \subseteq Removable
    BY <1>2 DEF TypeOK, RecRuns, Idle, Removing
  <2>2. ASSUME NEW t \in rec.all
        PROVE  ~Present(t)' /\ (t[1] = "notebook" => t[2] < nextId')
    <3>1. t \in Removable /\ ~Present(t) /\ (t[1] = "notebook" => t[2] < nextId)
      BY <1>2, <2>1 DEF RecRight
    <3>2. t[1] = "notebook" => t[2] \in Nat
      BY <3>1 DEF Removable, Ids
    <3>3. ~Present(t)'
      BY <3>1, AbsentKept
    <3> QED
      BY <3>1, <3>2, <3>3 DEF Kept, TypeOK
  <2> QED
    BY <1>2, <2>2 DEF RecRight
<1> QED
  BY <1>1, <1>2 DEF RecRight

LEMMA NamesKept ==
  ASSUME NamesInv, Step, rec' \in RecRuns
  PROVE  NamesInv' /\ Kept
<1>1. TypeOK /\ Fresh /\ OrgStep
  BY DEF NamesInv, Step
<1>2. /\ notebooks' \in Seq(Notebook) /\ nextId' \in 1..(MaxId + 1)
      /\ services' \subseteq Services
      /\ Fresh' /\ Kept
  BY <1>1, OrgKeeps
<1>3. repo' \in Checkout
  BY <1>1 DEF Step, RepoStep, TypeOK
<1>4. run' \in [Publishers -> Runs]
  BY <1>1 DEF Step, RunStep, TypeOK
<1>5. TypeOK' /\ nextId' \in Nat
  BY <1>2, <1>3, <1>4 DEF TypeOK, Step, CountStep
<1>6. CheckoutRight(repo)'
  <2>1. PICK c \in Checkout : repo' = c /\ CheckoutRight(c)
    BY <1>1 DEF Step, RepoStep, NamesInv, TypeOK
  <2>2. CheckoutRight(c)'
    BY <1>1, <1>2, <1>5, <2>1, CheckoutKept
  <2> QED
    BY <2>1, <2>2 DEF CheckoutRight
<1>7. ASSUME NEW q \in Publishers
      PROVE  RunRight(run[q])'
  <2>1. PICK y \in Runs : run'[q] = y /\ (RunRight(y) \/ RunRight(y)')
    <3>1. CASE UNCHANGED run
      BY <1>1, <3>1 DEF NamesInv, TypeOK
    <3>2. CASE \E p \in Publishers, y \in Runs :
                 run' = [run EXCEPT ![p] = y] /\ (RunRight(y) \/ RunRight(y)')
      <4>1. PICK p \in Publishers, y \in Runs :
                 run' = [run EXCEPT ![p] = y] /\ (RunRight(y) \/ RunRight(y)')
        BY <3>2
      <4>2. CASE p = q
        BY <4>1, <4>2, <1>1 DEF TypeOK
      <4>3. CASE p # q
        <5>1. run'[q] = run[q] /\ run[q] \in Runs
          BY <4>1, <4>3, <1>1 DEF TypeOK
        <5> QED
          BY <5>1 DEF NamesInv
      <4> QED
        BY <4>2, <4>3
    <3> QED
      BY <3>1, <3>2 DEF Step, RunStep
  <2>2. RunRight(y)'
    BY <1>1, <1>2, <1>5, <2>1, RunKept
  <2> QED
    BY <2>1, <2>2
<1> QED
  BY <1>2, <1>5, <1>6, <1>7 DEF NamesInv

-------------------------------------------------------------------------------
(* The steps of a publisher and of people.                                 *)

LEMMA Quiet ==
  ASSUME NamesInv
  PROVE  /\ UNCHANGED org => OrgStep
         /\ UNCHANGED repo => RepoStep
         /\ UNCHANGED count => CountStep
         /\ Fault /\ UNCHANGED extra => CountStep
BY PublishAssumption DEF NamesInv, TypeOK, org, count, Fault, OrgStep, RepoStep, CountStep

LEMMA RunTypes ==
  ASSUME NEW x \in Runs
  PROVE  /\ x.step = "list" => x.from \in Checkout
         /\ x.step = "next" => x \in Going
         /\ x.step = "write" => x \in Request
BY DEF Runs, Idle, Going, Request

LEMMA StartStep ==
  ASSUME NamesInv, NEW p \in Publishers, Start(p)
  PROVE  Step /\ UNCHANGED rec
<1> DEFINE y == [step |-> "list", from |-> repo]
<1>1. y \in Runs /\ RunRight(y) /\ run' = [run EXCEPT ![p] = y]
  BY DEF Start, Runs, NamesInv, TypeOK, RunRight
<1>2. RunStep
  BY <1>1 DEF RunStep
<1> QED
  BY <1>2, Quiet DEF Step, Start

LEMMA ListStep ==
  ASSUME NamesInv, NEW p \in Publishers, List(p)
  PROVE  Step /\ UNCHANGED rec
<1>1. PICK x \in Runs : x = run[p]
  BY DEF NamesInv, TypeOK
<1>2. x.step = "list" /\ x.from \in Checkout /\ CheckoutRight(x.from)
  BY <1>1, RunTypes DEF List, NamesInv, RunRight
<1> DEFINE y == [step |-> "next", from |-> x.from, remote |-> notebooks,
                 todo |-> Registered(x.from), drift |-> {}, assigned |-> x.from.id]
<1>3. run' = [run EXCEPT ![p] = y]
  BY <1>1 DEF List, NamesInv, TypeOK
<1>4. y \in Going
  BY <1>2 DEF Going, NamesInv, TypeOK, Registered, Checkout
<1>5. GoingRight(y)
  <2>1. \A i \in DOMAIN notebooks : Of(notebooks[i].id, notebooks[i].name)
    <3> SUFFICES ASSUME NEW i \in DOMAIN notebooks, NEW n \in Range(notebooks),
                        n.id = notebooks[i].id
                 PROVE  n.name = notebooks[i].name
      BY DEF Of, NamesInv, Fresh
    <3>1. PICK j \in DOMAIN notebooks : n = notebooks[j]
      BY DEF Range
    <3> QED
      BY <3>1 DEF NamesInv, Fresh
  <2> QED
    BY <1>2, <2>1 DEF GoingRight, CheckoutRight
<1>6. y \in Runs /\ RunRight(y)
  BY <1>4, <1>5 DEF RunRight, Runs
<1> HIDE DEF y
<1>7. RunStep
  BY <1>3, <1>6 DEF RunStep
<1> QED
  BY <1>7, Quiet DEF Step, List

\* The newest listed notebook of a name is one of them.
LEMMA AdoptedFacts ==
  ASSUME NEW x \in Going, NEW r \in Runbooks
  PROVE  \/ /\ Adopted(x, r) = NoId
            /\ \A n \in Range(x.remote) : n.name # r
         \/ \E i \in DOMAIN x.remote : /\ x.remote[i].name = r
                                      /\ Adopted(x, r) = x.remote[i].id
<1> DEFINE same == {i \in DOMAIN x.remote : x.remote[i].name = r}
<1>1. DOMAIN x.remote = 1..Len(x.remote) /\ Len(x.remote) \in Nat
  BY LenProperties DEF Going
<1>2. CASE same = {}
  BY <1>2 DEF Adopted, Range
<1>3. CASE same # {}
  <2>1. Max(same) \in same
    BY <1>1, <1>3, MaxOfPlaces
  <2> QED
    BY <1>3, <2>1 DEF Adopted
<1> QED
  BY <1>2, <1>3

LEMMA TargetFacts ==
  ASSUME NEW x \in Going, GoingRight(x), NEW r \in Runbooks
  PROVE  /\ Target(x, r) \in {NoId} \cup Ids
         /\ Of(Target(x, r), r)
         /\ Target(x, r) = NoId => \A n \in Range(x.remote) : n.name # r
<1>1. x.from.id[r] \in {NoId} \cup Ids /\ Of(x.from.id[r], r)
  BY DEF Going, Checkout, GoingRight, CheckoutRight
<1>2. \A i \in DOMAIN x.remote :
        x.remote[i].id \in Ids /\ Of(x.remote[i].id, x.remote[i].name)
  <2>1. \A i \in DOMAIN x.remote : x.remote[i] \in Notebook
    BY LenProperties, ElementOfSeq DEF Going
  <2> QED
    BY <2>1 DEF Notebook, GoingRight
<1>3. NoId \notin Ids
  BY DEF NoId, Ids
<1>4. CASE x.from.id[r] # NoId
  BY <1>1, <1>4 DEF Target
<1>5. CASE x.from.id[r] = NoId
  <2>1. Target(x, r) = Adopted(x, r)
    BY <1>5 DEF Target
  <2>2. CASE Adopted(x, r) = NoId /\ \A n \in Range(x.remote) : n.name # r
    BY <2>1, <2>2 DEF Of
  <2>3. CASE \E i \in DOMAIN x.remote : /\ x.remote[i].name = r
                                        /\ Adopted(x, r) = x.remote[i].id
    BY <2>1, <2>3, <1>2, <1>3
  <2> QED
    BY <2>2, <2>3, AdoptedFacts
<1> QED
  BY <1>4, <1>5

LEMMA ExamineStep ==
  ASSUME NamesInv, NEW p \in Publishers, Examine(p)
  PROVE  Step /\ UNCHANGED rec
<1>1. PICK x \in Runs : x = run[p]
  BY DEF NamesInv, TypeOK
<1>2. x \in Going /\ GoingRight(x) /\ x.step = "next" /\ x.todo # {}
  BY <1>1, RunTypes DEF Examine, NamesInv, RunRight
<1>3. PICK r \in x.todo : r = CHOOSE s \in x.todo : TRUE
  BY <1>2
<1>4. r \in Runbooks /\ x.todo \subseteq Runbooks /\ x.drift \subseteq Runbooks
  BY <1>2, <1>3 DEF Going
<1> DEFINE id == Target(x, r)
           rest == [x EXCEPT !.todo = @ \ {r}]
           drift == [rest EXCEPT !.drift = @ \cup {r}]
           found == [rest EXCEPT !.assigned[r] = id]
           write == [step |-> "write", id |-> id, name |-> r, tries |-> 1, then |-> drift]
<1>5. /\ id \in {NoId} \cup Ids /\ Of(id, r)
      /\ id = NoId => \A n \in Range(x.remote) : n.name # r
  BY <1>2, <1>4, TargetFacts
<1>6. \E y \in {found, drift, write} : run' = [run EXCEPT ![p] = y]
  BY <1>1, <1>3 DEF Examine
<1> HIDE DEF id
<1>7. rest \in Going /\ GoingRight(rest)
  BY <1>2, <1>4 DEF Going, GoingRight
<1>13. drift.from = x.from
  BY <1>2 DEF Going
<1>8. drift \in Going /\ GoingRight(drift) /\ drift.remote = x.remote
  BY <1>2, <1>4 DEF Going, GoingRight
<1>9. found \in Going /\ GoingRight(found)
  <2>1. /\ found.from = x.from /\ found.remote = x.remote
        /\ found.assigned = [x.assigned EXCEPT ![r] = id]
    BY <1>2 DEF Going
  <2>2. found \in Going
    BY <1>2, <1>4, <1>5 DEF Going
  <2>3. \A s \in Runbooks : Of(found.assigned[s], s)
    BY <2>1, <1>2, <1>4, <1>5 DEF GoingRight, Going
  <2> QED
    BY <2>1, <2>2, <2>3, <1>7 DEF GoingRight
<1> HIDE DEF rest, drift, found
<1>10. write \in Request /\ RequestRight(write)
  <2>1. r \in Registered(drift.from)
    BY <1>2, <1>3, <1>13 DEF GoingRight
  <2> QED
  BY <2>1, <1>4, <1>5, <1>8, PublishAssumption DEF Request, RequestRight
<1> HIDE DEF write
<1>11. \A y \in {found, drift, write} : y \in Runs /\ RunRight(y)
  <2>1. \A y \in Going : y \in Runs /\ (GoingRight(y) => RunRight(y))
    BY DEF Runs, RunRight, Going
  <2>2. write \in Runs /\ RunRight(write)
    BY <1>10 DEF Runs, RunRight, Request
  <2> QED
    BY <1>8, <1>9, <2>1, <2>2
<1>12. RunStep
  <2>1. PICK y \in {found, drift, write} : run' = [run EXCEPT ![p] = y]
    BY <1>6
  <2>2. y \in Runs /\ RunRight(y)
    BY <1>11
  <2> QED
    BY <2>1, <2>2 DEF RunStep
<1> QED
  BY <1>12, Quiet DEF Step, Examine

\* A run that ends.
LEMMA IdleStep ==
  ASSUME NEW p \in Publishers, run' = [run EXCEPT ![p] = Idle]
  PROVE  RunStep
<1>1. Idle \in Runs /\ RunRight(Idle)
  BY DEF Runs, RunRight, Idle
<1> QED
  BY <1>1 DEF RunStep

LEMMA RetriedStep ==
  ASSUME NamesInv, NEW p \in Publishers, run[p].step = "write", Retried(p)
  PROVE  RunStep
<1>1. PICK x \in Runs : x = run[p]
  BY DEF NamesInv, TypeOK
<1>2. x \in Request /\ RequestRight(x)
  BY <1>1, RunTypes DEF NamesInv, RunRight
<1>3. CASE x.tries = Attempts
  BY <1>1, <1>3, IdleStep DEF Retried
<1>4. CASE x.tries # Attempts
  <2> DEFINE y == [x EXCEPT !.tries = x.tries + 1]
  <2>1. run' = [run EXCEPT ![p] = y]
    BY <1>1, <1>4 DEF Retried
  <2>2. /\ y \in Request /\ y.then = x.then /\ y.id = x.id /\ y.name = x.name
        /\ y.step = "write"
    BY <1>2, <1>4, PublishAssumption DEF Request
  <2> HIDE DEF y
  <2>3. y \in Runs /\ RunRight(y)
    BY <1>2, <2>2 DEF Runs, RunRight, RequestRight
  <2> QED
    BY <2>1, <2>3 DEF RunStep
<1> QED
  BY <1>3, <1>4

\* The answer to a request: the id goes into the registry of the checkout.
LEMMA AnsweredFacts ==
  ASSUME NEW z \in Going, NEW r \in Runbooks, NEW id \in Ids
  PROVE  LET y == [z EXCEPT !.assigned[r] = id]
         IN /\ y \in Runs
            /\ GoingRight(z) /\ Of(id, r) => RunRight(y)
            /\ GoingRight(z)' /\ Of(id, r)' => RunRight(y)'
<1> DEFINE y == [z EXCEPT !.assigned[r] = id]
<1>1. /\ y.from = z.from /\ y.remote = z.remote /\ y.todo = z.todo /\ y.step = "next"
      /\ y.assigned = [z.assigned EXCEPT ![r] = id]
      /\ z.assigned \in [Runbooks -> {NoId} \cup Ids]
  BY DEF Going
<1>2. y \in Runs
  BY DEF Going, Runs
<1> HIDE DEF y
<1>3. ASSUME GoingRight(z), Of(id, r) PROVE RunRight(y)
  <2>1. \A s \in Runbooks : Of(y.assigned[s], s)
    BY <1>1, <1>3 DEF GoingRight
  <2> QED
    BY <1>1, <1>3, <2>1 DEF RunRight, GoingRight
<1>4. ASSUME GoingRight(z)', Of(id, r)' PROVE RunRight(y)'
  <2>1. \A s \in Runbooks : Of(y.assigned[s], s)'
    BY <1>1, <1>4 DEF GoingRight
  <2> QED
    BY <1>1, <1>4, <2>1 DEF RunRight, GoingRight
<1> QED
  BY <1>2, <1>3, <1>4 DEF y

\* The notebook that a PUT writes has the name already.
LEMMA PutStep ==
  ASSUME NamesInv, NEW p \in Publishers, Put(p)
  PROVE  Step /\ UNCHANGED rec
<1>1. PICK x \in Runs : x = run[p]
  BY DEF NamesInv, TypeOK
<1>2. /\ x \in Request /\ RequestRight(x) /\ x.step = "write" /\ x.id # NoId
      /\ Live(x.id) # {}
      /\ Written(x.id, x.name, x.then.from.source[x.name])
      /\ run' = [run EXCEPT ![p] = [x.then EXCEPT !.assigned[x.name] = x.id]]
  BY <1>1, RunTypes DEF Put, Writing, Answered, NamesInv, RunRight
<1> DEFINE z == x.then
           y == [z EXCEPT !.assigned[x.name] = x.id]
<1>3. z \in Going /\ GoingRight(z) /\ x.name \in Runbooks /\ x.id \in Ids /\ Of(x.id, x.name)
  BY <1>2 DEF Request, RequestRight
<1>4. y \in Runs /\ RunRight(y)
  BY <1>3, AnsweredFacts
<1> HIDE DEF y
<1>5. RunStep
  BY <1>2, <1>4 DEF RunStep, y
<1>6. OrgStep
  <2>1. PICK n \in Range(notebooks) : n.id = x.id
    BY <1>2 DEF Live
  <2>2. n.name = x.name
    BY <2>1, <1>2, <1>3 DEF Of
  <2>3. z.from.source[x.name] \in Versions
    <3>1. x.name \in Registered(z.from) /\ z.from \in Checkout
      BY <1>2, <1>3 DEF RequestRight, Going
    <3> QED
      BY <3>1 DEF Registered, Checkout
  <2> QED
    BY <1>2, <2>1, <2>2, <2>3 DEF OrgStep
<1> QED
  BY <1>5, <1>6, Quiet DEF Step, Put

LEMMA PutGoneStep ==
  ASSUME NamesInv, NEW p \in Publishers, PutGone(p)
  PROVE  Step /\ UNCHANGED rec
BY Quiet, IdleStep DEF Step, PutGone

\* A run that posts had listed no notebook of the name: one that is there was
\* made since.
LEMMA PostedStep ==
  ASSUME NamesInv, NEW x \in Request, RequestRight(x), x.id = NoId, Posted(x)
  PROVE  /\ OrgStep /\ UNCHANGED <<repo, rec>>
         /\ extra' \in [Runbooks -> Nat]
         /\ \A r \in Runbooks : extra[r] <= extra'[r]
         /\ Kept /\ nextId \in Ids /\ nextId' \in Nat
         /\ \E id \in Ids : id = nextId /\ Of(id, x.name)'
<1> DEFINE stamp == x.then.from.source[x.name]
           n == x.name
<1>1. n \in Runbooks /\ stamp \in Versions
  <2>1. /\ n \in Registered(x.then.from) /\ x.then.from \in Checkout /\ n \in Runbooks
    BY DEF RequestRight, Request, Going
  <2> QED
    BY <2>1 DEF Registered, Checkout
<1>2. Created(n, stamp) /\ UNCHANGED <<repo, rec>>
  BY DEF Posted
<1>3. extra' = [extra EXCEPT ![n] = IF Overtaken(x) THEN extra[n] + 1 ELSE extra[n]]
  BY DEF Posted
<1>4. extra \in [Runbooks -> Nat]
  BY DEF NamesInv, TypeOK
<1>5. Called(n) # {} => Overtaken(x)
  BY DEF Overtaken, RequestRight
<1> HIDE DEF stamp, n
<1>6. Accounted(n)
  BY <1>1, <1>3, <1>4, <1>5 DEF Accounted
<1>7. /\ extra' \in [Runbooks -> Nat]
      /\ \A r \in Runbooks : extra[r] <= extra'[r]
  BY <1>1, <1>3, <1>4
<1>8. /\ Kept /\ nextId' \in 1..(MaxId + 1) /\ Fresh'
      /\ Range(notebooks') =
           Range(notebooks) \cup {[id |-> nextId, name |-> n, stamp |-> stamp]}
  BY <1>1, <1>2, CreatedKeeps DEF NamesInv
<1>9. \E id \in Ids : id = nextId /\ Of(id, n)'
  <2>1. PICK id \in Ids : id = nextId /\ nextId' = id + 1
    BY <1>2 DEF Created
  <2>2. \A m \in Range(notebooks) : m.id # id
    BY <2>1 DEF NamesInv, Fresh, Range, TypeOK
  <2>3. id < nextId'
    BY <2>1 DEF Ids
  <2>4. \A m \in Range(notebooks') : m.id = id => m.name = n
    BY <1>8, <2>1, <2>2
  <2>5. Of(id, n)'
    BY <2>3, <2>4 DEF Of, n
  <2> QED
    BY <2>1, <2>5
<1> QED
  BY <1>1, <1>2, <1>6, <1>7, <1>8, <1>9 DEF OrgStep, Created, n

LEMMA PostStep ==
  ASSUME NamesInv, NEW p \in Publishers, Post(p)
  PROVE  Step /\ UNCHANGED rec
<1>1. PICK x \in Runs : x = run[p]
  BY DEF NamesInv, TypeOK
<1>2. /\ x \in Request /\ RequestRight(x) /\ x.id = NoId /\ Posted(x)
      /\ run' = [run EXCEPT ![p] = [x.then EXCEPT !.assigned[x.name] = nextId]]
      /\ UNCHANGED faults
  BY <1>1, RunTypes DEF Post, Writing, Answered, NamesInv, RunRight
<1>3. /\ OrgStep /\ UNCHANGED <<repo, rec>>
      /\ extra' \in [Runbooks -> Nat]
      /\ \A r \in Runbooks : extra[r] <= extra'[r]
      /\ Kept /\ nextId' \in Nat
  BY <1>2, PostedStep
<1>4. PICK id \in Ids : id = nextId /\ Of(id, x.name)'
  BY <1>2, PostedStep
<1> DEFINE z == x.then
           y == [z EXCEPT !.assigned[x.name] = id]
<1>5. z \in Going /\ GoingRight(z) /\ x.name \in Runbooks
  BY <1>2 DEF Request, RequestRight
<1>6. GoingRight(z)'
  BY <1>3, <1>5, GoingKept DEF NamesInv
<1>7. y \in Runs /\ RunRight(y)'
  BY <1>4, <1>5, <1>6, AnsweredFacts
<1>8. run' = [run EXCEPT ![p] = y]
  BY <1>2, <1>4
<1> HIDE DEF y
<1>9. RunStep
  BY <1>7, <1>8 DEF RunStep
<1>10. CountStep
  BY <1>2, <1>3 DEF CountStep, Posted, NamesInv, TypeOK
<1> QED
  BY <1>3, <1>9, <1>10, Quiet DEF Step

LEMMA PostLostStep ==
  ASSUME NamesInv, NEW p \in Publishers, PostLost(p)
  PROVE  Step /\ UNCHANGED rec
<1>1. PICK x \in Runs : x = run[p]
  BY DEF NamesInv, TypeOK
<1>2. /\ x \in Request /\ RequestRight(x) /\ x.id = NoId /\ Posted(x)
      /\ run[p].step = "write" /\ Retried(p) /\ Fault
  BY <1>1, RunTypes DEF PostLost, Writing, NamesInv, RunRight
<1>3. /\ OrgStep /\ UNCHANGED <<repo, rec>>
      /\ extra' \in [Runbooks -> Nat]
      /\ \A r \in Runbooks : extra[r] <= extra'[r]
  BY <1>2, PostedStep
<1>4. RunStep
  BY <1>2, RetriedStep
<1>5. CountStep
  BY <1>2, <1>3, PublishAssumption DEF CountStep, Fault, NamesInv, TypeOK
<1> QED
  BY <1>3, <1>4, <1>5, Quiet DEF Step

LEMMA WriteRefusedStep ==
  ASSUME NamesInv, NEW p \in Publishers, WriteRefused(p)
  PROVE  Step /\ UNCHANGED rec
BY Quiet, RetriedStep DEF Step, WriteRefused

LEMMA RecordStep ==
  ASSUME NamesInv, NEW p \in Publishers, Record(p)
  PROVE  Step /\ UNCHANGED rec
<1>1. PICK x \in Runs : x = run[p]
  BY DEF NamesInv, TypeOK
<1>2. /\ x \in Going /\ GoingRight(x)
      /\ repo' = IF repo = x.from THEN [repo EXCEPT !.id = x.assigned] ELSE repo
      /\ run' = [run EXCEPT ![p] = Idle] /\ UNCHANGED <<org, rec, count>>
  BY <1>1, RunTypes DEF Record, NamesInv, RunRight
<1>3. RepoStep
  <2>1. PICK c \in Checkout : c = repo
    BY DEF NamesInv, TypeOK
  <2> DEFINE d == [c EXCEPT !.id = x.assigned]
  <2>2. d \in Checkout /\ d.id = x.assigned
    BY <2>1, <1>2 DEF Checkout, Going
  <2>3. CheckoutRight(d)
    BY <2>2, <1>2 DEF CheckoutRight, GoingRight
  <2>4. repo' = d \/ repo' = repo
    BY <1>2, <2>1
  <2> HIDE DEF d
  <2> QED
    BY <2>2, <2>3, <2>4 DEF RepoStep
<1> QED
  BY <1>2, <1>3, Quiet, IdleStep DEF Step

LEMMA ExitStep ==
  ASSUME NamesInv, NEW p \in Publishers, Exit(p)
  PROVE  Step /\ UNCHANGED rec
<1>1. PICK y \in {[step |-> "green"], [step |-> "red"]} : run' = [run EXCEPT ![p] = y]
  BY DEF Exit
<1>2. y \in Runs /\ RunRight(y)
  BY <1>1 DEF Runs, RunRight
<1>3. RunStep
  BY <1>1, <1>2 DEF RunStep
<1> QED
  BY <1>3, Quiet DEF Step, Exit

LEMMA EndStep ==
  ASSUME NamesInv, NEW p \in Publishers, Leave(p) \/ Die(p)
  PROVE  Step /\ UNCHANGED rec
<1>1. CASE Leave(p)
  BY <1>1, Quiet, IdleStep DEF Step, Leave
<1>2. CASE Die(p)
  BY <1>2, Quiet, IdleStep DEF Step, Die
<1> QED
  BY <1>1, <1>2

LEMMA CommitStep ==
  ASSUME NamesInv, NEW r \in Runbooks, NEW v \in Versions, Commit(r, v)
  PROVE  Step /\ UNCHANGED rec
<1>1. PICK c \in Checkout : c = repo /\ CheckoutRight(c)
  BY DEF NamesInv, TypeOK
<1> DEFINE d == [c EXCEPT !.source[r] = v]
<1>2. d \in Checkout /\ d.id = c.id
  BY DEF Checkout
<1>3. repo' = d
  BY <1>1 DEF Commit
<1> HIDE DEF d
<1>4. RepoStep
  BY <1>1, <1>2, <1>3 DEF RepoStep, CheckoutRight
<1>5. CountStep
  BY PublishAssumption DEF Commit, ByHand, CountStep, NamesInv, TypeOK
<1> QED
  BY <1>4, <1>5, Quiet DEF Step, Commit, ByHand, RunStep

LEMMA HandStep ==
  ASSUME NamesInv,
         \/ \E name \in Runbooks \cup OtherNames : HandWrite(name)
         \/ \E n \in Range(notebooks) : HandEdit(n) \/ HandRemove(n)
  PROVE  Step /\ UNCHANGED rec
<1>1. /\ ByHand /\ UNCHANGED repo /\ Stub \in Versions
      /\ extra \in [Runbooks -> Nat]
  BY PublishAssumption DEF HandWrite, HandEdit, HandRemove, Stub, Versions, NamesInv, TypeOK
<1>2. /\ OrgStep
      /\ extra' \in [Runbooks -> Nat]
      /\ \A r \in Runbooks : extra[r] <= extra'[r]
  <2>1. CASE \E name \in Runbooks \cup OtherNames : HandWrite(name)
    <3>1. PICK name \in Runbooks \cup OtherNames : HandWrite(name)
      BY <2>1
    <3>2. extra' = [r \in Runbooks |->
                     IF r = name /\ Called(r) # {} THEN extra[r] + 1 ELSE extra[r]]
      BY <3>1 DEF HandWrite
    <3>3. /\ extra' \in [Runbooks -> Nat]
          /\ \A r \in Runbooks : extra[r] <= extra'[r]
      BY <1>1, <3>2
    <3>4. Accounted(name)
      BY <1>1, <3>2 DEF Accounted
    <3> QED
      BY <1>1, <3>1, <3>3, <3>4 DEF HandWrite, OrgStep
  <2>2. ASSUME NEW n \in Range(notebooks), HandEdit(n) PROVE <1>2!1 /\ UNCHANGED extra
    BY <1>1, <2>2 DEF HandEdit, OrgStep
  <2>3. ASSUME NEW n \in Range(notebooks), HandRemove(n) PROVE <1>2!1 /\ UNCHANGED extra
    <3>1. n.id \in Ids
      BY ListedTypes DEF NamesInv
    <3> QED
      BY <2>3, <3>1 DEF HandRemove, OrgStep
  <2> QED
    BY <1>1, <2>1, <2>2, <2>3
<1>3. CountStep
  BY <1>1, <1>2, PublishAssumption DEF CountStep, ByHand, NamesInv, TypeOK
<1> QED
  BY <1>1, <1>2, <1>3, Quiet DEF Step, ByHand, RunStep

-------------------------------------------------------------------------------
(* The steps of the reconciler.                                            *)

LEMMA RecIdleStep ==
  ASSUME NamesInv, RecStart \/ RecLeave
  PROVE  Step /\ rec' \in RecRuns /\ RecRight'
<1>1. rec'.step \in {"list", "idle"} /\ rec' \in RecRuns
  <2>1. CASE RecStart
    BY <2>1 DEF RecStart, RecRuns, NamesInv, TypeOK
  <2>2. CASE RecLeave
    BY <2>2 DEF RecLeave, RecRuns, Idle
  <2> QED
    BY <2>1, <2>2
<1>2. Step
  BY Quiet DEF Step, RecStart, RecLeave, RunStep
<1> QED
  BY <1>1, <1>2 DEF RecRight

LEMMA RecListStep ==
  ASSUME NamesInv, RecList
  PROVE  Step /\ rec' \in RecRuns /\ RecRight'
<1>1. Step
  BY Quiet DEF Step, RecList, RunStep
<1>2. CASE rec' = Idle
  BY <1>1, <1>2 DEF RecRuns, RecRight, Idle
<1>3. CASE rec' # Idle
  <2>1. PICK c \in Checkout : c = rec.from /\ rec.step = "list"
    BY DEF RecList, NamesInv, TypeOK, RecRuns, Removing, Idle
  <2>2. PICK T \in SUBSET Removable : T = Targets
    <3>1. services \ rec.entities \subseteq Services
      BY DEF NamesInv, TypeOK
    <3>2. UnmanagedNotebooks \subseteq Ids
      BY ListedTypes DEF UnmanagedNotebooks, NamesInv
    <3>3. Targets \subseteq Removable
      BY <3>1, <3>2 DEF Targets, UnmanagedServices, Removable
    <3> QED
      BY <3>3
  <2>3. rec' = [step |-> "delete", todo |-> T, all |-> T, failed |-> {}, from |-> c]
    BY <1>3, <2>1, <2>2 DEF RecList
  <2>4. rec' \in RecRuns
    BY <2>1, <2>2, <2>3 DEF RecRuns, Removing
  <2>5. ASSUME NEW t \in T PROVE Spared(t)'
    <3>1. SUFFICES ASSUME t[1] = "notebook"
                   PROVE  Spared(t)'
      BY DEF Spared
    <3>2. t[2] \in UnmanagedNotebooks
      BY <2>2, <2>5, <3>1 DEF Targets
    <3>3. PICK m \in Range(notebooks) : m.id = t[2] /\ ~ManagedNotebook(m)
      BY <3>2 DEF UnmanagedNotebooks
    <3>4. m.name \notin Registered(c)
      BY <2>1, <3>3 DEF ManagedNotebook
    <3>5. \A n \in Range(notebooks) : n.id = t[2] => n = m
      BY <3>3 DEF NamesInv, Fresh, Range
    <3>6. t[2] < nextId
      BY <3>3 DEF NamesInv, Fresh, Range
    <3>7. UNCHANGED <<notebooks, nextId>> /\ rec'.from = c
      BY <2>3 DEF RecList, org
    <3> QED
      BY <3>4, <3>5, <3>6, <3>7 DEF Spared
  <2>6. RecRight'
    BY <2>3, <2>5 DEF RecRight
  <2> QED
    BY <1>1, <2>4, <2>6
<1> QED
  BY <1>2, <1>3

\* One deletion, done or not; what is still there is a failure.
LEMMA RemovalStep ==
  ASSUME NamesInv, RecRight, rec.step = "delete", NEW t \in rec.todo,
         NEW F, F \subseteq Removable, rec.failed \subseteq F,
         rec' = [rec EXCEPT !.todo = @ \ {t}, !.failed = F],
         \/ UNCHANGED org /\ t \in F
         \/ Removed(t),
         UNCHANGED <<repo, run>>, CountStep
  PROVE  /\ Step /\ rec' \in RecRuns /\ RecRight'
         /\ \A n \in Range(notebooks) :
              n.name \in Registered(rec.from) => n \in Range(notebooks')
<1>1. PICK x \in Removing : x = rec
  BY DEF NamesInv, TypeOK, RecRuns, Idle
<1>2. /\ rec' = [x EXCEPT !.todo = x.todo \ {t}, !.failed = F]
      /\ x.step = "delete" /\ x.todo \subseteq x.all /\ x.failed \subseteq F
      /\ t \in Removable /\ t \in x.all /\ x.all \subseteq Removable
      /\ TypeOK /\ Fresh
  BY <1>1 DEF RecRight, Removing, NamesInv
<1>3. /\ rec' \in RecRuns /\ rec'.step = "delete" /\ rec'.all = x.all
      /\ rec'.todo = x.todo \ {t} /\ rec'.failed = F /\ rec'.from = x.from
  BY <1>2, ZenonT(30) DEF Removing, RecRuns
<1>4. Spared(t)
  BY <1>1, <1>2 DEF RecRight
<1>5. /\ OrgStep
      /\ t \in F \/ ~Present(t)'
      /\ \A n \in Range(notebooks) :
           n.name \in Registered(x.from) => n \in Range(notebooks')
  <2>1. CASE UNCHANGED org /\ t \in F
    BY <2>1, Quiet DEF org
  <2>2. CASE Removed(t) /\ t[1] = "service"
    BY <2>2 DEF Removed, OrgStep, Present
  <2>3. CASE Removed(t) /\ t[1] # "service"
    <3>1. t[1] = "notebook" /\ t[2] \in Ids
      BY <1>2, <2>3 DEF Removable
    <3>2. notebooks' = Without(t[2]) /\ UNCHANGED <<services, nextId>>
      BY <2>3 DEF Removed
    <3>3. Range(notebooks') = {n \in Range(notebooks) : n.id # t[2]}
      BY <1>2, <3>2, WithoutKeeps
    <3>4. ~Present(t)'
      BY <2>3, <3>3 DEF Present, Live
    <3>5. \A n \in Range(notebooks) :
            n.name \in Registered(x.from) => n \in Range(notebooks')
      BY <1>1, <1>4, <3>1, <3>3 DEF Spared
    <3> QED
      BY <3>1, <3>2, <3>4, <3>5 DEF OrgStep
  <2> QED
    BY <2>1, <2>2, <2>3
<1>6. Step
  BY <1>5 DEF Step, RepoStep, RunStep
<1>7. TypeOK' /\ Kept
  BY <1>3, <1>6, NamesKept DEF NamesInv
<1>8. ASSUME NEW u \in x.all
      PROVE  /\ Spared(u)'
             /\ u \in rec'.todo \/ u \in rec'.failed \/ ~Present(u)'
  <2>1. /\ u \in Removable /\ Spared(u)
        /\ u \in x.todo \/ u \in x.failed \/ ~Present(u)
    BY <1>1, <1>2 DEF RecRight
  <2>2. Spared(u)'
    BY <1>1, <1>2, <1>3, <1>7, <2>1, SparedKept
  <2>3. ~Present(u) => ~Present(u)'
    BY <1>2, <1>7, <2>1, AbsentKept DEF Spared
  <2> QED
    BY <1>2, <1>3, <1>5, <2>1, <2>2, <2>3
<1>9. RecRight'
  BY <1>2, <1>3, <1>8 DEF RecRight
<1> QED
  BY <1>1, <1>3, <1>5, <1>6, <1>9

LEMMA RequestStep ==
  ASSUME NamesInv, RecRight, rec.step = "delete", NEW t \in rec.todo,
         Delete(t) \/ \E done \in BOOLEAN : DeleteFailed(t, done)
  PROVE  /\ Step /\ rec' \in RecRuns /\ RecRight'
         /\ \A n \in Range(notebooks) :
              n.name \in Registered(rec.from) => n \in Range(notebooks')
<1>1. PICK x \in Removing : x = rec
  BY DEF NamesInv, TypeOK, RecRuns, Idle
<1>2. t \in Removable /\ x.failed \subseteq Removable
  BY <1>1 DEF Removing
<1>3. CASE Delete(t)
  <2> DEFINE F == IF Present(t) THEN x.failed ELSE x.failed \cup {t}
  <2>1. /\ rec' = [x EXCEPT !.todo = x.todo \ {t}, !.failed = F]
        /\ Removed(t) /\ UNCHANGED <<repo, run, count>>
    BY <1>1, <1>3 DEF Delete
  <2>2. F \subseteq Removable /\ x.failed \subseteq F
    BY <1>2
  <2> HIDE DEF F
  <2> QED
    BY <1>1, <2>1, <2>2, Quiet, RemovalStep
<1>4. CASE \E done \in BOOLEAN : DeleteFailed(t, done)
  <2> DEFINE F == x.failed \cup {t}
  <2>1. /\ rec' = [x EXCEPT !.todo = x.todo \ {t}, !.failed = F]
        /\ Removed(t) \/ UNCHANGED org
        /\ Fault /\ UNCHANGED <<repo, run, extra>>
    BY <1>1, <1>4 DEF DeleteFailed
  <2>2. F \subseteq Removable /\ x.failed \subseteq F /\ t \in F
    BY <1>2
  <2> HIDE DEF F
  <2> QED
    BY <1>1, <2>1, <2>2, Quiet, RemovalStep
<1> QED
  BY <1>3, <1>4

LEMMA RecExitStep ==
  ASSUME NamesInv, RecRight, RecExit
  PROVE  Step /\ rec' \in RecRuns /\ RecRight' /\ UNCHANGED notebooks
<1>1. PICK x \in Removing : x = rec
  BY DEF NamesInv, TypeOK, RecRuns, Idle, RecExit
<1>2. Step /\ UNCHANGED org
  BY Quiet DEF Step, RecExit, RunStep
<1>3. CASE x.failed # {}
  <2>1. rec' = [step |-> "red", all |-> x.all]
    BY <1>1, <1>3 DEF RecExit
  <2> QED
    BY <1>2, <2>1 DEF RecRuns, RecRight, Removing, org
<1>4. CASE x.failed = {}
  <2>1. rec' = [step |-> "green", all |-> x.all] /\ x.todo = {} /\ x.step = "delete"
    BY <1>1, <1>4 DEF RecExit
  <2>2. \A t \in x.all : ~Present(t) /\ (t[1] = "notebook" => t[2] < nextId)
    BY <1>1, <1>4, <2>1 DEF RecRight, Spared
  <2>3. \A t \in x.all : ~Present(t)' /\ (t[1] = "notebook" => t[2] < nextId')
    BY <1>2, <2>2 DEF Present, Live, org
  <2> QED
    BY <1>2, <2>1, <2>3 DEF RecRuns, RecRight, Removing, org
<1> QED
  BY <1>3, <1>4

-------------------------------------------------------------------------------
(* The theorems.                                                           *)

LEMMA InvInit == Init => Inv
<1> SUFFICES ASSUME Init PROVE Inv
  OBVIOUS
<1>1. repo \in Checkout /\ \A r \in Runbooks : repo.id[r] = NoId
  <2>1. 1 \in Versions
    BY PublishAssumption DEF Versions
  <2> QED
    BY <2>1 DEF Init, Checkout
<1>2. notebooks = <<>> /\ nextId = 1 /\ services = Services /\ rec = Idle
  BY DEF Init
<1>3. \A p \in Publishers : run[p] = Idle
  BY DEF Init
<1>4. TypeOK
  <2>1. run \in [Publishers -> Runs] /\ rec \in RecRuns
    BY DEF Init, Runs, RecRuns
  <2> QED
    BY <1>1, <1>2, <2>1, PublishAssumption DEF Init, TypeOK
<1>5. Fresh
  BY <1>2 DEF Fresh
<1>6. CheckoutRight(repo)
  BY <1>1 DEF CheckoutRight, Of
<1>7. \A p \in Publishers : RunRight(run[p])
  BY <1>3 DEF RunRight, Idle
<1>8. RecRight
  BY <1>2 DEF RecRight, Idle
<1> QED
  BY <1>4, <1>5, <1>6, <1>7, <1>8 DEF Inv, NamesInv

\* What every step does, and that the reconciler spares what it must.
LEMMA NextFacts ==
  ASSUME Inv, [Next]_vars
  PROVE  /\ Step /\ Inv'
         /\ rec.step = "delete" /\ rec' # rec =>
              \A n \in Range(notebooks) :
                n.name \in Registered(rec.from) => n \in Range(notebooks')
<1> USE DEF Inv
<1>1. ASSUME Step, UNCHANGED rec PROVE Inv'
  <2>1. rec' \in RecRuns
    BY <1>1 DEF NamesInv, TypeOK
  <2>2. NamesInv' /\ Kept
    BY <1>1, <2>1, NamesKept
  <2> QED
    BY <1>1, <2>2, RecKept DEF NamesInv
<1>2. ASSUME Step, rec' \in RecRuns, RecRight' PROVE Inv'
  BY <1>2, NamesKept
<1>3. CASE UNCHANGED vars
  BY <1>1, <1>3, Quiet DEF vars, Step, RunStep
<1>4. CASE People
  <2>1. CASE \E r \in Runbooks, v \in Versions : Commit(r, v)
    BY <1>1, <2>1, CommitStep
  <2>2. CASE \E name \in Runbooks \cup OtherNames : HandWrite(name)
    BY <1>1, <2>2, HandStep
  <2>3. CASE \E n \in Range(notebooks) : HandEdit(n) \/ HandRemove(n)
    BY <1>1, <2>3, HandStep
  <2> QED
    BY <1>4, <2>1, <2>2, <2>3 DEF People
<1>5. CASE Reconcile
  <2>1. CASE RecStart \/ RecLeave
    <3>1. rec.step # "delete"
      BY <2>1 DEF RecStart, RecLeave, Idle
    <3> QED
      BY <1>2, <2>1, <3>1, RecIdleStep
  <2>2. CASE RecList
    <3>1. rec.step # "delete"
      BY <2>2 DEF RecList
    <3> QED
      BY <1>2, <2>2, <3>1, RecListStep
  <2>3. CASE RecExit
    BY <1>2, <2>3, RecExitStep
  <2>4. CASE /\ rec.step = "delete"
             /\ \E t \in rec.todo :
                  Delete(t) \/ \E done \in BOOLEAN : DeleteFailed(t, done)
    BY <1>2, <2>4, RequestStep
  <2> QED
    BY <1>5, <2>1, <2>2, <2>3, <2>4 DEF Reconcile
<1>6. ASSUME NEW p \in Publishers, Publish(p) \/ Fail(p)
      PROVE  Step /\ UNCHANGED rec
  BY <1>6, StartStep, ListStep, ExamineStep, PutStep, PutGoneStep, PostStep, RecordStep,
     ExitStep, EndStep, PostLostStep, WriteRefusedStep DEF Publish, Proceed, Fail
<1> QED
  BY <1>1, <1>3, <1>4, <1>5, <1>6 DEF Next

LEMMA InvHolds == Spec => []Inv
<1>1. Inv /\ [Next]_vars => Inv'
  BY NextFacts
<1> QED
  BY InvInit, <1>1, PTL DEF Spec

\* Every notebook, recorded id, listing, request and removal of every run is of
\* its type.
THEOREM TypeCorrect == Spec => []TypeOK
<1>1. Inv => TypeOK
  BY DEF Inv, NamesInv
<1> QED
  BY <1>1, InvHolds, PTL

\* A reconciler that ends with status 0 has removed everything that
\* delete_unmanaged listed, and nothing of it is back.
THEOREM GreenReconcileRemovedHolds == Spec => []GreenReconcileRemoved
<1>1. Inv => GreenReconcileRemoved
  BY DEF Inv, RecRight, GreenReconcileRemoved
<1> QED
  BY <1>1, InvHolds, PTL

\* No request of the reconciler removes a notebook with the name of a runbook
\* that its checkout registers, whatever was renamed, rewritten or recorded
\* since its listing.
THEOREM RegisteredSparedHolds == Spec => RegisteredSpared
<1>1. Inv /\ [Next]_vars =>
        [\A n \in Range(notebooks) :
           /\ rec.step = "delete" /\ rec' # rec
           /\ n.name \in Registered(rec.from)
           => n \in Range(notebooks')]_vars
  BY NextFacts
<1> QED
  BY <1>1, InvHolds, PTL DEF Spec, RegisteredSpared

-------------------------------------------------------------------------------
(* The number of notebooks of a runbook.                                   *)

LEMMA ListedFinite ==
  ASSUME TypeOK, NEW name
  PROVE  IsFiniteSet(Called(name)) /\ Cardinality(Called(name)) \in Nat
<1> DEFINE D == 1..Len(notebooks)
<1>1. notebooks \in [D -> Notebook] /\ Len(notebooks) \in Nat /\ DOMAIN notebooks = D
  BY LenProperties DEF TypeOK
<1>2. IsFiniteSet(D)
  BY <1>1, FS_Interval
<1>3. notebooks \in Surjection(D, Range(notebooks))
  BY <1>1 DEF Surjection, Range
<1> HIDE DEF D
<1>4. IsFiniteSet(Range(notebooks))
  BY <1>2, <1>3, FS_Surjection
<1>5. Called(name) \in SUBSET Range(notebooks)
  BY DEF Called
<1> QED
  BY <1>4, <1>5, FS_Subset, FS_CardinalityType

LEMMA OneMore ==
  ASSUME NEW S, IsFiniteSet(S), NEW x
  PROVE  /\ IsFiniteSet(S \cup {x})
         /\ Cardinality(S \cup {x}) \in Nat
         /\ Cardinality(S \cup {x}) <= Cardinality(S) + 1
<1>1. Cardinality(S) \in Nat
  BY FS_CardinalityType
<1>2. /\ IsFiniteSet(S \cup {x})
      /\ Cardinality(S \cup {x}) = IF x \in S THEN Cardinality(S) ELSE Cardinality(S) + 1
  BY FS_AddElement
<1>3. CASE x \in S
  BY <1>1, <1>2, <1>3
<1>4. CASE x \notin S
  BY <1>1, <1>2, <1>4
<1> QED
  BY <1>3, <1>4

LEMMA DuplicatesStep ==
  ASSUME TypeOK, Fresh, TypeOK', OrgStep, \A r \in Runbooks : extra[r] <= extra'[r],
         DuplicatesAreAccidents
  PROVE  DuplicatesAreAccidents'
<1> SUFFICES ASSUME NEW r \in Runbooks
             PROVE  Cardinality(Called(r)') <= 1 + extra'[r]
  BY DEF DuplicatesAreAccidents, Called
<1> DEFINE S == Called(r)
           T == Called(r)'
<1>1. /\ IsFiniteSet(S) /\ Cardinality(S) \in Nat
      /\ Cardinality(S) <= 1 + extra[r]
      /\ extra[r] \in Nat /\ extra'[r] \in Nat /\ extra[r] <= extra'[r]
  BY ListedFinite DEF DuplicatesAreAccidents, TypeOK
<1>2. S = {n \in Range(notebooks) : n.name = r} /\ T = {n \in Range(notebooks') : n.name = r}
  BY DEF Called
<1> HIDE DEF S, T
<1>3. CASE T \subseteq S
  <2>1. Cardinality(T) \in Nat /\ Cardinality(T) <= Cardinality(S)
    BY <1>1, <1>3, FS_Subset, FS_CardinalityType
  <2> QED
    BY <1>1, <2>1 DEF T
<1>4. CASE \E name \in Runbooks \cup OtherNames, stamp \in Versions :
             Created(name, stamp) /\ Accounted(name)
  <2>1. PICK name \in Runbooks \cup OtherNames, stamp \in Versions :
             Created(name, stamp) /\ Accounted(name)
    BY <1>4
  <2> DEFINE e == [id |-> nextId, name |-> name, stamp |-> stamp]
  <2>2. Range(notebooks') = Range(notebooks) \cup {e} /\ e.name = name
    BY <2>1, CreatedKeeps
  <2> HIDE DEF e
  <2>3. CASE name # r
    BY <1>2, <1>3, <2>2, <2>3
  <2>4. CASE name = r
    <3>1. T = S \cup {e}
      BY <1>2, <2>2, <2>4
    <3>2. Cardinality(T) <= Cardinality(S) + 1 /\ Cardinality(T) \in Nat
      BY <1>1, <3>1, OneMore
    <3>3. CASE S = {}
      BY <1>1, <3>2, <3>3, FS_EmptySet DEF T
    <3>4. CASE S # {}
      <4>1. extra'[r] > extra[r]
        BY <2>1, <2>4, <3>4 DEF Accounted, S
      <4> QED
        BY <1>1, <3>2, <4>1 DEF T
    <3> QED
      BY <3>3, <3>4
  <2> QED
    BY <2>3, <2>4
<1>5. CASE \E n \in Range(notebooks), stamp \in Versions : Written(n.id, n.name, stamp)
  <2>1. PICK n \in Range(notebooks), stamp \in Versions : Written(n.id, n.name, stamp)
    BY <1>5
  <2> DEFINE e == [id |-> n.id, name |-> n.name, stamp |-> stamp]
  <2>2. /\ Range(notebooks') = {m \in Range(notebooks) : m.id # n.id} \cup {e}
        /\ e.name = n.name
    BY <2>1, WrittenKeeps
  <2> HIDE DEF e
  <2>3. CASE n.name # r
    BY <1>2, <1>3, <2>2, <2>3
  <2>4. CASE n.name = r
    <3>1. n \in S /\ T \subseteq (S \ {n}) \cup {e}
      BY <1>2, <2>2, <2>4
    <3>2. /\ IsFiniteSet(S \ {n})
          /\ Cardinality(S \ {n}) = Cardinality(S) - 1
      BY <1>1, <3>1, FS_RemoveElement
    <3>3. /\ IsFiniteSet((S \ {n}) \cup {e})
          /\ Cardinality((S \ {n}) \cup {e}) <= Cardinality(S)
      BY <1>1, <3>2, OneMore
    <3>4. Cardinality(T) \in Nat /\ Cardinality(T) <= Cardinality((S \ {n}) \cup {e})
      BY <3>1, <3>3, FS_Subset, FS_CardinalityType
    <3>5. Cardinality((S \ {n}) \cup {e}) \in Nat
      BY <3>3, FS_CardinalityType
    <3> QED
      BY <1>1, <3>3, <3>4, <3>5 DEF T
  <2> QED
    BY <2>3, <2>4
<1>6. CASE (\E id \in Ids : notebooks' = Without(id)) /\ UNCHANGED <<services, nextId>>
  BY <1>2, <1>3, <1>6, WithoutKeeps
<1>7. CASE UNCHANGED <<notebooks, nextId>>
  BY <1>2, <1>3, <1>7
<1> QED
  BY <1>4, <1>5, <1>6, <1>7 DEF OrgStep

\* Every notebook of a runbook beyond the first has its accident, however many
\* runs publish, die and repeat their requests, and in whatever order.
THEOREM DuplicatesAreAccidentsHolds == Spec => []DuplicatesAreAccidents
<1>1. Init => DuplicatesAreAccidents
  <2> SUFFICES ASSUME Init, NEW r \in Runbooks
               PROVE  Cardinality(Called(r)) <= 1 + extra[r]
    BY DEF DuplicatesAreAccidents
  <2>1. Called(r) = {} /\ extra[r] = 0
    BY DEF Init, Called, Range
  <2> QED
    BY <2>1, FS_EmptySet
<1>2. Inv /\ Inv' /\ DuplicatesAreAccidents /\ [Next]_vars => DuplicatesAreAccidents'
  BY NextFacts, DuplicatesStep DEF Inv, NamesInv, Step, CountStep
<1> QED
  BY <1>1, <1>2, InvHolds, PTL DEF Spec
=============================================================================
