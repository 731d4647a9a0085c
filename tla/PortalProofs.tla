----------------------------- MODULE PortalProofs -----------------------------
(***************************************************************************)
(* The theorems of Portal: what a reader's tab shows, how old a page's     *)
(* live data may be, what a green headline and a red system stand for, and *)
(* that a parsed report is never an old one.                               *)
(***************************************************************************)
EXTENDS Portal, TLAPS

-------------------------------------------------------------------------------
(* The inductive invariant.                                                *)

\* DataAgeIsBounded, of one result and of a registry.
Aged(r) ==
  r.origin = "datadog" /\ r.status # "unavailable" =>
    /\ r.read - r.began <= TTL + MaxFetch
    /\ r.produced - r.began <= MaxFetch
AllAged(reg) == \A source \in DOMAIN reg : Aged(reg[source])

\* An answer was put into the cache no later after it was asked than a fetch
\* takes, whichever of two racing fetches put it.
CacheRight(c) ==
  /\ DOMAIN c \subseteq Datadog /\ c \in [DOMAIN c -> Entries]
  /\ \A source \in DOMAIN c : c[source].put - c[source].began <= MaxFetch

\* What is kept under the signature the file has now is what the file holds.
Current(content) ==
  /\ content.stamp <= file.stamp
  /\ content.stamp = file.stamp => content.version >= file.version

\* A page is the view of the registry it was built from; an overview that
\* misses no source has read them all.
Built(page) ==
  /\ page.body = Body(page.view, page.reg, page.at)
  /\ AllAged(page.reg)
  /\ page.view[1] = "overview" /\ Unavailable(page.reg) = {} => Sources \subseteq DOMAIN page.reg

\* A result of the Rewritten report, for a request that began at base.
NoOlder(r, base) == r.status = "unavailable" \/ r.version >= base

Right(x) ==
  /\ x.base <= file.version
  /\ Rewritten \in DOMAIN x.reg => NoOlder(x.reg[Rewritten], x.base)
  /\ AllAged(x.reg)
  /\ x.phase = "fetching" => now - x.wait.began <= MaxFetch
  /\ x.phase = "parsing" => x.wait.stamp <= file.stamp
  /\ x.phase = "storing" => Current(x.wait) /\ x.wait.version >= x.base
  /\ x.answer = Failed \/ Built(x.answer)
  /\ x.current => x.view = tab.hash

ScreenRight ==
  tab.page.kind = "data" => tab.page.view = tab.rendered /\ tab.rendered = tab.hash

Inv ==
  /\ TypeOK
  /\ CacheRight(cache)
  /\ \A content \in parsed : Current(content)
  /\ \A t \in Threads : request[t] = Free \/ Right(request[t])
  /\ ScreenRight

-------------------------------------------------------------------------------
(* What a view asks for.                                                   *)

LEMMA CallsType ==
  ASSUME NEW view, NEW reg, view[1] \in Kinds
  PROVE  Calls(view, reg) \in Seq(Sources)
<1>1. \A s \in Sources, more \in Seq(Sources) : Then(s, reg, more) \in Seq(Sources)
  BY DEF Then
<1>2. /\ "slos" \in Sources /\ "policy" \in Sources /\ "incidents" \in Sources
      /\ "events" \in Sources /\ "reconciliation" \in Sources /\ "scorecard" \in Sources
      /\ "fleet" \in Sources /\ "coverage" \in Sources /\ "cost" \in Sources /\ "oncall" \in Sources
  BY DEF Sources, Datadog, Reports
<1> HIDE DEF Sources
<1>3. <<"policy">> \in Seq(Sources) /\ <<"reconciliation", "scorecard">> \in Seq(Sources)
  BY <1>2
<1>4. SlosCall(reg) \in Seq(Sources) /\ SystemsCall(reg) \in Seq(Sources)
  BY <1>1, <1>2, <1>3 DEF SlosCall, SystemsCall
<1>5. CASE view[1] = "overview"
  <2>1. /\ <<"incidents", "events">> \in Seq(Sources)
        /\ <<"fleet", "coverage", "cost", "reconciliation", "oncall">> \in Seq(Sources)
    BY <1>2
  <2> QED
    BY <1>4, <1>5, <2>1 DEF Calls
<1>6. CASE view[1] = "sources"
  BY <1>2, <1>6 DEF Calls
<1>7. CASE view[1] \in {"system", "systems"}
  BY <1>2, <1>4, <1>7 DEF Calls
<1>11. CASE view[1] = "slos"
  BY <1>4, <1>11 DEF Calls
<1>8. CASE view[1] = "service"
  <2>1. <<"slos", "incidents", "reconciliation">> \in Seq(Sources) /\ <<>> \in Seq(Sources)
    BY <1>2
  <2> QED
    BY <1>3, <1>8, <2>1 DEF Calls
<1>9. CASE view[1] = "slo"
  <2>1. <<"events", "reconciliation">> \in Seq(Sources) /\ <<"reconciliation">> \in Seq(Sources)
        /\ <<>> \in Seq(Sources)
    BY <1>2
  <2> QED
    BY <1>3, <1>4, <1>9, <2>1 DEF Calls
<1>10. CASE view[1] = "incident"
  <2>1. <<"incidents">> \in Seq(Sources) /\ <<"events">> \in Seq(Sources)
        /\ <<"reconciliation">> \in Seq(Sources) /\ <<>> \in Seq(Sources)
    BY <1>2
  <2> QED
    BY <1>10, <2>1 DEF Calls
<1> QED
  BY <1>5, <1>6, <1>7, <1>8, <1>9, <1>10, <1>11 DEF Kinds, Lists

-------------------------------------------------------------------------------
(* What a read records.                                                    *)

LEMMA Numbers ==
  /\ TTL \in Nat /\ MaxFetch \in Nat /\ Slow \subseteq Datadog /\ Rewritten \in Reports
  /\ Rewritten \notin Datadog /\ Datadog \subseteq Sources /\ Reports \subseteq Sources
BY PortalAssumption DEF Datadog, Reports, Sources

LEMMA ResultRight ==
  ASSUME TypeOK, NEW version \in Nat, NEW produced \in Nat, NEW began \in Nat,
         NEW origin \in {"datadog", "report", "policy", "fixture"},
         origin = "datadog" => now - began <= TTL + MaxFetch /\ produced - began <= MaxFetch
  PROVE  /\ Result(origin, version, produced, began) \in Results
         /\ Aged(Result(origin, version, produced, began))
         /\ Result(origin, version, produced, began).version = version
<1> now \in Nat
  BY DEF TypeOK
<1> QED
  BY DEF Result, Results, Aged

LEMMA NoResultRight ==
  ASSUME TypeOK, NEW origin \in {"datadog", "report", "policy", "fixture"}
  PROVE  /\ NoResult(origin) \in Results /\ Aged(NoResult(origin))
         /\ NoResult(origin).status = "unavailable"
<1> now \in Nat
  BY DEF TypeOK
<1> QED
  BY DEF NoResult, Results, Aged

LEMMA TheOf == ASSUME NEW S, S # {} PROVE The(S) \in S
BY DEF The

LEMMA FromDatadogRight ==
  ASSUME TypeOK, NEW entry \in Entries, now - entry.put <= TTL, entry.put - entry.began <= MaxFetch
  PROVE  FromDatadog(entry) \in Results /\ Aged(FromDatadog(entry))
<1>1. entry.version \in Nat /\ entry.put \in Nat /\ entry.began \in Nat /\ now \in Nat
  BY DEF TypeOK, Entries
<1>2. now - entry.began <= TTL + MaxFetch
  BY <1>1, Numbers
<1> QED
  BY <1>1, <1>2, ResultRight DEF FromDatadog

LEMMA FromFileRight ==
  ASSUME TypeOK, NEW content \in Parses
  PROVE  /\ FromFile(content) \in Results /\ Aged(FromFile(content))
         /\ FromFile(content).version = content.version
<1>1. content.version \in Nat /\ DateOf(content) \in Nat /\ now \in Nat
  BY DEF TypeOK, Parses, Files, DateOf
<1> QED
  BY <1>1, ResultRight DEF FromFile

LEMMA ReadRight ==
  ASSUME Inv, NEW source \in Sources, ~MustWait(source), NEW base \in Nat, base <= file.version
  PROVE  /\ Read(source) \in Results /\ Aged(Read(source))
         /\ source = Rewritten => NoOlder(Read(source), base)
<1>1. TypeOK /\ now \in Nat /\ org \in Nat /\ file.version \in Nat
  BY DEF Inv, TypeOK, Files
<1>2. CASE source \in Datadog
  <2>0. source \notin Reports /\ source # Rewritten
    BY <1>2, Numbers DEF Datadog, Reports
  <2>1. Read(source) = ReadDatadog(source)
    BY <1>2, <2>0 DEF Read
  <2> HIDE DEF Datadog
  <2>2. CASE ~Live
    <3>1. PICK at : at = IF mode = "replay" THEN now ELSE 0
      OBVIOUS
    <3>2. Result("fixture", 0, at, now) \in Results /\ Aged(Result("fixture", 0, at, now))
      BY <1>1, <3>1, ResultRight
    <3> QED
      BY <2>0, <2>1, <2>2, <3>1, <3>2 DEF ReadDatadog
  <2>3. CASE Live /\ Entry(source) # {}
    <3>1. PICK e : e = The(Entry(source))
      OBVIOUS
    <3>2. e \in Entry(source)
      BY <2>3, <3>1, TheOf
    <3>3. e \in Entries /\ now - e.put <= TTL /\ e.put - e.began <= MaxFetch
      BY <3>2 DEF Entry, Inv, CacheRight
    <3> QED
      BY <1>1, <2>0, <2>1, <2>3, <3>1, <3>3, FromDatadogRight DEF ReadDatadog
  <2>4. CASE Live /\ Entry(source) = {} /\ source \in out
    BY <1>1, <2>0, <2>1, <2>4, NoResultRight DEF ReadDatadog
  <2>5. CASE Live /\ Entry(source) = {} /\ source \notin out
    <3>1. /\ Fetched(org, now) \in Entries
          /\ now - Fetched(org, now).put <= TTL
          /\ Fetched(org, now).put - Fetched(org, now).began <= MaxFetch
      BY <1>1, Numbers DEF Fetched, Entries
    <3> QED
      BY <1>1, <2>0, <2>1, <2>5, <3>1, FromDatadogRight DEF ReadDatadog
  <2> QED
    BY <2>2, <2>3, <2>4, <2>5
<1>3. CASE source \in Reports
  <2>1. Read(source) = ReadReport(source)
    BY <1>3 DEF Read, Datadog, Reports
  <2>2. CASE source # Rewritten
    BY <1>1, <2>1, <2>2, ResultRight DEF ReadReport
  <2>3. CASE source = Rewritten /\ file = Absent
    <3>1. file.version = 0
      BY <2>3 DEF Absent
    <3>2. Read(source) = Result("fixture", 0, 0, now)
      BY <2>1, <2>3 DEF ReadReport
    <3> QED
      BY <1>1, <3>1, <3>2, ResultRight DEF NoOlder
  <2>4. CASE source = Rewritten /\ file # Absent
    <3>1. PICK c : c = The(ParsedNow)
      OBVIOUS
    <3>2. c \in ParsedNow
      BY <2>4, <3>1, TheOf DEF MustWait
    <3>3. c \in Parses /\ c.version \in Nat /\ c.version >= file.version
      BY <3>2 DEF ParsedNow, Inv, TypeOK, Current, Parses
    <3>4. Read(source) = FromFile(c)
      BY <2>1, <2>4, <3>1 DEF ReadReport
    <3> QED
      BY <1>1, <3>3, <3>4, FromFileRight DEF NoOlder
  <2> QED
    BY <2>2, <2>3, <2>4
<1>4. CASE source \notin Datadog /\ source \notin Reports
  <2>1. Read(source) = ReadPolicy
    BY <1>4 DEF Read
  <2>2. ReadPolicy \in Results /\ Aged(ReadPolicy)
    BY <1>1, ResultRight, NoResultRight DEF ReadPolicy
  <2> QED
    BY <1>4, <2>1, <2>2, Numbers
<1> QED
  BY <1>2, <1>3, <1>4

-------------------------------------------------------------------------------
(* Steps.                                                                  *)

\* A step of one thread that leaves the world and the tab.
LEMMA Served ==
  ASSUME Inv, NEW t \in Threads, NEW y,
         request' = [request EXCEPT ![t] = y], RequestOK(y), Right(y),
         turn' \subseteq Threads, UNCHANGED <<now, world, asked, tab>>,
         CacheRight(cache'), parsed' \subseteq Parses, \A content \in parsed' : Current(content)
  PROVE  Inv'
<1>1. /\ DOMAIN request' = Threads
      /\ \A u \in Threads : request'[u] = y \/ request'[u] = request[u]
  BY DEF Inv, TypeOK
<1>2. \A u \in Threads : request'[u] = Free \/ RequestOK(request'[u])
  BY <1>1 DEF Inv, TypeOK
<1>3. TypeOK'
  BY <1>1, <1>2 DEF Inv, TypeOK, world, CacheRight, RequestOK, PageOK, RegistryOK
<1>4. \A x : Right(x) => Right(x)'
  BY DEF Right, Current, Built, world
<1>5. (\A u \in Threads : request[u] = Free \/ Right(request[u]))'
  <2> SUFFICES ASSUME NEW u \in Threads PROVE (request[u] = Free \/ Right(request[u]))'
    OBVIOUS
  <2>1. PICK x : x = request'[u]
    OBVIOUS
  <2>2. x = Free \/ Right(x)
    BY <1>1, <2>1 DEF Inv
  <2>3. Right(x)' => Right(request[u])'
    BY <2>1
  <2> QED
    BY <1>4, <2>1, <2>2, <2>3
<1>6. CacheRight(cache)' /\ (\A content \in parsed : Current(content))'
  BY DEF CacheRight, Current, world
<1>7. ScreenRight'
  BY DEF Inv, ScreenRight
<1> QED
  BY <1>3, <1>5, <1>6, <1>7 DEF Inv

LEMMA Both ==
  ASSUME NEW S, NEW D, NEW a \in Seq(S), NEW b \in Seq(S),
         \A i \in DOMAIN (a \o b) : (a \o b)[i] \in D
  PROVE  (\A i \in DOMAIN a : a[i] \in D) /\ (\A i \in DOMAIN b : b[i] \in D)
<1>1. Len(a \o b) = Len(a) + Len(b) /\ Len(a) \in Nat /\ Len(b) \in Nat
  OBVIOUS
<1>2. ASSUME NEW i \in DOMAIN a PROVE a[i] \in D
  <2>1. i \in DOMAIN (a \o b) /\ (a \o b)[i] = a[i]
    BY <1>1
  <2> QED
    BY <2>1
<1>3. ASSUME NEW i \in DOMAIN b PROVE b[i] \in D
  <2>1. Len(a) + i \in DOMAIN (a \o b) /\ (a \o b)[Len(a) + i] = b[i]
    BY <1>1
  <2> QED
    BY <2>1
<1> QED
  BY <1>2, <1>3

\* An overview whose calls are all recorded, none of them unavailable, has
\* read every source: what it reads only after another was read as well.
LEMMA OverviewReadsAll ==
  ASSUME NEW view, view[1] = "overview", NEW reg, Unavailable(reg) = {},
         \A i \in DOMAIN Calls(view, reg) : Calls(view, reg)[i] \in DOMAIN reg
  PROVE  Sources \subseteq DOMAIN reg
<1> DEFINE first == <<"incidents", "events">>
           last == <<"fleet", "coverage", "cost", "reconciliation", "oncall">>
           D == DOMAIN reg
<1>1. \A source \in D : Ok(reg, source)
  BY DEF Unavailable
<1>2. /\ first \in Seq(Sources) /\ last \in Seq(Sources)
      /\ <<"policy">> \in Seq(Sources) /\ <<"slos">> \in Seq(Sources)
      /\ <<"reconciliation", "scorecard">> \in Seq(Sources) /\ <<>> \in Seq(Sources)
  BY DEF Sources, Datadog, Reports
<1>3. SlosCall(reg) \in Seq(Sources) /\ SystemsCall(reg) \in Seq(Sources)
  BY <1>2 DEF SlosCall, SystemsCall, Then
<1>4. Calls(view, reg) = ((SlosCall(reg) \o first) \o SystemsCall(reg)) \o last
  <2>1. Calls(view, reg) = SlosCall(reg) \o first \o SystemsCall(reg) \o last
    BY DEF Calls
  <2> QED
    BY <2>1
<1> HIDE DEF first, last, D
<1>4a. /\ SlosCall(reg) \o first \in Seq(Sources)
       /\ (SlosCall(reg) \o first) \o SystemsCall(reg) \in Seq(Sources)
  BY <1>2, <1>3
<1>5. /\ \A i \in DOMAIN ((SlosCall(reg) \o first) \o SystemsCall(reg)) :
            ((SlosCall(reg) \o first) \o SystemsCall(reg))[i] \in D
      /\ \A i \in DOMAIN last : last[i] \in D
  <2>1. PICK p \in Seq(Sources) : p = (SlosCall(reg) \o first) \o SystemsCall(reg)
    BY <1>4a
  <2>2. \A i \in DOMAIN (p \o last) : (p \o last)[i] \in D
    BY <1>4, <2>1 DEF D
  <2>3. (\A i \in DOMAIN p : p[i] \in D) /\ (\A i \in DOMAIN last : last[i] \in D)
    BY <1>2, <2>2, Both
  <2> QED
    BY <2>1, <2>3
<1>6. /\ \A i \in DOMAIN (SlosCall(reg) \o first) : (SlosCall(reg) \o first)[i] \in D
      /\ \A i \in DOMAIN SystemsCall(reg) : SystemsCall(reg)[i] \in D
  <2>1. PICK p \in Seq(Sources), q \in Seq(Sources) :
           p = SlosCall(reg) \o first /\ q = SystemsCall(reg)
    BY <1>3, <1>4a
  <2>2. \A i \in DOMAIN (p \o q) : (p \o q)[i] \in D
    BY <1>5, <2>1
  <2>3. (\A i \in DOMAIN p : p[i] \in D) /\ (\A i \in DOMAIN q : q[i] \in D)
    BY <2>2, Both
  <2> QED
    BY <2>1, <2>3
<1>7. /\ \A i \in DOMAIN SlosCall(reg) : SlosCall(reg)[i] \in D
      /\ \A i \in DOMAIN first : first[i] \in D
  BY <1>2, <1>3, <1>6, Both
<1>8. /\ "fleet" \in D /\ "coverage" \in D /\ "cost" \in D /\ "reconciliation" \in D
      /\ "oncall" \in D /\ "incidents" \in D /\ "events" \in D
  <2>1. \A i \in 1..5 : last[i] \in D
    BY <1>5 DEF last
  <2>2. \A i \in 1..2 : first[i] \in D
    BY <1>7 DEF first
  <2> QED
    BY <2>1, <2>2 DEF first, last
<1>9. "slos" \in D /\ "policy" \in D
  <2>1. "slos" \in D
    <3>1. PICK more \in Seq(Sources) : SlosCall(reg) = <<"slos">> \o more
      BY <1>2 DEF SlosCall, Then
    <3>2. \A i \in DOMAIN <<"slos">> : <<"slos">>[i] \in D
      BY <1>2, <1>7, <3>1, Both
    <3> QED
      BY <3>2
  <2>2. SlosCall(reg) = <<"slos">> \o <<"policy">>
    BY <1>1, <2>1 DEF SlosCall, Then
  <2>3. \A i \in DOMAIN <<"policy">> : <<"policy">>[i] \in D
    BY <1>2, <1>7, <2>2, Both
  <2> QED
    BY <2>1, <2>3
<1>10. "scorecard" \in D
  <2>1. SystemsCall(reg) = <<"policy">> \o <<"reconciliation", "scorecard">>
    BY <1>1, <1>9 DEF SystemsCall, Then
  <2>2. \A i \in DOMAIN <<"reconciliation", "scorecard">> :
           <<"reconciliation", "scorecard">>[i] \in D
    BY <1>2, <1>6, <2>1, Both
  <2> QED
    BY <2>2
<1> QED
  BY <1>8, <1>9, <1>10 DEF Sources, Datadog, Reports, D

LEMMA RespondStep ==
  ASSUME Inv, NEW t \in Threads, Respond(t) PROVE Inv'
<1>1. PICK x : x = request[t]
  OBVIOUS
<1>2. x.phase = "reading" /\ RequestOK(x) /\ Right(x)
  BY <1>1 DEF Respond, Running, Inv, TypeOK, Free
<1>3. PICK a : a = Answer(x.view, x.reg)
  OBVIOUS
<1>4. a = Failed \/ (PageOK(a) /\ Built(a))
  <2>1. CASE ~Found(x.view, x.reg)
    BY <1>3, <2>1 DEF Answer
  <2>2. CASE Found(x.view, x.reg)
    <3>1. a = [kind |-> "data", view |-> x.view, body |-> Body(x.view, x.reg, now),
               freshness |-> Freshness(x.reg), reg |-> x.reg, at |-> now]
      BY <1>3, <2>2 DEF Answer
    <3>2. PageOK(a)
      BY <1>2, <3>1 DEF PageOK, RequestOK, Inv, TypeOK
    <3>3. \A i \in DOMAIN Calls(x.view, x.reg) : Calls(x.view, x.reg)[i] \in DOMAIN x.reg
      BY <1>1 DEF Respond, ToRead, Unread, CallsOf
    <3>4. x.view[1] = "overview" /\ Unavailable(x.reg) = {} => Sources \subseteq DOMAIN x.reg
      BY <3>3, OverviewReadsAll
    <3>5. a.view = x.view /\ a.reg = x.reg /\ a.at = now /\ a.body = Body(x.view, x.reg, now)
      BY <3>1
    <3>6. AllAged(a.reg)
      BY <1>2, <3>5 DEF Right
    <3> QED
      BY <3>2, <3>4, <3>5, <3>6 DEF Built
  <2> QED
    BY <2>1, <2>2
<1>5. PICK y : y = [x EXCEPT !.phase = "answered", !.reg = <<>>, !.base = 0, !.answer = a]
  OBVIOUS
<1>6. /\ y = [phase |-> "answered", view |-> x.view, current |-> x.current, reg |-> <<>>,
              answer |-> a, wait |-> x.wait, base |-> 0]
  BY <1>2, <1>5 DEF RequestOK
<1>7. RequestOK(y) /\ Right(y)
  <2>1. RegistryOK(<<>>) /\ AllAged(<<>>) /\ Rewritten \notin DOMAIN <<>>
    BY DEF RegistryOK, AllAged
  <2>2. file.version \in Nat
    BY DEF Inv, TypeOK, Files
  <2> QED
    BY <1>2, <1>4, <1>6, <2>1, <2>2 DEF RequestOK, Right
<1>8. request' = [request EXCEPT ![t] = y]
  BY <1>1, <1>3, <1>5 DEF Respond
<1> QED
  BY <1>7, <1>8, Served DEF Respond, Inv, TypeOK

\* A result joins a request's registry.
LEMMA PutRight ==
  ASSUME NEW reg, RegistryOK(reg), AllAged(reg), NEW base,
         Rewritten \in DOMAIN reg => NoOlder(reg[Rewritten], base),
         NEW source \in Sources, NEW r \in Results, Aged(r),
         source = Rewritten => NoOlder(r, base)
  PROVE  LET more == Put(reg, source, r)
         IN  /\ RegistryOK(more) /\ AllAged(more)
             /\ Rewritten \in DOMAIN more => NoOlder(more[Rewritten], base)
<1> DEFINE more == Put(reg, source, r)
<1>1. DOMAIN more = DOMAIN reg \cup {source}
  BY DEF Put
<1>2. \A k \in DOMAIN more : more[k] = IF k = source THEN r ELSE reg[k]
  BY DEF Put
<1>3. more = [k \in DOMAIN more |-> more[k]]
  BY DEF Put
<1> HIDE DEF more
<1>4. \A k \in DOMAIN more : more[k] \in Results /\ Aged(more[k])
  BY <1>1, <1>2 DEF RegistryOK, AllAged
<1>5. RegistryOK(more)
  BY <1>1, <1>3, <1>4 DEF RegistryOK
<1>6. AllAged(more)
  BY <1>4 DEF AllAged
<1>7. Rewritten \in DOMAIN more => NoOlder(more[Rewritten], base)
  BY <1>1, <1>2
<1> QED
  BY <1>5, <1>6, <1>7 DEF more

\* The result a thread waited for is recorded.
LEMMA RecordStep ==
  ASSUME Inv, NEW t \in Threads, request[t].phase \in {"fetching", "parsing", "storing"},
         NEW source \in Sources, NEW r \in Results, Aged(r),
         source = Rewritten => NoOlder(r, request[t].base),
         Record(t, source, r), UNCHANGED <<now, world, asked, tab>>,
         CacheRight(cache'), parsed' \subseteq Parses, \A content \in parsed' : Current(content)
  PROVE  Inv'
<1>1. PICK x : x = request[t]
  OBVIOUS
<1>2. RequestOK(x) /\ Right(x)
  BY <1>1 DEF Inv, TypeOK, Free
<1>3. PICK more : more = Put(x.reg, source, r)
  OBVIOUS
<1>4. /\ RegistryOK(more) /\ AllAged(more)
      /\ Rewritten \in DOMAIN more => NoOlder(more[Rewritten], x.base)
  BY <1>1, <1>2, <1>3, PutRight DEF RequestOK, Right
<1>5. PICK y : y = [x EXCEPT !.phase = "reading", !.wait = <<>>, !.reg = more]
  OBVIOUS
<1>6. y = [phase |-> "reading", view |-> x.view, current |-> x.current, reg |-> more,
           answer |-> x.answer, wait |-> <<>>, base |-> x.base]
  BY <1>2, <1>5 DEF RequestOK
<1>7. RequestOK(y) /\ Right(y)
  BY <1>2, <1>4, <1>6 DEF RequestOK, Right
<1>8. request' = [request EXCEPT ![t] = y] /\ turn' = {t}
  BY <1>1, <1>3, <1>5 DEF Record
<1> QED
  BY <1>7, <1>8, Served

\* A thread begins to wait.
LEMMA WaitStep ==
  ASSUME Inv, NEW t \in Threads, request[t] # Free,
         NEW phase \in {"fetching", "parsing", "storing"}, NEW for, Wait(t, phase, for),
         phase = "fetching" =>
             for \in [source : Slow, began : Nat, org : Nat] /\ now - for.began <= MaxFetch,
         phase = "parsing" => for \in [stamp : Nat] /\ for.stamp <= file.stamp,
         phase = "storing" => for \in Parses /\ Current(for) /\ for.version >= request[t].base,
         UNCHANGED <<now, world, asked, tab, parsed>>, CacheRight(cache')
  PROVE  Inv'
<1>1. PICK x : x = request[t]
  OBVIOUS
<1>2. RequestOK(x) /\ Right(x)
  BY <1>1 DEF Inv, TypeOK
<1>3. PICK y : y = [x EXCEPT !.phase = phase, !.wait = for]
  OBVIOUS
<1>4. y = [phase |-> phase, view |-> x.view, current |-> x.current, reg |-> x.reg,
           answer |-> x.answer, wait |-> for, base |-> x.base]
  BY <1>2, <1>3 DEF RequestOK
<1>5. RequestOK(y) /\ Right(y)
  BY <1>1, <1>2, <1>4 DEF RequestOK, Right
<1>6. request' = [request EXCEPT ![t] = y] /\ turn' = {}
  BY <1>1, <1>3 DEF Wait
<1> QED
  BY <1>5, <1>6, Served DEF Inv, TypeOK

LEMMA CachedRight ==
  ASSUME Inv, NEW sources, sources \subseteq Datadog PROVE CacheRight(Cached(sources))
<1>1. PICK c : c = Cached(sources)
  OBVIOUS
<1>2. /\ now \in Nat /\ org \in Nat /\ CacheRight(cache)
  BY DEF Inv, TypeOK
<1>3. PICK asking : asking = {s \in sources : Entry(s) = {}}
  OBVIOUS
<1>4. c = [s \in (DOMAIN cache \ asking) \cup (asking \ out) |->
              IF s \in asking THEN Fetched(org, now) ELSE cache[s]]
  BY <1>1, <1>3 DEF Cached
<1>5. \A s \in DOMAIN c : c[s] = IF s \in asking THEN Fetched(org, now) ELSE cache[s]
  BY <1>4
<1>6. DOMAIN c \subseteq Datadog /\ \A s \in DOMAIN c : s \in asking \/ s \in DOMAIN cache
  BY <1>2, <1>3, <1>4 DEF CacheRight
<1>7. Fetched(org, now) \in Entries /\ Fetched(org, now).put - Fetched(org, now).began <= MaxFetch
  BY <1>2, Numbers DEF Fetched, Entries
<1>8. \A s \in DOMAIN c : c[s] \in Entries /\ c[s].put - c[s].began <= MaxFetch
  BY <1>2, <1>5, <1>6, <1>7 DEF CacheRight
<1>9. c \in [DOMAIN c -> Entries]
  BY <1>4, <1>8
<1> QED
  BY <1>1, <1>6, <1>8, <1>9 DEF CacheRight

LEMMA ReadOnStep ==
  ASSUME Inv, NEW t \in Threads, ReadOn(t) PROVE Inv'
<1>1. PICK x : x = request[t]
  OBVIOUS
<1>2. x.phase = "reading" /\ RequestOK(x) /\ Right(x) /\ x.base \in Nat
  BY <1>1 DEF ReadOn, Running, Inv, TypeOK, Free, RequestOK
<1>3. PICK both : both = [s \in DOMAIN x.reg \cup Together(t) |->
                             IF s \in Together(t) THEN Read(s) ELSE x.reg[s]]
  OBVIOUS
<1>4. \A s \in Together(t) : s \in Sources /\ ~MustWait(s)
  <2>1. CallsOf(t) \in Seq(Sources)
    BY <1>1, <1>2, CallsType, PortalAssumption DEF CallsOf, RequestOK
  <2>2. \A i \in Unread(CallsOf(t), x.reg) : i \in Nat /\ CallsOf(t)[i] \in Sources
    BY <2>1 DEF Unread
  <2>3. ASSUME NEW k \in Unread(CallsOf(t), x.reg),
               \A j \in {i \in Unread(CallsOf(t), x.reg) : MustWait(CallsOf(t)[i])} : k < j
        PROVE  ~MustWait(CallsOf(t)[k])
    <3>1. k \in Nat /\ ~(k < k)
      BY <2>2
    <3> QED
      BY <2>3, <3>1
  <2>4. \A s \in Together(t) : \E k \in Unread(CallsOf(t), x.reg) :
          /\ s = CallsOf(t)[k]
          /\ \A j \in {i \in Unread(CallsOf(t), x.reg) : MustWait(CallsOf(t)[i])} : k < j
    BY <1>1, Zenon DEF Together
  <2> QED
    BY <2>2, <2>3, <2>4
<1>5. \A s \in Together(t) : /\ Read(s) \in Results /\ Aged(Read(s))
                             /\ s = Rewritten => NoOlder(Read(s), x.base)
  BY <1>2, <1>4, ReadRight DEF Right
<1>6. /\ DOMAIN both \subseteq Sources
      /\ \A s \in DOMAIN both : both[s] \in Results /\ Aged(both[s])
      /\ Rewritten \in DOMAIN both => NoOlder(both[Rewritten], x.base)
  <2>1. DOMAIN both = DOMAIN x.reg \cup Together(t)
    BY <1>3
  <2>2. \A s \in DOMAIN both : both[s] = IF s \in Together(t) THEN Read(s) ELSE x.reg[s]
    BY <1>3
  <2>3. /\ DOMAIN x.reg \subseteq Sources
        /\ \A s \in DOMAIN x.reg : x.reg[s] \in Results /\ Aged(x.reg[s])
        /\ Rewritten \in DOMAIN x.reg => NoOlder(x.reg[Rewritten], x.base)
    BY <1>2 DEF RequestOK, RegistryOK, Right, AllAged
  <2> QED
    BY <1>4, <1>5, <2>1, <2>2, <2>3
<1>7. RegistryOK(both) /\ AllAged(both)
  <2>1. both \in [DOMAIN both -> Results]
    BY <1>3, <1>6
  <2> QED
    BY <1>6, <2>1 DEF RegistryOK, AllAged
<1>8. PICK y : y = [x EXCEPT !.reg = both]
  OBVIOUS
<1>9. y = [phase |-> "reading", view |-> x.view, current |-> x.current, reg |-> both,
           answer |-> x.answer, wait |-> x.wait, base |-> x.base]
  BY <1>2, <1>8 DEF RequestOK
<1>10. RequestOK(y) /\ Right(y)
  BY <1>2, <1>6, <1>7, <1>9 DEF RequestOK, Right
<1>11. request' = [request EXCEPT ![t] = y]
  BY <1>1, <1>3, <1>8 DEF ReadOn
<1>12. CacheRight(cache')
  BY CachedRight DEF ReadOn, Inv
<1> QED
  BY <1>10, <1>11, <1>12, Served DEF ReadOn, Inv, TypeOK

LEMMA StartFetchStep ==
  ASSUME Inv, NEW t \in Threads, StartFetch(t) PROVE Inv'
<1>1. PICK source \in Slow :
        /\ MustWait(source)
        /\ cache' = [s \in DOMAIN cache \ {source} |-> cache[s]]
        /\ Wait(t, "fetching", [source |-> source, began |-> now, org |-> org])
  BY DEF StartFetch
<1>2. PICK for : for = [source |-> source, began |-> now, org |-> org]
  OBVIOUS
<1>3. /\ source \in Slow /\ request[t] # Free /\ Wait(t, "fetching", for)
      /\ cache' = [s \in DOMAIN cache \ {source} |-> cache[s]]
      /\ UNCHANGED <<now, world, asked, tab, parsed>>
  BY <1>1, <1>2 DEF StartFetch, Running, Free
<1>4. for \in [source : Slow, began : Nat, org : Nat] /\ now - for.began <= MaxFetch
  BY <1>2, <1>3, Numbers DEF Inv, TypeOK
<1>5. CacheRight(cache')
  BY <1>3 DEF Inv, CacheRight
<1> QED
  BY <1>3, <1>4, <1>5, WaitStep

LEMMA EndFetchStep ==
  ASSUME Inv, NEW t \in Threads, EndFetch(t) PROVE Inv'
<1>1. PICK w : w = request[t].wait
  OBVIOUS
<1>2. /\ request[t].phase = "fetching" /\ w \in [source : Slow, began : Nat, org : Nat]
      /\ now - w.began <= MaxFetch
  BY <1>1 DEF EndFetch, Inv, TypeOK, RequestOK, Right, Free
<1>3. /\ w.source \in Sources /\ w.source # Rewritten /\ w.source \in Datadog
      /\ w.org \in Nat /\ w.began \in Nat /\ now \in Nat /\ org \in Nat
  BY <1>2, Numbers DEF Inv, TypeOK
<1>4. /\ UNCHANGED <<now, world, asked, tab>> /\ parsed' = parsed
      /\ parsed \subseteq Parses /\ \A content \in parsed : Current(content)
  BY DEF EndFetch, Inv, TypeOK
<1>5. CASE w.source \in out
  <2>1. Record(t, w.source, NoResult("datadog")) /\ cache' = cache
    BY <1>1, <1>5 DEF EndFetch
  <2>2. NoResult("datadog") \in Results /\ Aged(NoResult("datadog"))
    BY NoResultRight DEF Inv
  <2>3. CacheRight(cache')
    BY <2>1 DEF Inv
  <2> QED
    BY <1>2, <1>3, <1>4, <2>1, <2>2, <2>3, RecordStep
<1>6. CASE w.source \notin out
  <2>1. PICK version \in w.org..org :
           /\ cache' = Put(cache, w.source, Fetched(version, w.began))
           /\ Record(t, w.source, FromDatadog(Fetched(version, w.began)))
    BY <1>1, <1>6 DEF EndFetch
  <2>2. PICK e : e = Fetched(version, w.began)
    OBVIOUS
  <2>3. e \in Entries /\ e.put = now /\ e.began = w.began
    BY <1>3, <2>1, <2>2 DEF Fetched, Entries
  <2>4. now - e.put <= TTL /\ e.put - e.began <= MaxFetch
    BY <1>2, <1>3, <2>3, Numbers
  <2>5. FromDatadog(e) \in Results /\ Aged(FromDatadog(e))
    BY <2>3, <2>4, FromDatadogRight DEF Inv
  <2>6. CacheRight(cache')
    <3>1. cache' = [s \in DOMAIN cache \cup {w.source} |->
                       IF s = w.source THEN e ELSE cache[s]]
      BY <2>1, <2>2 DEF Put
    <3>2. \A s \in DOMAIN cache : cache[s] \in Entries /\ cache[s].put - cache[s].began <= MaxFetch
      BY DEF Inv, CacheRight
    <3>3. DOMAIN cache \subseteq Datadog
      BY DEF Inv, CacheRight
    <3> QED
      BY <1>3, <2>3, <2>4, <3>1, <3>2, <3>3 DEF CacheRight
  <2> QED
    BY <1>2, <1>3, <1>4, <2>1, <2>2, <2>5, <2>6, RecordStep
<1> QED
  BY <1>5, <1>6

LEMMA StartParseStep ==
  ASSUME Inv, NEW t \in Threads, StartParse(t) PROVE Inv'
<1>1. PICK for : for = [stamp |-> file.stamp]
  OBVIOUS
<1>2. /\ request[t] # Free /\ Wait(t, "parsing", for) /\ cache' = cache
      /\ UNCHANGED <<now, world, asked, tab, parsed>>
  BY <1>1 DEF StartParse, Running, Free
<1>3. for \in [stamp : Nat] /\ for.stamp <= file.stamp
  BY <1>1 DEF Inv, TypeOK, Files
<1>4. CacheRight(cache')
  BY <1>2 DEF Inv
<1> QED
  BY <1>2, <1>3, <1>4, WaitStep

LEMMA LoadStep ==
  ASSUME Inv, NEW t \in Threads, Load(t) PROVE Inv'
<1>1. PICK x : x = request[t]
  OBVIOUS
<1>2. /\ x.phase = "parsing" /\ x.wait \in [stamp : Nat] /\ x.wait.stamp <= file.stamp
      /\ x.base <= file.version /\ x # Free
  BY <1>1 DEF Load, Inv, TypeOK, RequestOK, Right, Free
<1>3. file \in Files /\ CacheRight(cache') /\ parsed' = parsed /\ parsed \subseteq Parses
      /\ (\A content \in parsed : Current(content)) /\ UNCHANGED <<now, world, asked, tab>>
  BY DEF Load, Inv, TypeOK
<1>4. CASE file.whole
  <2>1. PICK for : for = [stamp |-> x.wait.stamp, version |-> file.version, at |-> file.at]
    OBVIOUS
  <2>2. Wait(t, "storing", for)
    BY <1>1, <1>4, <2>1 DEF Load
  <2>3. for \in Parses /\ Current(for) /\ for.version >= x.base
    BY <1>2, <1>3, <2>1 DEF Parses, Files, Current
  <2> QED
    BY <1>1, <1>2, <1>3, <2>2, <2>3, WaitStep
<1>5. CASE ~file.whole
  <2>1. Record(t, Rewritten, NoResult("report"))
    BY <1>5 DEF Load
  <2>2. /\ NoResult("report") \in Results /\ Aged(NoResult("report"))
        /\ NoOlder(NoResult("report"), x.base)
    BY NoResultRight DEF Inv, NoOlder
  <2> QED
    BY <1>1, <1>2, <1>3, <2>1, <2>2, RecordStep, Numbers
<1> QED
  BY <1>4, <1>5

LEMMA StoreStep ==
  ASSUME Inv, NEW t \in Threads, Store(t) PROVE Inv'
<1>1. PICK x, c : x = request[t] /\ c = x.wait
  OBVIOUS
<1>2. x.phase = "storing" /\ c \in Parses /\ Current(c) /\ c.version >= x.base
  BY <1>1 DEF Store, Inv, TypeOK, RequestOK, Right, Free
<1>3. /\ parsed' = {c} /\ Record(t, Rewritten, FromFile(c)) /\ cache' = cache
      /\ UNCHANGED <<now, world, asked, tab>>
  BY <1>1 DEF Store, Kept
<1>4. /\ FromFile(c) \in Results /\ Aged(FromFile(c)) /\ NoOlder(FromFile(c), x.base)
  BY <1>2, FromFileRight DEF Inv, NoOlder
<1>5. CacheRight(cache')
  BY <1>3 DEF Inv
<1> QED
  BY <1>1, <1>2, <1>3, <1>4, <1>5, RecordStep, Numbers

LEMMA ArriveStep ==
  ASSUME Inv, NEW t \in Threads, Arrive(t) PROVE Inv'
<1>1. PICK x : x = request[t]
  OBVIOUS
<1>2. RequestOK(x) /\ Right(x)
  BY <1>1 DEF Arrive, Inv, TypeOK, Free
<1>3. /\ request' = [request EXCEPT ![t] = Free]
      /\ UNCHANGED <<now, world, cache, parsed, turn, asked>>
  BY DEF Arrive
<1>4. /\ tab' = [hash |-> tab'.hash, rendered |-> tab'.rendered, page |-> tab'.page]
      /\ tab'.hash = tab.hash
      /\ \/ tab'.page \in [kind : {"loading", "failed"}]
         \/ tab'.page \in [kind : {"data"}, view : Views]
      /\ tab'.page.kind = "data" => tab'.page.view = tab'.rendered /\ tab'.rendered = tab'.hash
  <2>1. CASE ~x.current
    <3>1. tab' = tab
      BY <1>1, <2>1 DEF Arrive
    <3> QED
      BY <3>1 DEF Inv, TypeOK, ScreenRight
  <2>2. CASE x.current /\ x.answer = Failed
    <3>1. tab' = [tab EXCEPT !.page = Failed]
      BY <1>1, <2>2 DEF Arrive
    <3>2. tab' = [hash |-> tab.hash, rendered |-> tab.rendered, page |-> Failed]
      BY <3>1 DEF Inv, TypeOK
    <3> QED
      BY <3>2 DEF Failed
  <2>3. CASE x.current /\ x.answer # Failed
    <3>1. tab' = [tab EXCEPT !.page = [kind |-> "data", view |-> x.view], !.rendered = tab.hash]
      BY <1>1, <2>3 DEF Arrive
    <3>2. tab' = [hash |-> tab.hash, rendered |-> tab.hash,
                  page |-> [kind |-> "data", view |-> x.view]]
      BY <3>1 DEF Inv, TypeOK
    <3>3. x.view \in Views /\ x.view = tab.hash
      BY <1>2, <2>3 DEF RequestOK, Right
    <3> QED
      BY <3>2, <3>3
  <2> QED
    BY <2>1, <2>2, <2>3
<1>5. /\ DOMAIN request' = Threads
      /\ \A u \in Threads : request'[u] = Free \/ request'[u] = request[u]
  BY <1>3 DEF Inv, TypeOK
<1>6. TypeOK'
  <2>1. \A u \in Threads : request'[u] = Free \/ RequestOK(request'[u])
    BY <1>5 DEF Inv, TypeOK
  <2> QED
    BY <1>3, <1>4, <1>5, <2>1 DEF Inv, TypeOK, world, RequestOK, PageOK, RegistryOK
<1>7. \A y : Right(y) => Right(y)'
  BY <1>3, <1>4 DEF Right, Current, Built, world
<1>8. (\A u \in Threads : request[u] = Free \/ Right(request[u]))'
  <2> SUFFICES ASSUME NEW u \in Threads PROVE (request[u] = Free \/ Right(request[u]))'
    OBVIOUS
  <2>1. PICK y : y = request'[u]
    OBVIOUS
  <2>2. y = Free \/ Right(y)
    BY <1>5, <2>1 DEF Inv
  <2>3. Right(y)' => Right(request[u])'
    BY <2>1
  <2> QED
    BY <1>7, <2>1, <2>2, <2>3
<1>9. CacheRight(cache)' /\ (\A content \in parsed : Current(content))' /\ ScreenRight'
  BY <1>3, <1>4 DEF Inv, CacheRight, Current, ScreenRight, world
<1> QED
  BY <1>6, <1>8, <1>9 DEF Inv

LEMMA NavigateStep ==
  ASSUME Inv, NEW t \in Threads, Navigate(t) PROVE Inv'
<1>1. PICK view : view = journey[asked']
  OBVIOUS
<1>2. asked' \in Nat /\ view \in Views
  <2>1. asked \in Nat /\ journey \in Seq(Views) /\ asked < Len(journey) /\ asked' = asked + 1
    BY PortalAssumption DEF Navigate, Inv, TypeOK
  <2>2. asked' \in 1..Len(journey) /\ asked' \in Nat
    BY <2>1
  <2> QED
    BY <1>1, <2>1, <2>2
<1>3. PICK y : y = Asked(view)
  OBVIOUS
<1>4. y = [phase |-> IF Authorized(caller) THEN "reading" ELSE "answered", view |-> view,
           current |-> TRUE, reg |-> <<>>, answer |-> Failed, wait |-> <<>>, base |-> file.version]
  BY <1>3 DEF Asked
<1>5. y.phase \in {"reading", "answered"}
  BY <1>4
<1>6. /\ request' = [Superseded EXCEPT ![t] = y]
      /\ UNCHANGED <<now, world, cache, parsed>> /\ turn' \in {{t}, {}}
  BY <1>1, <1>3 DEF Navigate
<1>7. /\ tab' = [hash |-> view, rendered |-> tab.rendered, page |-> tab'.page]
      /\ \/ tab'.page \in [kind : {"loading", "failed"}]
         \/ tab'.page \in [kind : {"data"}, view : Views]
      /\ tab'.page.kind = "data" => tab'.page.view = tab'.rendered /\ tab'.rendered = tab'.hash
  <2>1. CASE view = tab.rendered
    <3>1. tab' = [tab EXCEPT !.hash = view]
      BY <1>1, <2>1 DEF Navigate, Inv, TypeOK
    <3>2. tab' = [hash |-> view, rendered |-> tab.rendered, page |-> tab.page]
      BY <3>1 DEF Inv, TypeOK
    <3>3. tab.page.kind = "data" => tab.page.view = tab.rendered
      BY DEF Inv, ScreenRight
    <3>4. tab'.page = tab.page /\ tab'.rendered = tab.rendered /\ tab'.hash = view
      BY <3>2
    <3>5. \/ tab.page \in [kind : {"loading", "failed"}]
          \/ tab.page \in [kind : {"data"}, view : Views]
      BY DEF Inv, TypeOK
    <3> QED
      BY <2>1, <3>2, <3>3, <3>4, <3>5
  <2>2. CASE view # tab.rendered
    <3>1. tab' = [tab EXCEPT !.hash = view, !.page = [kind |-> "loading"]]
      BY <1>1, <2>2 DEF Navigate, Inv, TypeOK
    <3>2. tab' = [hash |-> view, rendered |-> tab.rendered, page |-> [kind |-> "loading"]]
      BY <3>1 DEF Inv, TypeOK
    <3> QED
      BY <3>2
  <2> QED
    BY <2>1, <2>2
<1>8. RequestOK(y) /\ Right(y)'
  <2>1. RegistryOK(<<>>) /\ AllAged(<<>>) /\ Rewritten \notin DOMAIN <<>>
    BY DEF RegistryOK, AllAged
  <2>2. file.version \in Nat /\ file.version <= file.version /\ file' = file
    BY <1>6 DEF Inv, TypeOK, Files, world
  <2>3. RequestOK(y)
    BY <1>2, <1>4, <1>5, <2>1, <2>2 DEF RequestOK
  <2>4. Right(y)'
    <3>1. tab'.hash = view
      BY <1>7
    <3> QED
      BY <1>4, <1>5, <2>1, <2>2, <3>1 DEF Right, AllAged, Aged
  <2> QED
    BY <2>3, <2>4
<1>9. ASSUME NEW u \in Threads, u # t, request[u] # Free
      PROVE  RequestOK(request'[u]) /\ Right(request[u])'
  <2>1. PICK x : x = request[u]
    OBVIOUS
  <2>2. RequestOK(x) /\ Right(x)
    BY <1>9, <2>1 DEF Inv, TypeOK
  <2>3. PICK z : z = [x EXCEPT !.current = FALSE]
    OBVIOUS
  <2>4. z = [phase |-> x.phase, view |-> x.view, current |-> FALSE, reg |-> x.reg,
             answer |-> x.answer, wait |-> x.wait, base |-> x.base]
    BY <2>2, <2>3 DEF RequestOK
  <2>5. RequestOK(z) /\ Right(z)
    BY <2>2, <2>4 DEF RequestOK, Right
  <2>6. Right(z)'
    BY <1>6, <2>4, <2>5 DEF Right, Current, Built, world
  <2>7. request'[u] = z
    BY <1>6, <1>9, <2>1, <2>3 DEF Superseded
  <2>8. Right(z)' => Right(request[u])'
    BY <2>7
  <2> QED
    BY <2>5, <2>6, <2>7, <2>8
<1>10. /\ DOMAIN request' = Threads /\ request'[t] = y
       /\ \A u \in Threads : u # t /\ request[u] = Free => request'[u] = Free
  BY <1>6 DEF Superseded
<1>11. TypeOK'
  <2>1. \A u \in Threads : request'[u] = Free \/ RequestOK(request'[u])
    BY <1>8, <1>9, <1>10
  <2>2. turn' \subseteq Threads
    BY <1>6
  <2>3. tab' = [hash |-> tab'.hash, rendered |-> tab'.rendered, page |-> tab'.page]
    BY <1>7
  <2> QED
    BY <1>2, <1>6, <1>7, <1>10, <2>1, <2>2, <2>3
    DEF Inv, TypeOK, world, RequestOK, PageOK, RegistryOK
<1>12. (\A u \in Threads : request[u] = Free \/ Right(request[u]))'
  <2> SUFFICES ASSUME NEW u \in Threads PROVE (request[u] = Free \/ Right(request[u]))'
    OBVIOUS
  <2>1. CASE u = t
    <3>1. Right(y)' => Right(request[u])'
      BY <1>10, <2>1
    <3> QED
      BY <1>8, <3>1
  <2>2. CASE u # t
    BY <1>9, <1>10, <2>2
  <2> QED
    BY <2>1, <2>2
<1>13. CacheRight(cache)' /\ (\A content \in parsed : Current(content))' /\ ScreenRight'
  BY <1>6, <1>7 DEF Inv, CacheRight, Current, ScreenRight, world
<1> QED
  BY <1>11, <1>12, <1>13 DEF Inv

LEMMA CallStep ==
  ASSUME Inv, NEW t \in Threads, Call(t) PROVE Inv'
<1>1. PICK view : view = journey[asked']
  OBVIOUS
<1>2. asked' \in Nat /\ view \in Views
  <2>1. asked \in Nat /\ journey \in Seq(Views) /\ asked < Len(journey) /\ asked' = asked + 1
    BY PortalAssumption DEF Call, Inv, TypeOK
  <2>2. asked' \in 1..Len(journey) /\ asked' \in Nat
    BY <2>1
  <2> QED
    BY <1>1, <2>1, <2>2
<1>3. PICK y : y = [Asked(view) EXCEPT !.current = FALSE]
  OBVIOUS
<1>4. y = [phase |-> IF Authorized(caller) THEN "reading" ELSE "answered", view |-> view,
           current |-> FALSE, reg |-> <<>>, answer |-> Failed, wait |-> <<>>, base |-> file.version]
  BY <1>3 DEF Asked
<1>5. /\ request' = [request EXCEPT ![t] = y] /\ turn' \in {{t}, {}}
      /\ UNCHANGED <<now, world, cache, parsed, tab>>
  BY <1>1, <1>3 DEF Call
<1>6. RequestOK(y) /\ Right(y)'
  <2>1. RegistryOK(<<>>) /\ AllAged(<<>>) /\ Rewritten \notin DOMAIN <<>>
    BY DEF RegistryOK, AllAged
  <2>2. file.version \in Nat /\ file.version <= file.version /\ file' = file
    BY <1>5 DEF Inv, TypeOK, Files, world
  <2>3. y.phase \in {"reading", "answered"}
    BY <1>4
  <2>4. RequestOK(y)
    BY <1>2, <1>4, <2>1, <2>2, <2>3 DEF RequestOK
  <2>5. Right(y)'
    BY <1>4, <2>1, <2>2, <2>3 DEF Right, AllAged, Aged
  <2> QED
    BY <2>4, <2>5
<1>7. /\ DOMAIN request' = Threads /\ request'[t] = y
      /\ \A u \in Threads : u # t => request'[u] = request[u]
  BY <1>5 DEF Inv, TypeOK
<1>8. TypeOK'
  <2>1. \A u \in Threads : request'[u] = Free \/ RequestOK(request'[u])
    BY <1>6, <1>7 DEF Inv, TypeOK
  <2>2. turn' \subseteq Threads
    BY <1>5
  <2> QED
    BY <1>2, <1>5, <1>7, <2>1, <2>2
    DEF Inv, TypeOK, world, RequestOK, PageOK, RegistryOK
<1>9. (\A u \in Threads : request[u] = Free \/ Right(request[u]))'
  <2> SUFFICES ASSUME NEW u \in Threads PROVE (request[u] = Free \/ Right(request[u]))'
    OBVIOUS
  <2>1. CASE u = t
    <3>1. Right(y)' => Right(request[u])'
      BY <1>7, <2>1
    <3> QED
      BY <1>6, <3>1
  <2>2. CASE u # t
    <3>1. PICK x : x = request[u]
      OBVIOUS
    <3>2. x = Free \/ (Right(x) /\ Right(x)')
      BY <1>5, <3>1 DEF Inv, Right, Current, Built, world
    <3>3. Right(x)' => Right(request[u])'
      BY <1>7, <2>2, <3>1
    <3> QED
      BY <1>7, <2>2, <3>1, <3>2, <3>3
  <2> QED
    BY <2>1, <2>2
<1>10. CacheRight(cache)' /\ (\A content \in parsed : Current(content))' /\ ScreenRight'
  BY <1>5 DEF Inv, CacheRight, Current, ScreenRight, world
<1> QED
  BY <1>8, <1>9, <1>10 DEF Inv

\* A step of the world: a request is as right as it was, or waits no longer
\* than a fetch takes; a file that changes has a stamp it never had.
LEMMA WorldStep ==
  ASSUME Inv, TypeOK', UNCHANGED <<cache, parsed, request, turn, asked, tab>>,
         \A t \in Threads : request[t].phase = "fetching" => now' - request[t].wait.began <= MaxFetch,
         file' = file \/ (file'.stamp > file.stamp /\ file'.version >= file.version)
  PROVE  Inv'
<1>1. /\ file \in Files /\ file' \in Files
      /\ file.stamp \in Nat /\ file'.stamp \in Nat /\ file.version \in Nat /\ file'.version \in Nat
  BY DEF Inv, TypeOK, Files
<1>2. \A c \in Parses : Current(c) => Current(c)'
  BY <1>1 DEF Current, Parses
<1>3. (\A c \in parsed : Current(c))'
  BY <1>2 DEF Inv, TypeOK
<1>4. ASSUME NEW t \in Threads, request[t] # Free
      PROVE  Right(request[t])'
  <2>1. PICK x : x = request[t]
    OBVIOUS
  <2>2. RequestOK(x) /\ Right(x) /\ (x.phase = "fetching" => now' - x.wait.began <= MaxFetch)
    BY <1>4, <2>1 DEF Inv, TypeOK
  <2>3. x.base \in Nat /\ x.base <= file'.version
    BY <1>1, <2>2 DEF RequestOK, Right
  <2>4. x.phase = "parsing" => x.wait.stamp <= file'.stamp
    BY <1>1, <2>2 DEF RequestOK, Right
  <2>5. x.phase = "storing" => Current(x.wait)'
    BY <1>2, <2>2 DEF RequestOK, Right
  <2>6. x.answer = Failed \/ Built(x.answer)'
    BY <2>2 DEF Right, Built
  <2>7. Right(x)'
    BY <2>2, <2>3, <2>4, <2>5, <2>6 DEF Right
  <2>8. Right(x)' => Right(request[t])'
    BY <2>1
  <2> QED
    BY <2>7, <2>8
<1>5. CacheRight(cache)' /\ ScreenRight'
  BY DEF Inv, CacheRight, ScreenRight
<1> QED
  BY <1>3, <1>4, <1>5 DEF Inv

LEMMA WaitingFetch ==
  ASSUME Inv
  PROVE  \A t \in Threads : request[t].phase = "fetching" => now - request[t].wait.began <= MaxFetch
BY DEF Inv, Right, Free

LEMMA TickStep ==
  ASSUME Inv, Tick PROVE Inv'
<1>1. \A t \in Threads : request[t].phase = "fetching" => now' - request[t].wait.began <= MaxFetch
  <2> SUFFICES ASSUME NEW t \in Threads, request[t].phase = "fetching"
               PROVE  now' - request[t].wait.began <= MaxFetch
    OBVIOUS
  <2>1. request[t].wait.began \in Nat /\ now \in Nat
    BY DEF Inv, TypeOK, RequestOK, Free
  <2> QED
    BY <2>1, Numbers DEF Tick
<1>2. TypeOK'
  BY DEF Tick, world, Inv, TypeOK, RequestOK, PageOK, RegistryOK
<1> QED
  BY <1>1, <1>2, WorldStep DEF Tick, world

LEMMA ChangeStep ==
  ASSUME Inv, EstateChanges \/ Outage \/ Recover \/ BeginRewrite \/ EndRewrite PROVE Inv'
<1>1. /\ UNCHANGED <<now, mode, caller, journey, cache, parsed, request, turn, asked, tab>>
      /\ changes' \in Nat
  BY DEF EstateChanges, Outage, Recover, BeginRewrite, EndRewrite, Change, Inv, TypeOK
<1>2. org' \in Nat /\ out' \subseteq Datadog \cup {"policy"}
  BY PortalAssumption
  DEF EstateChanges, Outage, Recover, BeginRewrite, EndRewrite, Inv, TypeOK
<1>3. file' \in Files /\ (file' = file \/ (file'.stamp > file.stamp /\ file'.version >= file.version))
  <2>0. file \in Files /\ file.stamp \in Nat /\ file.version \in Nat /\ now \in Nat
    BY DEF Inv, TypeOK, Files
  <2>1. CASE BeginRewrite
    <3>1. file' = [file EXCEPT !.stamp = file.stamp + 1, !.whole = FALSE]
      BY <2>1 DEF BeginRewrite
    <3>2. file = [version |-> file.version, stamp |-> file.stamp, at |-> file.at,
                  whole |-> file.whole] /\ file.at \in Nat
      BY <2>0 DEF Files
    <3>3. file' = [version |-> file.version, stamp |-> file.stamp + 1, at |-> file.at,
                   whole |-> FALSE]
      BY <3>1, <3>2
    <3> QED
      BY <2>0, <3>2, <3>3 DEF Files
  <2>2. CASE EndRewrite
    <3>1. file' = [version |-> file.version + 1, stamp |-> file.stamp + 1, at |-> now, whole |-> TRUE]
      BY <2>2 DEF EndRewrite, Written
    <3> QED
      BY <2>0, <3>1 DEF Files
  <2>3. CASE file' = file
    BY <2>0, <2>3
  <2> QED
    BY <2>1, <2>2, <2>3 DEF EstateChanges, Outage, Recover
<1>4. TypeOK'
  BY <1>1, <1>2, <1>3 DEF Inv, TypeOK, RequestOK, PageOK, RegistryOK
<1> QED
  BY <1>1, <1>3, <1>4, WaitingFetch, WorldStep

-------------------------------------------------------------------------------
(* The invariant.                                                          *)

LEMMA InvInit == Init => Inv
<1> SUFFICES ASSUME Init PROVE Inv
  OBVIOUS
<1>1. file \in Files
  <2>1. Absent \in Files
    BY DEF Absent, Files
  <2>2. Written(1, 0) \in Files
    BY DEF Init, Written, Files
  <2> QED
    BY <2>1, <2>2 DEF Init
<1>2. cache \in [DOMAIN cache -> Entries] /\ DOMAIN cache = {}
  BY DEF Init
<1>3. DOMAIN request = Threads /\ \A t \in Threads : request[t] = Free
  BY DEF Init
<1>4. tab = [hash |-> tab.hash, rendered |-> tab.rendered, page |-> tab.page]
      /\ tab.page \in [kind : {"loading", "failed"}] /\ tab.page.kind = "loading"
  BY DEF Init
<1>5. TypeOK
  BY <1>1, <1>2, <1>3, <1>4 DEF Init, TypeOK
<1> QED
  BY <1>2, <1>3, <1>4, <1>5 DEF Init, Inv, CacheRight, ScreenRight

LEMMA InvNext == Inv /\ [Next]_vars => Inv'
<1> SUFFICES ASSUME Inv, [Next]_vars PROVE Inv'
  OBVIOUS
<1>1. CASE UNCHANGED vars
  <2>1. TypeOK'
    BY <1>1 DEF vars, Inv, TypeOK, RequestOK, PageOK, RegistryOK
  <2> QED
    BY <1>1, <2>1, WaitingFetch, WorldStep DEF vars
<1>2. ASSUME NEW t \in Threads, Serve(t) \/ Arrive(t) \/ Navigate(t) \/ Call(t) PROVE Inv'
  BY <1>2, ReadOnStep, StartFetchStep, EndFetchStep, StartParseStep, LoadStep, StoreStep,
     RespondStep, ArriveStep, NavigateStep, CallStep DEF Serve
<1>3. CASE Rest
  BY <1>1, <1>3 DEF Rest
<1> QED
  BY <1>1, <1>2, <1>3, TickStep, ChangeStep DEF Next

THEOREM Invariance == Spec => []Inv
BY InvInit, InvNext, PTL DEF Spec

\* Every variable holds what the code can put there.
THEOREM TypeCorrect == Spec => []TypeOK
<1>1. Inv => TypeOK
  BY DEF Inv
<1> QED
  BY <1>1, Invariance, PTL

-------------------------------------------------------------------------------
(* Properties.                                                             *)

\* The page on screen is the one the address names, whatever the order in
\* which the answers to navigations and refreshes arrive (static/app.js).
THEOREM ShownPageIsCurrentHolds == Spec => []ShownPageIsCurrent
<1>1. Inv => ShownPageIsCurrent
  BY DEF Inv, ScreenRight, ShownPageIsCurrent
<1> QED
  BY <1>1, Invariance, PTL

\* Live data on a page is no older, when it was read, than the cache keeps
\* an answer and a fetch may take, whoever else shared it (TTLCache).
THEOREM DataAgeIsBoundedHolds == Spec => []DataAgeIsBounded
<1>1. Inv => DataAgeIsBounded
  BY DEF Inv, Right, Built, AllAged, Aged, DataAgeIsBounded, Answers
<1> QED
  BY <1>1, Invariance, PTL

\* What a request is given of a report is no older than what the disk held
\* when the request began (_cached_parse).
THEOREM ParsedIsCurrentHolds == Spec => []ParsedIsCurrent
<1>1. Inv => ParsedIsCurrent
  BY DEF Inv, Right, NoOlder, ParsedIsCurrent
<1> QED
  BY <1>1, Invariance, PTL

-------------------------------------------------------------------------------
(* What the states of a view stand for.                                    *)

Ranked == {"unknown", "critical", "risk", "watch", "neutral", "ok"}

LEMMA WorstStateIs ==
  ASSUME NEW S, S \subseteq Ranked, S # {}
  PROVE  /\ WorstState(S) \in S
         /\ WorstState(S) = "ok" => S = {"ok"}
<1> DEFINE places == {i \in 1..6 : WorstFirst[i] \in S}
<1>1. DOMAIN WorstFirst = 1..6
  BY DEF WorstFirst
<1>2. \A s \in Ranked : \E i \in 1..6 : WorstFirst[i] = s
  BY DEF WorstFirst, Ranked
<1>3. places # {} /\ places \subseteq 1..6
  BY <1>2
<1>4. PICK m \in places : \A i \in places : m <= i
  <2>1. \A P \in SUBSET (1..6) : P # {} => \E k \in P : \A i \in P : k <= i
    <3> SUFFICES ASSUME NEW P \in SUBSET (1..6), P # {}
                 PROVE  \E k \in P : \A i \in P : k <= i
      OBVIOUS
    <3>1. CASE 1 \in P
      BY <3>1
    <3>2. CASE 1 \notin P /\ 2 \in P
      BY <3>2
    <3>3. CASE 1 \notin P /\ 2 \notin P /\ 3 \in P
      BY <3>3
    <3>4. CASE 1 \notin P /\ 2 \notin P /\ 3 \notin P /\ 4 \in P
      BY <3>4
    <3>5. CASE 1 \notin P /\ 2 \notin P /\ 3 \notin P /\ 4 \notin P /\ 5 \in P
      BY <3>5
    <3>6. CASE 1 \notin P /\ 2 \notin P /\ 3 \notin P /\ 4 \notin P /\ 5 \notin P
      <4>1. \A k \in P : k = 6
        BY <3>6
      <4>2. PICK k \in P : k = 6
        BY <4>1
      <4>3. \A i \in P : k <= i
        BY <4>1, <4>2
      <4> QED
        BY <4>2, <4>3
    <3> QED
      BY <3>1, <3>2, <3>3, <3>4, <3>5, <3>6
  <2> QED
    BY <1>3, <2>1
<1>5. Min(places) \in places /\ \A i \in places : Min(places) <= i
  BY <1>4 DEF Min
<1>6. WorstState(S) = WorstFirst[Min(places)]
  BY <1>1 DEF WorstState
<1>7. WorstState(S) \in S
  BY <1>5, <1>6
<1>8. ASSUME WorstState(S) = "ok"
      PROVE  S = {"ok"}
  <2>1. Min(places) = 6
    BY <1>3, <1>5, <1>6, <1>8 DEF WorstFirst
  <2>2. ASSUME NEW s \in S, s # "ok"
        PROVE  FALSE
    <3>1. PICK i \in 1..5 : WorstFirst[i] = s
      BY <1>2, <2>2 DEF WorstFirst, Ranked
    <3> QED
      BY <1>5, <2>1, <2>2, <3>1
  <2> QED
    BY <2>2, <1>7, <1>8
<1> QED
  BY <1>7, <1>8

\* A green headline has green parts and no blind spot.
LEMMA RollupIsOk ==
  ASSUME NEW S, S \subseteq Ranked, Rollup(S) = "ok"
  PROVE  S \subseteq {"ok"}
<1> DEFINE known == S \ {"unknown"}
<1>1. CASE known = {}
  BY <1>1 DEF Rollup
<1>2. CASE known # {}
  <2>1. ~(known = {"ok"} /\ "unknown" \in S)
    BY <1>2 DEF Rollup
  <2>2. WorstState(known) = "ok"
    BY <1>2, <2>1 DEF Rollup
  <2>3. known = {"ok"}
    BY <1>2, <2>2, WorstStateIs
  <2> QED
    BY <2>1, <2>3
<1> QED
  BY <1>1, <1>2

LEMMA SeverityRanked ==
  ASSUME NEW severity PROVE SeverityState(severity) \in Ranked \ {"ok", "unknown"}
BY DEF SeverityState, Ranked

LEMMA SloRanked ==
  ASSUME NEW row PROVE SloState(row) \in Ranked
BY DEF SloState, Ranked

LEMMA SystemRanked ==
  ASSUME NEW slos, NEW incidents
  PROVE  /\ SystemState(slos, incidents) \in Ranked
         /\ SystemState(slos, incidents) # "unknown" =>
               \/ \E s \in slos : SloState(s) = SystemState(slos, incidents)
               \/ \E i \in incidents : SeverityState(i[1].severity) = SystemState(slos, incidents)
         /\ SystemState(slos, incidents) = "ok" => \A s \in slos : SloState(s) = "ok"
<1> DEFINE states == {SloState(s) : s \in slos} \cup {SeverityState(i[1].severity) : i \in incidents}
<1>1. states \subseteq Ranked
  BY SloRanked, SeverityRanked
<1>2. CASE states = {}
  BY <1>2 DEF SystemState, Ranked
<1>3. CASE states # {}
  <2>1. SystemState(slos, incidents) = WorstState(states)
    BY <1>3 DEF SystemState
  <2>2. WorstState(states) \in states /\ (WorstState(states) = "ok" => states = {"ok"})
    BY <1>1, <1>3, WorstStateIs
  <2> QED
    BY <1>1, <2>1, <2>2
<1> QED
  BY <1>2, <1>3

LEMMA ListSays ==
  ASSUME NEW view, view[1] = "systems", NEW reg, NEW at
  PROVE  Body(view, reg, at).systems = Systems(reg, at)
BY DEF Body

LEMMA OverviewSays ==
  ASSUME NEW view, view[1] = "overview", NEW reg, NEW at
  PROVE  /\ Body(view, reg, at).overall = Overall(reg, Systems(reg, at), Active(reg, at))
         /\ Body(view, reg, at).systems = Systems(reg, at)
<1>1. Body(view, reg, at) = OverviewOf(reg, at, Systems(reg, at))
  BY DEF Body, Overview
<1> QED
  BY <1>1 DEF OverviewOf

LEMMA AnswerBuilt ==
  ASSUME Inv, NEW page \in Answers PROVE Built(page) /\ PageOK(page)
BY DEF Inv, TypeOK, RequestOK, Right, Answers

\* A system the overview or the list calls unhealthy has a page that shows why: the two
\* joins of incidents to systems agree (view.py, systems and system_detail).
LEMMA Explained ==
  ASSUME NEW reg, NEW at, NEW s \in Systems(reg, at), s.state \in {"critical", "risk", "watch"}
  PROVE  \/ \E slo \in SystemDetail(reg, at, s.id).slos : SloState(slo) = s.state
         \/ \E i \in SystemDetail(reg, at, s.id).incidents : SeverityState(i.severity) = s.state
<1> DEFINE slos == Slos(reg)
           active == Active(reg, at)
           services == ServiceModel(reg)
<1>1. Systems(reg, at) = SystemsOf(reg, slos, active, services)
  BY DEF Systems
<1>2. PICK id : s = SystemRow(reg, services, id, SystemSlos(slos, id),
                              SystemIncidents(active, services, id))
  BY <1>1 DEF SystemsOf
<1>3. /\ s.id = id
      /\ s.state = SystemState(SystemSlos(slos, id), SystemIncidents(active, services, id))
  BY <1>2 DEF SystemRow
<1>4. SystemDetail(reg, at, id) = SystemPage(id, Systems(reg, at), slos, active, services)
  BY DEF SystemDetail
<1>5. /\ SystemDetail(reg, at, id).slos = SystemSlos(slos, id)
      /\ SystemDetail(reg, at, id).incidents = SystemIncidentRows(active, services, id)
  BY <1>4 DEF SystemPage
<1> HIDE DEF slos, active, services
<1>6. \/ \E slo \in SystemSlos(slos, id) : SloState(slo) = s.state
      \/ \E i \in SystemIncidents(active, services, id) : SeverityState(i[1].severity) = s.state
  BY <1>3, SystemRanked
<1>7. \A i \in SystemIncidents(active, services, id) :
         i[1] \in SystemIncidentRows(active, services, id)
  BY DEF SystemIncidents, SystemIncidentRows
<1> QED
  BY <1>3, <1>5, <1>6, <1>7

THEOREM DrilldownExplainsHolds == Spec => []DrilldownExplains
<1>1. ASSUME Inv
      PROVE  DrilldownExplains
  <2> SUFFICES ASSUME NEW page \in Answers, page.view[1] \in {"overview", "systems"},
                      NEW s \in page.body.systems, s.state \in {"critical", "risk", "watch"}
               PROVE  \E detail \in {SystemDetail(page.reg, page.at, s.id)} :
                         \/ \E slo \in detail.slos : SloState(slo) = s.state
                         \/ \E i \in detail.incidents : SeverityState(i.severity) = s.state
    BY DEF DrilldownExplains
  <2>1. page.body = Body(page.view, page.reg, page.at)
    BY <1>1, AnswerBuilt DEF Built
  <2>2. s \in Systems(page.reg, page.at)
    BY <2>1, OverviewSays, ListSays
  <2> QED
    BY <2>2, Explained
<1> QED
  BY <1>1, Invariance, PTL

\* A healthy headline is earned: every source was read, no incident
\* is open and every objective of a known system is met (overview).
THEOREM GreenIsSeenHolds == Spec => []GreenIsSeen
<1>1. ASSUME Inv
      PROVE  GreenIsSeen
  <2> SUFFICES ASSUME NEW page \in Answers, page.view[1] = "overview",
                      page.body.overall.state = "ok"
               PROVE  /\ \A source \in Sources : Ok(page.reg, source)
                      /\ \A i \in ParseIncidents(DataOf(page.reg, "incidents"), page.at) : ~i.active
                      /\ \A s \in Slos(page.reg) :
                            s.domain \in DataOf(page.reg, "policy").domains => SloState(s) = "ok"
    BY DEF GreenIsSeen
  <2>1. PICK reg, at : reg = page.reg /\ at = page.at
    OBVIOUS
  <2>2. PICK systems, active : systems = Systems(reg, at) /\ active = Active(reg, at)
    OBVIOUS
  <2>3. /\ Built(page) /\ page.body.overall = Overall(reg, systems, active)
    BY <1>1, <2>1, <2>2, AnswerBuilt, OverviewSays DEF Built
  <2>4. Unavailable(reg) = {} /\ Health(reg, systems, active) = "ok"
    BY <2>3 DEF Overall
  <2>5. \A source \in Sources : Ok(reg, source)
    <3>1. Sources \subseteq DOMAIN reg
      BY <2>1, <2>3, <2>4 DEF Built
    <3> QED
      BY <2>4, <3>1 DEF Unavailable
  <2>6. Ok(reg, "incidents") /\ Ok(reg, "policy") /\ Ok(reg, "slos")
    BY <2>5 DEF Sources, Datadog
  <2>7. \A s \in systems : s.state \in Ranked
    <3> SUFFICES ASSUME NEW s \in systems PROVE s.state \in Ranked
      OBVIOUS
    <3>1. PICK id : s = SystemRow(reg, ServiceModel(reg), id, SystemSlos(Slos(reg), id),
                                  SystemIncidents(active, ServiceModel(reg), id))
      BY <2>2, <2>6 DEF Systems, SystemsOf
    <3> QED
      BY <3>1, SystemRanked DEF SystemRow
  <2>8. {s.state : s \in systems} \cup {SeverityState(i.severity) : i \in active} \subseteq {"ok"}
    <3> DEFINE states == {s.state : s \in systems} \cup {SeverityState(i.severity) : i \in active}
    <3>1. states \cup {} \subseteq Ranked
      BY <2>7, SeverityRanked
    <3>2. Rollup(states \cup {}) = "ok"
      BY <2>4, <2>6 DEF Health
    <3> HIDE DEF states
    <3>3. states \cup {} \subseteq {"ok"}
      BY <3>1, <3>2, RollupIsOk
    <3> QED
      BY <3>3 DEF states
  <2>9. active = {}
    BY <2>8, SeverityRanked
  <2>10. \A i \in ParseIncidents(DataOf(reg, "incidents"), at) : ~i.active
    BY <2>2, <2>6, <2>9 DEF Active, Incidents
  <2>11. ASSUME NEW s \in Slos(reg), s.domain \in DataOf(reg, "policy").domains
         PROVE  SloState(s) = "ok"
    <3> DEFINE row == SystemRow(reg, ServiceModel(reg), s.domain, SystemSlos(Slos(reg), s.domain),
                                SystemIncidents(active, ServiceModel(reg), s.domain))
    <3>1. row \in systems
      BY <2>2, <2>6, <2>11 DEF Systems, SystemsOf
    <3>2. row.state = "ok"
      BY <2>8, <3>1
    <3>3. SystemState(SystemSlos(Slos(reg), s.domain),
                      SystemIncidents(active, ServiceModel(reg), s.domain)) = "ok"
      BY <3>2 DEF SystemRow
    <3>4. s \in SystemSlos(Slos(reg), s.domain)
      BY <2>11 DEF SystemSlos
    <3> QED
      BY <3>3, <3>4, SystemRanked
  <2> QED
    BY <2>1, <2>5, <2>10, <2>11
<1> QED
  BY <1>1, Invariance, PTL

===============================================================================
