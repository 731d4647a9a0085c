-------------------------------- MODULE Portal --------------------------------
(***************************************************************************)
(* The executive portal as it serves a reader: the threads of the server   *)
(* (portal/app/http_app.py), each building one view from a registry of its *)
(* own, the two caches they share (sources.py: answers of Datadog for a    *)
(* bounded time, parsed files by their stamp), the estate, the files and   *)
(* the outages that change under them, and the reader's tab with its       *)
(* router (static/app.js).                                                 *)
(*                                                                         *)
(* Time passes only while every thread waits: the code between two waits   *)
(* takes none.  A thread waits in a fetch of a Slow source and while it    *)
(* parses the Rewritten file; between two waits it runs undisturbed (turn),*)
(* and the reads it makes there on the way are one step.                   *)
(***************************************************************************)
EXTENDS PortalView

CONSTANTS
    Threads,        \* requests the server works on at the same time
    Modes,          \* subset of {"live", "fixture", "replay"}
    Callers,        \* [authenticated, groups] as the proxy asserts them
    RequireSso,     \* PORTAL_REQUIRE_SSO
    ExecGroups,     \* PORTAL_EXEC_GROUPS
    Journeys,       \* sequences of views a reader opens, refreshes or calls
    Slow,           \* Datadog sources whose fetch takes time
    Flaky,          \* sets of sources that may be out together
    Rewritten,      \* the report that is rebuilt while the portal runs
    TTL,            \* cache_ttl_seconds
    MaxFetch,       \* the longest a fetch takes
    StaleAfter,     \* [origin -> age at which a source is called stale]
    Versions,       \* how many states the estate goes through
    MaxChanges,     \* how often estate, report or outages change
    MaxTime         \* the clock stops there

Datadog == {"slos", "incidents", "events", "oncall", "fleet", "cost"}
Reports == {"coverage", "reconciliation", "scorecard"}
Dated == {"coverage", "scorecard"}      \* those that carry generated_at
Sources == Datadog \cup Reports \cup {"policy"}
Views == UNION {{journey[i] : i \in DOMAIN journey} : journey \in Journeys}
Lists == {"systems", "slos"}            \* routes the tab's router has no page for
Kinds == {"overview", "sources", "system", "service", "slo", "incident"} \cup Lists

ASSUME PortalAssumption ==
    /\ Threads # {} /\ Callers # {} /\ Journeys # {}
    /\ Journeys \subseteq Seq(Views) /\ \A view \in Views : view[1] \in Kinds
    /\ Modes \subseteq {"live", "fixture", "replay"} /\ Modes # {}
    /\ Slow \subseteq Datadog /\ Rewritten \in Reports
    /\ \A out \in Flaky : out \subseteq Datadog \cup {"policy"}
    /\ TTL \in Nat /\ MaxFetch \in Nat /\ Versions \in Nat \ {0}
    /\ MaxChanges \in Nat /\ MaxTime \in Nat
    /\ DOMAIN StaleAfter = {"datadog", "report", "fixture"}

VARIABLES
    now,            \* the clock
    mode,           \* how the server was started
    caller,         \* who reads
    org,            \* the version of what Datadog would answer
    journey,        \* the views the reader opens, one after the other
    out,            \* the sources that fail
    file,           \* the Rewritten report under generated/
    cache,          \* TTLCache._entries
    parsed,         \* _parse_cache of the Rewritten report
    request,        \* thread -> what it is doing
    turn,           \* the threads that run: at most one
    changes,        \* changes so far, to bound them
    asked,          \* requests so far
    tab             \* location.hash, RENDERED_HASH and what is on screen

vars == <<now, mode, caller, journey, org, out, file, cache, parsed, request, turn, changes, asked, tab>>
world == <<mode, caller, journey, org, out, file, changes>>

Live == mode = "live"

-----------------------------------------------------------------------------
(* auth.py. *)

Exec(who) == who.authenticated /\ (ExecGroups = {} \/ ExecGroups \cap who.groups # {})
Authorized(who) == Exec(who) \/ (~who.authenticated /\ ~RequireSso)

-----------------------------------------------------------------------------
(* What a view reads next: its sources in the order of its calls, some of  *)
(* them only after what another has said.                                  *)

Then(source, reg, more) == <<source>> \o (IF Ok(reg, source) THEN more ELSE <<>>)

SlosCall(reg) == Then("slos", reg, <<"policy">>)
SystemsCall(reg) == Then("policy", reg, <<"reconciliation", "scorecard">>)

ServiceKnown(reg, name) == name \in DOMAIN ServiceModel(reg)
SloLive(reg, id) == \E s \in Slos(reg) : s.slo_id = id
SloDeclared(reg, id) == id \in DOMAIN CatalogSlos(reg)
IncidentKnown(reg, id) == \E i \in Incidents(reg, now) : i.id = id
Recorded(reg, id) == UNION {i.services : i \in {x \in Incidents(reg, now) : x.id = id}}

Calls(view, reg) ==
    CASE view[1] = "overview" ->
            SlosCall(reg) \o <<"incidents", "events">> \o SystemsCall(reg)
              \o <<"fleet", "coverage", "cost", "reconciliation", "oncall">>
      [] view[1] = "sources" ->
            <<"policy", "coverage", "reconciliation", "scorecard", "slos", "incidents",
              "events", "oncall", "fleet", "cost">>
      [] view[1] \in {"system", "systems"} ->
            SlosCall(reg) \o <<"incidents">> \o SystemsCall(reg)
      [] view[1] = "slos" -> SlosCall(reg)
      [] view[1] = "service" ->
            <<"policy">> \o (IF ServiceKnown(reg, view[2])
                             THEN <<"slos", "incidents", "reconciliation">> ELSE <<>>)
      [] view[1] = "slo" ->
            SlosCall(reg)
              \o (IF "slos" \notin DOMAIN reg THEN <<>>
                  ELSE IF SloLive(reg, view[2]) THEN <<"events", "reconciliation">>
                  ELSE <<"policy">>
                         \o (IF SloDeclared(reg, view[2]) THEN <<"reconciliation">> ELSE <<>>))
      [] view[1] = "incident" ->
            <<"incidents">>
              \o (IF IncidentKnown(reg, view[2]) THEN <<"events">> ELSE <<>>)
              \o (IF Recorded(reg, view[2]) # {} THEN <<"reconciliation">> ELSE <<>>)

CallsOf(t) == Calls(request[t].view, request[t].reg)
\* The places of the calls whose source is not recorded yet, and the source of
\* the first of them.
Unread(calls, reg) == {i \in DOMAIN calls : calls[i] \notin DOMAIN reg}
ToRead(t) == Unread(CallsOf(t), request[t].reg)
NextRead(t) ==
    LET calls == CallsOf(t)
        left == Unread(calls, request[t].reg)
    IN  {calls[i] : i \in {k \in left : \A j \in left : k <= j}}

Found(view, reg) ==
    CASE view[1] = "system" -> \E s \in Systems(reg, now) : s.id = view[2]
      [] view[1] = "service" -> ServiceKnown(reg, view[2])
      [] view[1] = "slo" -> SloLive(reg, view[2]) \/ SloDeclared(reg, view[2])
      [] view[1] = "incident" -> IncidentKnown(reg, view[2])
      [] OTHER -> TRUE

Body(view, reg, at) ==
    CASE view[1] = "overview" -> Overview(reg, at)
      [] view[1] = "sources" -> <<>>
      [] view[1] = "systems" -> [systems |-> Systems(reg, at)]
      [] view[1] = "slos" -> [slos |-> Slos(reg)]
      [] view[1] = "system" -> SystemDetail(reg, at, view[2])
      [] view[1] = "service" -> ServiceDetail(reg, at, view[2])
      [] view[1] = "slo" -> SloDetail(reg, view[2])
      [] view[1] = "incident" -> IncidentDetail(reg, at, view[2])

Failed == [kind |-> "failed"]
Answer(view, reg) ==
    IF ~Found(view, reg) THEN Failed
    ELSE [kind |-> "data", view |-> view, body |-> Body(view, reg, now),
          freshness |-> Freshness(reg), reg |-> reg, at |-> now]

-----------------------------------------------------------------------------
(* sources.py: one read is recorded.  began is when the upstream was asked. *)

Result(origin, version, produced, began) ==
    [origin |-> origin, version |-> version, produced |-> produced, began |-> began,
     read |-> now, status |-> IF origin # "policy" /\ now - produced > StaleAfter[origin]
                THEN "stale" ELSE "ok"]
NoResult(origin) ==
    [origin |-> origin, version |-> 0, produced |-> now, began |-> now,
     read |-> now, status |-> "unavailable"]

Free == [phase |-> "free"]
Absent == [version |-> 0, stamp |-> 0, at |-> 0, whole |-> TRUE]
Written(version, stamp) == [version |-> version, stamp |-> stamp, at |-> now, whole |-> TRUE]

\* A dictionary's assignment.
Put(f, key, value) == [k \in DOMAIN f \cup {key} |-> IF k = key THEN value ELSE f[k]]

Init ==
    /\ now = 0
    /\ mode \in Modes
    /\ caller \in Callers
    /\ journey \in Journeys
    /\ org = 1
    /\ out = {}
    /\ file \in {Absent, Written(1, 0)}
    /\ cache = <<>>
    /\ parsed = {}
    /\ request = [t \in Threads |-> Free]
    /\ turn = {}
    /\ changes = 0 /\ asked = 0
    /\ tab = [hash |-> <<"none">>, rendered |-> <<"none">>, page |-> [kind |-> "loading"]]

-----------------------------------------------------------------------------
(* The reader's tab: router() of static/app.js. *)

\* (The answer to an older navigation is taken like any other.)
SupersededNever == request

\* Every navigation takes a new token: no older one is current any more.
Superseded == [t \in Threads |-> IF request[t] = Free THEN Free
                                 ELSE [request[t] EXCEPT !.current = FALSE]]

Asked(view) ==
    [phase |-> IF Authorized(caller) THEN "reading" ELSE "answered", view |-> view,
     current |-> TRUE, reg |-> <<>>, answer |-> Failed, wait |-> <<>>, base |-> file.version]

\* A view other than the one on screen clears it; a refresh leaves it.
Navigate(t) ==
    /\ turn = {} /\ request[t] = Free
    /\ asked < Len(journey) /\ asked' = asked + 1
    /\ journey[asked'][1] \notin Lists
    /\ request' = [Superseded EXCEPT ![t] = Asked(journey[asked'])]
    /\ turn' = IF Authorized(caller) THEN {t} ELSE {}
    /\ tab' = [tab EXCEPT !.hash = journey[asked'],
                          !.page = IF journey[asked'] = tab.rendered THEN @ ELSE [kind |-> "loading"]]
    /\ UNCHANGED <<now, world, cache, parsed>>

\* A list is asked for past the tab, which takes no note of the answer.
Call(t) ==
    /\ turn = {} /\ request[t] = Free
    /\ asked < Len(journey) /\ asked' = asked + 1
    /\ journey[asked'][1] \in Lists
    /\ request' = [request EXCEPT ![t] = [Asked(journey[asked']) EXCEPT !.current = FALSE]]
    /\ turn' = IF Authorized(caller) THEN {t} ELSE {}
    /\ UNCHANGED <<now, world, cache, parsed, tab>>

Arrive(t) ==
    /\ request[t].phase = "answered"
    /\ tab' = IF ~request[t].current THEN tab
              ELSE IF request[t].answer = Failed THEN [tab EXCEPT !.page = Failed]
              ELSE [tab EXCEPT !.page = [kind |-> "data", view |-> request[t].view],
                               !.rendered = tab.hash]
    /\ request' = [request EXCEPT ![t] = Free]
    /\ UNCHANGED <<now, world, cache, parsed, turn, asked>>

-----------------------------------------------------------------------------
(* A thread: http_app.route over a SourceRegistry of its own. *)

Running(t) == turn = {t} /\ request[t].phase = "reading"

Record(t, source, result) ==
    /\ LET x == request[t]
       IN  request' = [request EXCEPT ![t] = [x EXCEPT !.phase = "reading", !.wait = <<>>,
                                                       !.reg = Put(x.reg, source, result)]]
    /\ turn' = {t}

Wait(t, phase, for) ==
    /\ request' = [request EXCEPT ![t] = [request[t] EXCEPT !.phase = phase, !.wait = for]]
    /\ turn' = {}

\* The view is built from what was read and leaves for the browser.
Respond(t) ==
    /\ Running(t) /\ ToRead(t) = {}
    /\ LET x == request[t]
       IN  request' = [request EXCEPT ![t] = [x EXCEPT !.phase = "answered", !.reg = <<>>, !.base = 0,
                                                       !.answer = Answer(x.view, x.reg)]]
    /\ turn' = {}
    /\ UNCHANGED <<now, world, cache, parsed, asked, tab>>

\* TTLCache.get: what is not older than the TTL since it was put.
Entry(source) ==
    IF source \in DOMAIN cache /\ now - cache[source].put <= TTL THEN {cache[source]} ELSE {}

Fetched(version, began) == [version |-> version, put |-> now, began |-> began]
FromDatadog(entry) == Result("datadog", entry.version, entry.put, entry.began)

\* datadog() of the registry: a recording, which a replay moves to now, or
\* the cache, or Datadog.
ReadDatadog(source) ==
    IF ~Live THEN Result("fixture", 0, IF mode = "replay" THEN now ELSE 0, now)
    ELSE IF Entry(source) # {} THEN FromDatadog(The(Entry(source)))
    ELSE IF source \in out THEN NoResult("datadog")
    ELSE FromDatadog(Fetched(org, now))

\* (An entry that is used lives on.)
CachedWithRenewal(sources) ==
    [s \in (DOMAIN cache \cup (sources \ out)) |->
        IF s \notin sources THEN cache[s]
        ELSE IF Entry(s) # {} THEN [cache[s] EXCEPT !.put = now] ELSE Fetched(org, now)]

\* What expired is dropped when it is asked for; a failure is not kept.
Cached(sources) ==
    LET asking == {s \in sources : Entry(s) = {}}
    IN  [s \in (DOMAIN cache \ asking) \cup (asking \ out) |->
            IF s \in asking THEN Fetched(org, now) ELSE cache[s]]

\* A list carries no date: its file is asked once more for its own.
DateOf(content) == IF Rewritten \in Dated THEN content.at ELSE file.at
FromFile(content) == Result("report", content.version, DateOf(content), now)

\* The committed fixture stands in for a report that was never generated;
\* what was parsed under the file's signature is used again.
ParsedNow == {entry \in parsed : entry.stamp = file.stamp}
ReadReport(source) ==
    IF source # Rewritten THEN Result("report", 1, 0, now)
    ELSE IF file = Absent THEN Result("fixture", 0, 0, now)
    ELSE FromFile(The(ParsedNow))

ReadPolicy == IF "policy" \in out THEN NoResult("policy") ELSE Result("policy", 1, 0, now)

Read(source) ==
    CASE source \in Datadog -> ReadDatadog(source)
      [] source \in Reports -> ReadReport(source)
      [] OTHER -> ReadPolicy

MustWait(source) ==
    \/ Live /\ source \in Slow /\ Entry(source) = {}
    \/ source = Rewritten /\ file # Absent /\ ParsedNow = {}

\* The reads up to the next wait, or to an answer on which the next depend.
Together(t) ==
    LET calls == CallsOf(t)
        left == Unread(calls, request[t].reg)
        waits == {i \in left : MustWait(calls[i])}
        decides == {i \in left : calls[i] \in {"slos", "policy", "incidents"}}
    IN  {calls[k] : k \in {i \in left : /\ \A j \in waits : i < j
                                       /\ \A j \in decides : i <= j}}

ReadOn(t) ==
    /\ Running(t)
    /\ LET x == request[t]
           next == Together(t)
           both == [s \in DOMAIN x.reg \cup next |-> IF s \in next THEN Read(s) ELSE x.reg[s]]
       IN  /\ next # {}
           /\ request' = [request EXCEPT ![t] = [x EXCEPT !.reg = both]]
           /\ cache' = IF Live THEN Cached(next \cap Datadog) ELSE cache
    /\ UNCHANGED <<now, world, parsed, turn, asked, tab>>

StartFetch(t) ==
    /\ Running(t)
    /\ \E source \in NextRead(t) \cap Slow :
          /\ MustWait(source)
          /\ cache' = [s \in DOMAIN cache \ {source} |-> cache[s]]
          /\ Wait(t, "fetching", [source |-> source, began |-> now, org |-> org])
    /\ UNCHANGED <<now, world, parsed, asked, tab>>

\* Datadog answered for some moment of the fetch; the answer is dated when it
\* has arrived.
EndFetch(t) ==
    /\ turn = {} /\ request[t].phase = "fetching"
    /\ LET w == request[t].wait
       IN  IF w.source \in out
           THEN Record(t, w.source, NoResult("datadog")) /\ UNCHANGED cache
           ELSE \E version \in w.org..org :
                   /\ cache' = Put(cache, w.source, Fetched(version, w.began))
                   /\ Record(t, w.source, FromDatadog(Fetched(version, w.began)))
    /\ UNCHANGED <<now, world, parsed, asked, tab>>

\* The signature is taken before the file is read.
StartParse(t) ==
    /\ Running(t) /\ Rewritten \in NextRead(t) /\ MustWait(Rewritten)
    /\ Wait(t, "parsing", [stamp |-> file.stamp])
    /\ UNCHANGED <<now, world, cache, parsed, asked, tab>>

\* A file that is being written does not parse.
Load(t) ==
    /\ turn = {} /\ request[t].phase = "parsing"
    /\ IF file.whole
       THEN Wait(t, "storing", [stamp |-> request[t].wait.stamp,
                                version |-> file.version, at |-> file.at])
       ELSE Record(t, Rewritten, NoResult("report"))
    /\ UNCHANGED <<now, world, cache, parsed, asked, tab>>

\* (What was read is kept under the file's present signature.)
KeptLate(content) == {[content EXCEPT !.stamp = file.stamp]}
Kept(content) == {content}

Store(t) ==
    /\ turn = {} /\ request[t].phase = "storing"
    /\ LET content == request[t].wait
       IN  /\ parsed' = Kept(content)
           /\ Record(t, Rewritten, FromFile(content))
    /\ UNCHANGED <<now, world, cache, asked, tab>>

-----------------------------------------------------------------------------
(* The world around it. *)

\* Nobody computes: every thread is free, has answered or waits for Datadog.
Quiet ==
    /\ turn = {}
    /\ \A t \in Threads : request[t].phase \in {"free", "answered", "fetching"}

Tick ==
    /\ Quiet /\ now < MaxTime
    /\ \A t \in Threads :
          request[t].phase = "fetching" => now - request[t].wait.began < MaxFetch
    /\ now' = now + 1
    /\ UNCHANGED <<world, cache, parsed, request, turn, asked, tab>>

Change == turn = {} /\ changes < MaxChanges /\ changes' = changes + 1

EstateChanges ==
    /\ Live /\ org < Versions /\ Change
    /\ org' = org + 1
    /\ UNCHANGED <<now, mode, caller, journey, out, file, cache, parsed, request, turn, asked, tab>>

Outage ==
    /\ Live /\ Change
    /\ out' \in Flaky \ {out}
    /\ UNCHANGED <<now, mode, caller, journey, org, file, cache, parsed, request, turn, asked, tab>>

Recover ==
    /\ turn = {} /\ out # {}
    /\ out' = {}
    /\ UNCHANGED <<now, mode, caller, journey, org, file, changes, cache, parsed, request, turn, asked, tab>>

\* The report is rebuilt in place: truncated, then written.
BeginRewrite ==
    /\ file.whole /\ Change
    /\ file' = [file EXCEPT !.stamp = @ + 1, !.whole = FALSE]
    /\ UNCHANGED <<now, mode, caller, journey, org, out, cache, parsed, request, turn, asked, tab>>

EndRewrite ==
    /\ turn = {} /\ ~file.whole
    /\ file' = Written(file.version + 1, file.stamp + 1)
    /\ UNCHANGED <<now, mode, caller, journey, org, out, changes, cache, parsed, request, turn, asked, tab>>

\* The reader reads.
Rest ==
    /\ \A t \in Threads : request[t] = Free
    /\ UNCHANGED vars

Serve(t) ==
    \/ ReadOn(t) \/ StartFetch(t) \/ EndFetch(t) \/ StartParse(t) \/ Load(t) \/ Store(t)
    \/ Respond(t)

Next ==
    \/ \E t \in Threads : Serve(t) \/ Arrive(t) \/ Navigate(t) \/ Call(t)
    \/ Tick \/ EstateChanges \/ Outage \/ Recover \/ BeginRewrite \/ EndRewrite \/ Rest

Spec == Init /\ [][Next]_vars

-----------------------------------------------------------------------------
(* Properties *)

Results == [origin : {"datadog", "report", "policy", "fixture"}, version : Nat,
            produced : Nat, began : Nat, read : Nat, status : {"ok", "stale", "unavailable"}]
Entries == [version : Nat, put : Nat, began : Nat]
Files == [version : Nat, stamp : Nat, at : Nat, whole : BOOLEAN]
Parses == [stamp : Nat, version : Nat, at : Nat]

RegistryOK(reg) == DOMAIN reg \subseteq Sources /\ reg \in [DOMAIN reg -> Results]

PageOK(page) ==
    /\ page = [kind |-> "data", view |-> page.view, body |-> page.body,
               freshness |-> page.freshness, reg |-> page.reg, at |-> page.at]
    /\ RegistryOK(page.reg) /\ page.at \in Nat

RequestOK(x) ==
    /\ x = [phase |-> x.phase, view |-> x.view, current |-> x.current, reg |-> x.reg,
            answer |-> x.answer, wait |-> x.wait, base |-> x.base]
    /\ x.phase \in {"reading", "fetching", "parsing", "storing", "answered"}
    /\ x.view \in Views /\ x.current \in BOOLEAN /\ x.base \in Nat
    /\ RegistryOK(x.reg)
    /\ x.answer = Failed \/ PageOK(x.answer)
    /\ x.phase = "fetching" => x.wait \in [source : Slow, began : Nat, org : Nat]
    /\ x.phase = "parsing" => x.wait \in [stamp : Nat]
    /\ x.phase = "storing" => x.wait \in Parses

\* Every variable holds what the code can put there: a registry holds
\* results of the ten sources, a thread that waits knows what for.
TypeOK ==
    /\ now \in Nat /\ org \in Nat /\ changes \in Nat /\ asked \in Nat
    /\ mode \in Modes /\ caller \in Callers /\ journey \in Journeys
    /\ out \subseteq Datadog \cup {"policy"}
    /\ file \in Files
    /\ DOMAIN cache \subseteq Datadog /\ cache \in [DOMAIN cache -> Entries]
    /\ parsed \subseteq Parses
    /\ DOMAIN request = Threads
    /\ \A t \in Threads : request[t] = Free \/ RequestOK(request[t])
    /\ turn \subseteq Threads
    /\ tab = [hash |-> tab.hash, rendered |-> tab.rendered, page |-> tab.page]
    /\ \/ tab.page \in [kind : {"loading", "failed"}]
       \/ tab.page \in [kind : {"data"}, view : Views]

Answers == {request[t].answer : t \in {x \in Threads : request[x] # Free}} \ {Failed}

\* The page on screen is the one the address names, whatever the order in
\* which the answers to several navigations and refreshes arrive
\* (static/app.js, NAVIGATION and RENDERED_HASH).
ShownPageIsCurrent == tab.page.kind = "data" => tab.page.view = tab.hash

\* Live data on a page was asked of Datadog no longer ago, when it was read,
\* than the cache keeps an answer and a fetch may take, however many
\* requests shared it and whichever of two racing fetches stored its answer
\* last; and the age the page states is short by a fetch at most.
DataAgeIsBounded ==
    \A page \in Answers : \A source \in DOMAIN page.reg :
        LET r == page.reg[source]
        IN  r.origin = "datadog" /\ r.status # "unavailable" =>
               /\ r.read - r.began <= TTL + MaxFetch
               /\ r.produced - r.began <= MaxFetch

\* A healthy headline is earned: every source was read, no incident is open,
\* and every objective of a known system is met.
GreenIsSeen ==
    \A page \in Answers :
        page.view[1] = "overview" /\ page.body.overall.state = "ok" =>
            /\ \A source \in Sources : Ok(page.reg, source)
            /\ \A i \in ParseIncidents(DataOf(page.reg, "incidents"), page.at) : ~i.active
            /\ \A s \in Slos(page.reg) :
                  s.domain \in DataOf(page.reg, "policy").domains => SloState(s) = "ok"

\* What a request is given of a report is no older than what the disk held
\* when the request began, whichever thread parsed the file and whatever
\* rewrote it meanwhile (sources.py, _cached_parse: the signature is taken
\* before the file is read).
ParsedIsCurrent ==
    \A t \in Threads :
        request[t] # Free /\ Rewritten \in DOMAIN request[t].reg =>
            LET r == request[t].reg[Rewritten]
            IN  r.status = "unavailable" \/ r.version >= request[t].base

\* A system the overview or the list calls unhealthy has a page that shows why:
\* one of its objectives or incidents is in that state there.
DrilldownExplains ==
    \A page \in Answers :
        page.view[1] \in {"overview", "systems"} =>
            \A s \in page.body.systems :
                s.state \in {"critical", "risk", "watch"} =>
                    \E detail \in {SystemDetail(page.reg, page.at, s.id)} :
                        \/ \E slo \in detail.slos : SloState(slo) = s.state
                        \/ \E i \in detail.incidents : SeverityState(i.severity) = s.state

\* What the headline's sentence promises to say: a running P1, always
\* (view.py, _overall_note).
P1IsStated ==
    \A page \in Answers :
        page.view[1] = "overview" /\ page.body.panels.p1.state = "critical" =>
            "P1" \in page.body.overall.note

===============================================================================
