---------------------------- MODULE RunbookPublish ----------------------------
(***************************************************************************)
(* The runbook notebooks of the organisation and the programs that write   *)
(* them: tools/publish_runbooks.py, tools/catalog_reconcile.py and the     *)
(* requests of obs_common.dd_request.                                      *)
(*                                                                         *)
(* A publisher works from a checkout: the sources, and the registry with   *)
(* the notebook ids recorded so far.  What it learns it writes into the    *)
(* checkout, and the deploy workflow pushes that to the repository unless  *)
(* the branch has moved.  One request is one step, and a run may die       *)
(* between any two.                                                        *)
(*                                                                         *)
(* A runbook stands for its file, its registry key and the notebook name   *)
(* "Runbook: <title>".  A version stands for a text and for its hash.      *)
(***************************************************************************)
EXTENDS Integers, Sequences, SequencesExt

CONSTANTS
  Runbooks,     \* runbooks that are or will be registered
  AtFirst,      \* those registered at first, not yet published
  OtherNames,   \* names of other notebooks of type runbook
  Deploys,      \* jobs that run publish_runbooks.py --write-registry
  Checks,       \* jobs that run publish_runbooks.py --check
  Entities, AutoCreated, OtherServices, \* names of the service catalog
  Attempts,     \* dd_request: attempts
  MaxDelete,    \* catalog_reconcile: --max-delete
  EntityViews,  \* what catalog_reconcile may find of platform/entities
  MaxVersion, MaxId, MaxByHand, MaxFaults \* bounds

ASSUME PublishAssumption ==
  /\ AtFirst \subseteq Runbooks
  /\ Attempts \in Nat \ {0}
  /\ EntityViews \subseteq SUBSET Entities
  /\ {MaxDelete, MaxId, MaxByHand, MaxFaults} \subseteq Nat
  /\ MaxVersion \in Nat \ {0}

VARIABLES
  repo,      \* the branch: runbook -> its source and its recorded id
  notebooks, \* the organisation's notebooks, in the order of `modified`
  services,  \* the organisation's service definitions
  nextId,    \* id of the next notebook
  run,       \* publisher -> its run
  rec,       \* the reconciler's run
  byHand,    \* commits and changes by people so far
  faults,    \* requests and runs that failed so far
  \* history
  extra      \* runbook -> notebooks of its name that an accident explains

org   == <<notebooks, services, nextId>>
count == <<byHand, faults, extra>>
vars  == <<repo, org, run, rec, count>>

Publishers == Deploys \cup Checks

Versions     == 0..MaxVersion
Stub         == 0      \* a source with a placeholder; a notebook with no hash
Unregistered == -1
NoId         == 0
Ids          == 1..MaxId
Notebook     == [id: Ids, name: Runbooks \cup OtherNames, stamp: Versions]
Checkout     == [source: [Runbooks -> {Unregistered} \cup Versions],
                 id: [Runbooks -> {NoId} \cup Ids]]
Services     == Entities \cup AutoCreated \cup OtherServices

Idle == [step |-> "idle"]

\* A run between two sources, and one with a request to make first.
Going   == [step: {"next"}, from: Checkout, remote: Seq(Notebook),
            todo: SUBSET Runbooks, drift: SUBSET Runbooks,
            assigned: [Runbooks -> {NoId} \cup Ids]]
Request == [step: {"write"}, id: {NoId} \cup Ids, name: Runbooks,
            tries: 1..Attempts, then: Going]
Runs    == {Idle} \cup [step: {"list"}, from: Checkout] \cup Going \cup Request
             \cup [step: {"green", "red"}]

\* What a reconciler may remove, and its runs.
Removable == ({"service"} \X Services) \cup ({"notebook"} \X Ids)
Removing  == [step: {"delete"}, todo: SUBSET Removable, all: SUBSET Removable,
              failed: SUBSET Removable, from: Checkout]
RecRuns   == {Idle} \cup [step: {"list"}, from: Checkout, entities: EntityViews]
               \cup Removing \cup [step: {"green", "red"}, all: SUBSET Removable]

Registered(c) == {r \in Runbooks : c.source[r] # Unregistered}
Live(id)      == {n \in Range(notebooks) : n.id = id}
Called(name)  == {n \in Range(notebooks) : n.name = name}

TypeOK ==
  /\ repo \in Checkout
  /\ notebooks \in Seq(Notebook)
  /\ services \subseteq Services
  /\ nextId \in 1..(MaxId + 1)
  /\ run \in [Publishers -> Runs]
  /\ rec \in RecRuns
  /\ byHand \in 0..MaxByHand /\ faults \in 0..MaxFaults
  /\ extra \in [Runbooks -> Nat]

Init ==
  /\ repo = [source |-> [r \in Runbooks |-> IF r \in AtFirst THEN 1 ELSE Unregistered],
             id |-> [r \in Runbooks |-> NoId]]
  /\ notebooks = <<>>
  /\ services = Services
  /\ nextId = 1
  /\ run = [p \in Publishers |-> Idle]
  /\ rec = Idle
  /\ byHand = 0 /\ faults = 0
  /\ extra = [r \in Runbooks |-> 0]

-------------------------------------------------------------------------------
(* The notebooks.                                                          *)

Without(id) ==
  IF Live(id) = {} THEN notebooks
  ELSE RemoveAt(notebooks, CHOOSE i \in DOMAIN notebooks : notebooks[i].id = id)

Created(name, stamp) ==
  /\ nextId \in Ids
  /\ notebooks' = Append(notebooks, [id |-> nextId, name |-> name, stamp |-> stamp])
  /\ nextId' = nextId + 1
  /\ UNCHANGED services

Written(id, name, stamp) ==
  /\ notebooks' = Append(Without(id), [id |-> id, name |-> name, stamp |-> stamp])
  /\ UNCHANGED <<services, nextId>>

-------------------------------------------------------------------------------
(* A run of the publisher.                                                 *)

Fault == faults < MaxFaults /\ faults' = faults + 1 /\ UNCHANGED byHand

\* Validation: no placeholder.  A check also wants every id.
Refused(p) ==
  \E r \in Registered(repo) :
    \/ repo.source[r] = Stub
    \/ p \in Checks /\ repo.id[r] = NoId

Start(p) ==
  /\ run[p] = Idle
  /\ ~Refused(p)
  /\ run' = [run EXCEPT ![p] = [step |-> "list", from |-> repo]]
  /\ UNCHANGED <<repo, org, rec, count>>

List(p) ==
  /\ run[p].step = "list"
  /\ run' = [run EXCEPT ![p] =
       [step |-> "next", from |-> @.from, remote |-> notebooks,
        todo |-> Registered(@.from), drift |-> {}, assigned |-> @.from.id]]
  /\ UNCHANGED <<repo, org, rec, count>>

\* (What exists is not looked up.)
AdoptedNever(x, r) == NoId

\* The newest listed notebook of the name.
Adopted(x, r) ==
  LET same == {i \in DOMAIN x.remote : x.remote[i].name = r}
  IN IF same = {} THEN NoId ELSE x.remote[Max(same)].id

Target(x, r) == IF x.from.id[r] # NoId THEN x.from.id[r] ELSE Adopted(x, r)

InSync(c, id, r) == \E n \in Live(id) : n.stamp = c.source[r]

\* One source: the notebook that is there decides between nothing, a PUT and
\* a POST.
Examine(p) ==
  /\ run[p].step = "next" /\ run[p].todo # {}
  /\ LET x  == run[p]
         r  == CHOOSE s \in x.todo : TRUE
         id == Target(x, r)
         rest  == [x EXCEPT !.todo = @ \ {r}]
         drift == [rest EXCEPT !.drift = @ \cup {r}]
     IN run' = [run EXCEPT ![p] =
          IF id # NoId /\ InSync(x.from, id, r) THEN [rest EXCEPT !.assigned[r] = id]
          ELSE IF p \in Checks THEN drift
          ELSE [step |-> "write", id |-> id, name |-> r, tries |-> 1, then |-> drift]]
  /\ UNCHANGED <<repo, org, rec, count>>

Writing(p, put) == run[p].step = "write" /\ (run[p].id # NoId <=> put)

Answered(p, id) ==
  LET x == run[p]
  IN run' = [run EXCEPT ![p] = [x.then EXCEPT !.assigned[x.name] = id]]

\* dd_request: again until the attempts are used up, and then raise.
Retried(p) ==
  LET x == run[p]
  IN run' = [run EXCEPT ![p] =
       IF x.tries = Attempts THEN Idle ELSE [x EXCEPT !.tries = x.tries + 1]]

Put(p) ==
  /\ Writing(p, TRUE) /\ Live(run[p].id) # {}
  /\ Written(run[p].id, run[p].name, run[p].then.from.source[run[p].name])
  /\ Answered(p, run[p].id)
  /\ UNCHANGED <<repo, rec, count>>

\* The notebook is gone: 404, raise_for_status.
PutGone(p) ==
  /\ Writing(p, TRUE) /\ Live(run[p].id) = {}
  /\ run' = [run EXCEPT ![p] = Idle]
  /\ UNCHANGED <<repo, org, rec, count>>

\* History: the notebook is a second one because someone wrote the first after
\* this run had listed them.
Overtaken(x) ==
  /\ Called(x.name) # {}
  /\ \A n \in Range(x.then.remote) : n.name # x.name

Posted(x) ==
  /\ Created(x.name, x.then.from.source[x.name])
  /\ extra' = [extra EXCEPT ![x.name] = IF Overtaken(x) THEN @ + 1 ELSE @]
  /\ UNCHANGED <<repo, rec, byHand>>

Post(p) ==
  /\ Writing(p, FALSE)
  /\ Posted(run[p])
  /\ Answered(p, nextId)
  /\ UNCHANGED faults

\* The notebook is created and the answer is a 5xx: the POST is repeated.
PostLost(p) ==
  /\ Writing(p, FALSE) /\ Fault
  /\ Posted(run[p])
  /\ Retried(p)

\* 429 or 5xx and nothing done.
WriteRefused(p) ==
  /\ run[p].step = "write" /\ Fault
  /\ Retried(p)
  /\ UNCHANGED <<repo, org, rec, extra>>

\* (The registry stays in the checkout.)
RecordNothing(p) ==
  /\ p \in Deploys /\ run[p].step = "next" /\ run[p].todo = {}
  /\ run' = [run EXCEPT ![p] = Idle]
  /\ UNCHANGED <<repo, org, rec, count>>

\* The end of a publication: the workflow commits the registry that
\* write_registry_ids left in the checkout, and pushes it unless the branch
\* has moved.
Record(p) ==
  /\ p \in Deploys /\ run[p].step = "next" /\ run[p].todo = {}
  /\ repo' = IF repo = run[p].from THEN [repo EXCEPT !.id = run[p].assigned] ELSE repo
  /\ run' = [run EXCEPT ![p] = Idle]
  /\ UNCHANGED <<org, rec, count>>

\* The end of a check: its exit status.
Exit(p) ==
  /\ p \in Checks /\ run[p].step = "next" /\ run[p].todo = {}
  /\ run' = [run EXCEPT ![p] = [step |-> IF @.drift = {} THEN "green" ELSE "red"]]
  /\ UNCHANGED <<repo, org, rec, count>>

Leave(p) ==
  /\ run[p].step \in {"green", "red"}
  /\ run' = [run EXCEPT ![p] = Idle]
  /\ UNCHANGED <<repo, org, rec, count>>

Die(p) ==
  /\ run[p] # Idle /\ Fault
  /\ run' = [run EXCEPT ![p] = Idle]
  /\ UNCHANGED <<repo, org, rec, extra>>

-------------------------------------------------------------------------------
(* A run of the reconciler with --delete.                                  *)

RecStart ==
  /\ rec = Idle
  /\ \E view \in EntityViews :
       rec' = [step |-> "list", from |-> repo, entities |-> view]
  /\ UNCHANGED <<repo, org, run, count>>

\* (By id alone.)
ManagedNotebookById(n) ==
  n.id \in {rec.from.id[r] : r \in Registered(rec.from)}

\* The name is what protects a runbook whose id is not recorded yet.
ManagedNotebook(n) ==
  LET c == rec.from
  IN n.id \in {c.id[r] : r \in Registered(c)} \/ n.name \in Registered(c)

UnmanagedNotebooks == {n.id : n \in {m \in Range(notebooks) : ~ManagedNotebook(m)}}
UnmanagedServices  == (services \ rec.entities) \ AutoCreated

Targets == {<<"service", name>> : name \in UnmanagedServices}
             \cup {<<"notebook", id>> : id \in UnmanagedNotebooks}

NothingManaged ==
  /\ services \cap rec.entities = {}
  /\ \A n \in Range(notebooks) : ~ManagedNotebook(n)

RecList ==
  /\ rec.step = "list"
  /\ rec' = IF NothingManaged \/ Cardinality(Targets) > MaxDelete THEN Idle
            ELSE [step |-> "delete", todo |-> Targets, all |-> Targets,
                  failed |-> {}, from |-> rec.from]
  /\ UNCHANGED <<repo, org, run, count>>

Present(t) == IF t[1] = "service" THEN t[2] \in services ELSE Live(t[2]) # {}

Removed(t) ==
  /\ UNCHANGED nextId
  /\ IF t[1] = "service"
     THEN services' = services \ {t[2]} /\ UNCHANGED notebooks
     ELSE notebooks' = Without(t[2]) /\ UNCHANGED services

\* (The last answer decides.)
DeleteLastOnly(t) ==
  /\ rec.step = "delete" /\ t \in rec.todo
  /\ rec' = [rec EXCEPT !.todo = @ \ {t},
                        !.failed = IF Present(t) THEN {} ELSE {t}]
  /\ Removed(t)
  /\ UNCHANGED <<repo, run, count>>

\* One request: what is gone already, or refused, is a failure.
Delete(t) ==
  /\ rec.step = "delete" /\ t \in rec.todo
  /\ rec' = [rec EXCEPT !.todo = @ \ {t},
                        !.failed = IF Present(t) THEN @ ELSE @ \cup {t}]
  /\ Removed(t)
  /\ UNCHANGED <<repo, run, count>>

\* (What went wrong is forgotten.)
DeleteFailedSilently(t, done) ==
  /\ rec.step = "delete" /\ t \in rec.todo /\ Fault
  /\ rec' = [rec EXCEPT !.todo = @ \ {t}]
  /\ IF done THEN Removed(t) ELSE UNCHANGED org
  /\ UNCHANGED <<repo, run, extra>>

\* A 409, or a 5xx after the last attempt, or a deletion that was done and
\* answered with an error: the repeated request finds nothing.
DeleteFailed(t, done) ==
  /\ rec.step = "delete" /\ t \in rec.todo /\ Fault
  /\ rec' = [rec EXCEPT !.todo = @ \ {t}, !.failed = @ \cup {t}]
  /\ IF done THEN Removed(t) ELSE UNCHANGED org
  /\ UNCHANGED <<repo, run, extra>>

RecExit ==
  /\ rec.step = "delete" /\ rec.todo = {}
  /\ rec' = [step |-> IF rec.failed = {} THEN "green" ELSE "red", all |-> rec.all]
  /\ UNCHANGED <<repo, org, run, count>>

RecLeave ==
  /\ rec.step \in {"green", "red"}
  /\ rec' = Idle
  /\ UNCHANGED <<repo, org, run, count>>

-------------------------------------------------------------------------------
(* People: commits to the repository, and the notebooks in the application.*)

ByHand == byHand < MaxByHand /\ byHand' = byHand + 1 /\ UNCHANGED <<run, rec, faults>>

\* A new runbook, or a new text.
Commit(r, v) ==
  /\ ByHand
  /\ v # repo.source[r]
  /\ repo' = [repo EXCEPT !.source[r] = v]
  /\ UNCHANGED <<org, extra>>

HandWrite(name) ==
  /\ ByHand
  /\ Created(name, Stub)
  /\ extra' = [r \in Runbooks |->
       IF r = name /\ Called(r) # {} THEN extra[r] + 1 ELSE extra[r]]
  /\ UNCHANGED repo

HandEdit(n) ==
  /\ ByHand
  /\ Written(n.id, n.name, Stub)
  /\ UNCHANGED <<repo, extra>>

HandRemove(n) ==
  /\ ByHand
  /\ notebooks' = Without(n.id)
  /\ UNCHANGED <<repo, services, nextId, extra>>

-------------------------------------------------------------------------------
\* A job that has started.
Proceed(p) ==
  \/ List(p) \/ Examine(p)
  \/ Put(p) \/ PutGone(p) \/ Post(p)
  \/ Record(p) \/ Exit(p) \/ Leave(p)

Publish(p) == Start(p) \/ Proceed(p)

Fail(p) == PostLost(p) \/ WriteRefused(p) \/ Die(p)

Reconcile ==
  \/ RecStart \/ RecList \/ RecExit \/ RecLeave
  \/ /\ rec.step = "delete"
     /\ \E t \in rec.todo :
          Delete(t) \/ \E done \in BOOLEAN : DeleteFailed(t, done)

People ==
  \/ \E r \in Runbooks, v \in Versions : Commit(r, v)
  \/ \E name \in Runbooks \cup OtherNames : HandWrite(name)
  \/ \E n \in Range(notebooks) : HandEdit(n) \/ HandRemove(n)

Next == People \/ Reconcile \/ \E p \in Publishers : Publish(p) \/ Fail(p)

\* A job goes on once it runs.  A deploy starts when people push or dispatch it,
\* so that nothing says one ever does.
Spec == Init /\ [][Next]_vars /\ \A p \in Publishers : WF_vars(Proceed(p))

-------------------------------------------------------------------------------
(* Properties.                                                             *)

\* However often a run dies, refuses or loses its registry, the next one finds
\* by name what it had created: every notebook of a runbook beyond the first is
\* explained by a POST whose answer was lost, by a run that was overtaken after
\* its listing, or by a person's copy.
DuplicatesAreAccidents ==
  \A r \in Runbooks : Cardinality(Called(r)) <= 1 + extra[r]

\* A reconciler never removes the notebook of a runbook that its checkout
\* registers, recorded or not.
RegisteredSpared ==
  [][\A n \in Range(notebooks) :
       /\ rec.step = "delete" /\ rec' # rec
       /\ n.name \in Registered(rec.from)
       => n \in Range(notebooks')]_vars

\* A reconciler that ends with status 0 has removed everything it listed as
\* unmanaged: no failed deletion is lost among those that worked.
GreenReconcileRemoved ==
  rec.step = "green" => \A t \in rec.all : ~Present(t)

\* One deploy suffices: once it has started, and neither people nor faults come
\* in between, the organisation gets every text and the repository every id of
\* the runbooks, whatever earlier runs left behind and whatever checks and
\* reconcilers do meanwhile -- unless a source is unfinished or a recorded
\* notebook is gone: then no run ever ends.
Published ==
  \A r \in Registered(repo) : InSync(repo, repo.id[r], r)
Blocked ==
  \E r \in Registered(repo) :
    \/ repo.source[r] = Stub
    \/ repo.id[r] # NoId /\ Live(repo.id[r]) = {}
PublicationConverges ==
  \A d \in Deploys, accidents \in 0..(MaxByHand + MaxFaults) :
    LET Started     == run[d] = [step |-> "list", from |-> repo]
        Undisturbed == byHand + faults = accidents
    IN [](Started /\ []Undisturbed => <>[](Published \/ Blocked))

\* "The name match is what makes this tool safe to run at any point in that
\* cycle" (tools/catalog_reconcile.py:25): no reconciler removes the notebook
\* of a runbook that is registered now.
NewestSpared ==
  [][\A n \in Range(notebooks) :
       /\ rec.step = "delete" /\ rec' # rec
       /\ n.name \in Registered(repo)
       => n \in Range(notebooks')]_vars
=============================================================================
