------------------------------- MODULE McpServer -------------------------------
(***************************************************************************)
(* The write path of the MCP server: mcp/obs_router.py (dispatch),         *)
(* mcp/obs_governance.py (rate limiter, plan ledger, gates),               *)
(* mcp/obs_tools.py (obs.plan, obs.propose_change) and mcp/obs_gitops.py.  *)
(*                                                                         *)
(* A session is one stdio server process: it handles one call at a time    *)
(* and keeps its limiter and its ledger in memory.  All sessions share the *)
(* caller's clone: its branches, and one worktree directory per branch     *)
(* name.  A proposal runs git commands in that directory; git looks for    *)
(* the repository from the directory upwards, so that a directory that has *)
(* lost its .git file is a place inside the caller's own checkout.         *)
(* A call that is refused before its handler changes nothing but the audit *)
(* log and is left out, as are the tools that only read.                   *)
(***************************************************************************)
EXTENDS Integers, Sequences, FiniteSets

CONSTANTS
  Sessions,   \* server processes
  Principals, \* registered principals
  OwnerOf,    \* session -> the principal whose token it was started with
  Holds,      \* principal -> the capabilities of its role
  Granted,    \* principal -> the environments it may propose changes for
  Approvers,  \* principals with approver: true
  Changes,    \* change sets
  EnvsOf,     \* change -> the environments it targets
  Inserting,  \* changes that insert into a shared file
  Rewriting,  \* changes all of whose files exist on the base branch
  Subjects,   \* subjects of proposals
  Limit,      \* capability -> calls per window
  Window,     \* capability -> length of a window
  TTL,        \* life of a plan token
  DayLength,  \* a branch name carries the date
  MaxTime,    \* bound: the clock stops here
  MaxCalls,   \* bound: proposals that get as far as git
  MaxKills,   \* bound: server processes killed
  MaxGaps     \* bound: lines the audit log's file does not take

Capabilities == {"plan", "propose"}
Times        == 0..MaxTime

None == "none"  \* no branch, no approver
Same == "same"  \* a branch without a commit of its own
Torn == "torn"  \* a commit that deletes files instead of writing them

ASSUME SessionsAssumption ==
  /\ OwnerOf \in [Sessions -> Principals]
  /\ Holds   \in [Principals -> SUBSET Capabilities]
  /\ Approvers \subseteq Principals
ASSUME ChangesAssumption ==
  /\ Inserting \subseteq Changes /\ Rewriting \subseteq Changes
  /\ {None, Same, Torn} \cap Changes = {}
ASSUME LimitsAssumption ==
  /\ Limit  \in [Capabilities -> Nat \ {0}]
  /\ Window \in [Capabilities -> Nat \ {0}]
ASSUME TimesAssumption ==
  /\ TTL \in Nat /\ MaxTime \in Nat /\ DayLength \in Nat \ {0}
  /\ MaxCalls \in Nat /\ MaxKills \in Nat /\ MaxGaps \in Nat

VARIABLES
  now,      \* the clock
  windows,  \* session -> capability -> the window of the limiter
  ledger,   \* session -> change -> when it was last planned
  pc,       \* session -> the step of the call it is in
  call,     \* session -> the proposal it handles
  base,     \* changes the base branch of the clone holds
  branch,   \* name -> what the local branch adds to its base
  remote,   \* name -> the same branch at origin
  pulls,    \* names with an open pull request
  tree,     \* name -> the worktree directory
  \* history variables, read by no guard but the bounds
  kills,
  charged,  \* session -> capability -> the times of the calls let through
  grants,   \* proposals that passed every gate
  writer,   \* name -> the grant whose call made the commit
  audited,  \* grants with their line in the audit log's file
  unsaved,  \* session -> grants the server remembers and the file lacks
  lost,     \* grants remembered so until their server was killed
  killed,   \* grants whose process was killed during the call
  met       \* names whose directory a call found in its way

memory  == <<windows, ledger, charged>>
clone   == <<base, branch, remote, pulls, tree>>
log     == <<audited, unsaved, lost>>
history == <<kills, grants, writer, log, killed, met>>
vars    == <<now, memory, pc, call, clone, history>>

Content == Changes \cup {None, Same, Torn}

\* A time the clock does not reach: there is no plan.
Never == MaxTime + 1

Days  == {t \div DayLength : t \in Times}
Names == Subjects \X Principals \X Days

\* branch_name: date, subject, principal.
Name(s, subject) == <<subject, OwnerOf[s], now \div DayLength>>

\* dir: it exists; link: it has its .git file; paths: the files of the change;
\* index: what git add has staged in it.
NoTree == [dir |-> FALSE, link |-> FALSE, paths |-> "gone", index |-> None]
Fresh  == [dir |-> TRUE, link |-> TRUE, paths |-> "base", index |-> None]
TreeStates == [dir: BOOLEAN, link: BOOLEAN, paths: {"gone", "base", "written"},
               index: Changes \cup {None, Torn}]

Labels == {"idle", "clear", "clearing", "add", "write", "stage", "status",
           "commit", "push", "pull", "remove"}

NoCall == [id |-> 0, change |-> None, name |-> <<>>, push |-> FALSE,
           base |-> {}]
Calls  == [id: 1..MaxCalls, change: Changes, name: Names, push: BOOLEAN,
           base: SUBSET Changes]

Grants == [name: Names, change: Changes, planned: Times, at: Times,
           approver: Principals \cup {None}]

TypeOK ==
  /\ now     \in Times
  /\ windows \in [Sessions -> [Capabilities -> [start: Times, count: Nat]]]
  /\ \A s \in Sessions : \A k \in Capabilities : windows[s][k].count <= Limit[k]
  /\ ledger  \in [Sessions -> [Changes -> Times \cup {Never}]]
  /\ pc      \in [Sessions -> Labels]
  /\ call    \in [Sessions -> {NoCall} \cup Calls]
  /\ base    \subseteq Changes
  /\ branch  \in [Names -> Content]
  /\ remote  \in [Names -> Content]
  /\ pulls   \subseteq Names
  /\ tree    \in [Names -> TreeStates]
  /\ kills   \in 0..MaxKills
  /\ charged \in [Sessions -> [Capabilities -> Seq(Times)]]
  /\ grants  \in Seq(Grants) /\ Len(grants) <= MaxCalls
  /\ writer  \in [Names -> 0..MaxCalls]
  /\ audited \subseteq 1..MaxCalls
  /\ unsaved \in [Sessions -> SUBSET (1..MaxCalls)]
  /\ lost    \subseteq 1..MaxCalls
  /\ killed  \subseteq 1..MaxCalls
  /\ met     \subseteq Names

NoWindows == [k \in Capabilities |-> [start |-> 0, count |-> 0]]
NoPlans   == [c \in Changes |-> Never]
NoCharges == [k \in Capabilities |-> <<>>]

Init ==
  /\ now     = 0
  /\ windows = [s \in Sessions |-> NoWindows]
  /\ ledger  = [s \in Sessions |-> NoPlans]
  /\ pc      = [s \in Sessions |-> "idle"]
  /\ call    = [s \in Sessions |-> NoCall]
  /\ base    = {}
  /\ branch  = [n \in Names |-> None]
  /\ remote  = [n \in Names |-> None]
  /\ pulls   = {}
  /\ tree    = [n \in Names |-> NoTree]
  /\ kills   = 0
  /\ charged = [s \in Sessions |-> NoCharges]
  /\ grants  = <<>>
  /\ writer  = [n \in Names |-> 0]
  /\ audited = {}
  /\ unsaved = [s \in Sessions |-> {}]
  /\ lost    = {}
  /\ killed  = {}
  /\ met     = {}

-------------------------------------------------------------------------------
(* dispatch: role, then rate limit, then the handler.                      *)

\* (now - start >= seconds - 1.)
CurrentWindowTooShort(s, k) ==
  LET w == windows[s][k] IN
  IF w.count = 0 \/ now - w.start >= Window[k] - 1
    THEN [start |-> now, count |-> 0] ELSE w

\* RateLimiter.check: the first call of a window starts it.
CurrentWindow(s, k) ==
  LET w == windows[s][k] IN
  IF w.count = 0 \/ now - w.start >= Window[k]
    THEN [start |-> now, count |-> 0] ELSE w

Admitted(s, k) == CurrentWindow(s, k).count < Limit[k]

Dispatch(s, k) ==
  /\ pc[s] = "idle"
  /\ k \in Holds[OwnerOf[s]]
  /\ Admitted(s, k)
  /\ windows' = [windows EXCEPT ![s][k] =
                   [CurrentWindow(s, k) EXCEPT !.count = @ + 1]]
  /\ charged' = [charged EXCEPT ![s][k] = Append(@, now)]

\* obs.plan: the ledger remembers the content, by its hash, and the time.
Plan(s, c) ==
  /\ Dispatch(s, "plan")
  /\ ledger' = [ledger EXCEPT ![s][c] = now]
  /\ UNCHANGED <<now, pc, call, clone, history>>

Expired(s, token) == ledger[s][token] # Never /\ now - ledger[s][token] > TTL

\* (Any live token will do.)
VerifiedByToken(s, token, c) ==
  ledger[s][token] # Never /\ ~Expired(s, token)

\* (No entry, nothing to compare the age with.)
VerifiedUnplanned(s, token, c) == ~Expired(s, token) /\ token = c

\* PlanLedger.verify: a token is the hash of the content it was given for.
Verified(s, token, c) ==
  ledger[s][token] # Never /\ ~Expired(s, token) /\ token = c

\* (One environment granted is enough.)
AuthorizedSomewhere(s, c, approver) ==
  /\ EnvsOf[c] \cap Granted[OwnerOf[s]] # {}
  /\ "prod" \in EnvsOf[c] => approver \in Approvers \ {OwnerOf[s]}

\* authorize_environments and require_approval.
Authorized(s, c, approver) ==
  /\ EnvsOf[c] \subseteq Granted[OwnerOf[s]]
  /\ "prod" \in EnvsOf[c] => approver \in Approvers \ {OwnerOf[s]}

\* obs.propose_change refused by a gate, or granted as a dry run: an expired
\* token is dropped, nothing else happens.
ProposeNothing(s, token) ==
  /\ Dispatch(s, "propose")
  /\ ledger' = IF Expired(s, token)
                 THEN [ledger EXCEPT ![s][token] = Never] ELSE ledger
  /\ UNCHANGED <<now, pc, call, clone, history>>

\* All gates passed, dry_run=false: the call goes on in git.
Propose(s, c, token, subject, push, approver) ==
  /\ Len(grants) < MaxCalls
  /\ Dispatch(s, "propose")
  /\ Verified(s, token, c)
  /\ Authorized(s, c, approver)
  /\ grants' = Append(grants,
       [name |-> Name(s, subject), change |-> c,
        planned |-> ledger[s][c], at |-> now,
        approver |-> IF "prod" \in EnvsOf[c] THEN approver ELSE None])
  /\ call' = [call EXCEPT ![s] =
       [id |-> Len(grants) + 1, change |-> c, name |-> Name(s, subject),
        push |-> push, base |-> {}]]
  /\ pc' = [pc EXCEPT ![s] = "clear"]
  /\ UNCHANGED <<now, ledger, clone, kills, writer, log, killed, met>>

-------------------------------------------------------------------------------
(* obs_gitops.propose.                                                     *)

At(s, label)   == pc[s] = label
Goto(s, label) == pc' = [pc EXCEPT ![s] = label]
Tree(s)        == tree[call[s].name]

\* An exception, or a return, inside the try block: on to its finally.
Leave(s) == Goto(s, "remove") /\ UNCHANGED <<clone, history>>

(* dispatch's own finally: AuditLog.write.                                 *)

\* Records the file lacks, and all that were ever made.
Missing  == lost \cup UNION {unsaved[s] : s \in Sessions}
Recorded == audited \cup Missing

\* A line in the file; or, when the file cannot be written, a record that only
\* the server's memory has.  write marks that record, a copy, with the error and
\* returns it; dispatch drops it, with the answer to the caller already made.
WriteRecord(s) ==
  \/ /\ audited' = audited \cup {call[s].id}
     /\ UNCHANGED unsaved
  \/ /\ Cardinality(Missing) < MaxGaps
     /\ unsaved' = [unsaved EXCEPT ![s] = @ \cup {call[s].id}]
     /\ UNCHANGED audited

\* (The record is made after the handler, not in a finally.)
EndUntraced(s) ==
  /\ Goto(s, "idle")
  /\ call' = [call EXCEPT ![s] = NoCall]
  /\ IF call[s].push /\ remote[call[s].name] = None
       THEN UNCHANGED <<audited, unsaved>> ELSE WriteRecord(s)
  /\ UNCHANGED lost

\* The call ends.
End(s) ==
  /\ Goto(s, "idle")
  /\ call' = [call EXCEPT ![s] = NoCall]
  /\ WriteRecord(s)
  /\ UNCHANGED lost

\* if tree.exists(): shutil.rmtree(tree).
Clear(s) ==
  /\ At(s, "clear")
  /\ IF Tree(s).dir
       THEN Goto(s, "clearing") /\ met' = met \cup {call[s].name}
       ELSE Goto(s, "add") /\ UNCHANGED met
  /\ UNCHANGED <<now, memory, call, clone, kills, grants, writer, log,
                 killed>>

\* rmtree deletes entry by entry, in the order the directory lists them.
RemoveEntry(s) ==
  /\ At(s, "clearing")
  /\ Tree(s).dir
  /\ \/ /\ Tree(s).paths # "gone"
        /\ tree' = [tree EXCEPT ![call[s].name].paths = "gone"]
     \/ /\ Tree(s).link
        /\ tree' = [tree EXCEPT ![call[s].name].link = FALSE]
  /\ UNCHANGED <<now, memory, pc, call, base, branch, remote, pulls,
                 history>>

RemoveDir(s) ==
  /\ At(s, "clearing")
  /\ Tree(s).dir /\ ~Tree(s).link /\ Tree(s).paths = "gone"
  /\ tree' = [tree EXCEPT ![call[s].name] = NoTree]
  /\ Goto(s, "add")
  /\ UNCHANGED <<now, memory, call, base, branch, remote, pulls,
                 history>>

\* rmtree raises when another call changes the directory under it.
ClearFails(s) ==
  /\ At(s, "clearing")
  /\ \/ ~Tree(s).dir
     \/ \E r \in Sessions \ {s} : pc[r] # "idle" /\ call[r].name = call[s].name
  /\ End(s)
  /\ UNCHANGED <<now, memory, clone, kills, grants, writer, killed, met>>

\* (git worktree add -B.)
AddWorktreeForced(s) ==
  LET n == call[s].name IN
  /\ At(s, "add")
  /\ branch' = [branch EXCEPT ![n] = Same]
  /\ tree'   = [tree EXCEPT ![n] = Fresh]
  /\ call'   = [call EXCEPT ![s].base = base]
  /\ Goto(s, "write")
  /\ UNCHANGED <<now, memory, base, remote, pulls, history>>

\* git worktree add -b.
AddWorktree(s) ==
  LET n == call[s].name IN
  /\ At(s, "add")
  /\ branch[n] = None
  /\ branch' = [branch EXCEPT ![n] = Same]
  /\ tree'   = [tree EXCEPT ![n] = Fresh]
  /\ call'   = [call EXCEPT ![s].base = base]
  /\ Goto(s, "write")
  /\ UNCHANGED <<now, memory, base, remote, pulls, history>>

\* "A branch named ... already exists": raised before the try block.
Collide(s) ==
  /\ At(s, "add")
  /\ branch[call[s].name] # None
  /\ End(s)
  /\ UNCHANGED <<now, memory, clone, kills, grants, writer, killed, met>>

\* _apply_files makes the directories it needs; an insert needs its file.
ApplyFiles(s) ==
  /\ At(s, "write")
  /\ IF call[s].change \in Inserting /\ Tree(s).paths = "gone"
       THEN Leave(s)
       ELSE /\ tree' = [tree EXCEPT ![call[s].name] =
                         [@ EXCEPT !.dir = TRUE, !.paths = "written"]]
            /\ Goto(s, "stage")
            /\ UNCHANGED <<base, branch, remote, pulls, history>>
  /\ UNCHANGED <<now, memory, call>>

\* git add: fails without the directory, on a path the caller's .gitignore
\* covers, on a path that never existed; stages a deletion of one that did.
GitAdd(s) ==
  LET added == IF Tree(s).paths = "gone" THEN Torn ELSE call[s].change
      known == Rewriting \cup Inserting \cup call[s].base
      fails == \/ ~Tree(s).link
               \/ Tree(s).paths = "gone" /\ call[s].change \notin known
  IN
  /\ At(s, "stage")
  /\ IF fails
       THEN Leave(s)
       ELSE /\ tree' = [tree EXCEPT ![call[s].name].index = added]
            /\ Goto(s, "status")
            /\ UNCHANGED <<base, branch, remote, pulls, history>>
  /\ UNCHANGED <<now, memory, call>>

\* The change adds nothing to the base its worktree was made from.
Identical(s) == call[s].change \in call[s].base \ Inserting

\* git status --porcelain: empty, the call returns without a commit.
Status(s) ==
  /\ At(s, "status")
  /\ \/ /\ IF Tree(s).link THEN ~Identical(s) \/ Tree(s).paths = "gone"
                           ELSE Tree(s).dir
        /\ Goto(s, "commit")
        /\ UNCHANGED <<clone, history>>
     \/ /\ Tree(s).link => Identical(s) /\ Tree(s).paths # "gone"
        /\ Leave(s)
  /\ UNCHANGED <<now, memory, call>>

\* What git commit finds to commit in the worktree.
Staged(s) == Tree(s).link /\ ~(Identical(s) /\ Tree(s).index = call[s].change)

\* git commit.  Without its .git file the directory is a place in the caller's
\* checkout: what the caller has staged there is committed, if anything is.
Commit(s) ==
  LET n == call[s].name IN
  /\ At(s, "commit")
  /\ \/ /\ Staged(s)
        /\ branch' = [branch EXCEPT ![n] = Tree(s).index]
        /\ writer' = [writer EXCEPT ![n] = call[s].id]
        /\ Goto(s, "push")
        /\ UNCHANGED <<base, remote, pulls, tree, kills, grants, log,
                       killed, met>>
     \/ /\ Tree(s).dir /\ ~Tree(s).link
        /\ Goto(s, "push")
        /\ UNCHANGED <<clone, history>>
     \/ /\ ~Staged(s)
        /\ Leave(s)
  /\ UNCHANGED <<now, memory, call>>

\* rev-parse, show, and git push -u origin <branch>, which may fail.
Push(s) ==
  LET n == call[s].name IN
  /\ At(s, "push")
  /\ \/ /\ call[s].push /\ Tree(s).dir
        /\ remote' = [remote EXCEPT ![n] = branch[n]]
        /\ Goto(s, "pull")
        /\ UNCHANGED <<base, branch, pulls, tree, history>>
     \/ Leave(s)
  /\ UNCHANGED <<now, memory, call>>

\* gh pr create: done, refused (a branch without commits) or not installed.
OpenPullRequest(s) ==
  /\ At(s, "pull")
  /\ \/ /\ Tree(s).dir /\ remote[call[s].name] # Same
        /\ pulls' = pulls \cup {call[s].name}
     \/ UNCHANGED pulls
  /\ Goto(s, "remove")
  /\ UNCHANGED <<now, memory, call, base, branch, remote, tree,
                 history>>

\* (Without the finally: only a call that raised nothing cleans up.)
RemoveOnSuccess(s) ==
  LET n == call[s].name IN
  /\ At(s, "remove")
  /\ tree' = IF tree[n].link /\ (call[s].push => remote[n] # None)
               THEN [tree EXCEPT ![n] = NoTree] ELSE tree
  /\ End(s)
  /\ UNCHANGED <<now, memory, base, branch, remote, pulls, kills, grants,
                 writer, killed, met>>

\* finally: git worktree remove --force, which refuses a directory without its
\* .git file; its result is ignored.  The branch stays.
Remove(s) ==
  LET n == call[s].name IN
  /\ At(s, "remove")
  /\ tree' = IF tree[n].link THEN [tree EXCEPT ![n] = NoTree] ELSE tree
  /\ End(s)
  /\ UNCHANGED <<now, memory, base, branch, remote, pulls, kills, grants,
                 writer, killed, met>>

-------------------------------------------------------------------------------
(* The world around the server.                                            *)

Tick ==
  /\ now < MaxTime
  /\ now' = now + 1
  /\ UNCHANGED <<memory, pc, call, clone, history>>

\* The client kills its server and starts a new one, which knows nothing.
Restart(s) ==
  /\ kills < MaxKills
  /\ kills' = kills + 1
  /\ killed' = IF pc[s] = "idle" THEN killed ELSE killed \cup {call[s].id}
  /\ windows' = [windows EXCEPT ![s] = NoWindows]
  /\ charged' = [charged EXCEPT ![s] = NoCharges]
  /\ ledger'  = [ledger EXCEPT ![s] = NoPlans]
  /\ pc'      = [pc EXCEPT ![s] = "idle"]
  /\ call'    = [call EXCEPT ![s] = NoCall]
  /\ lost'    = lost \cup unsaved[s]
  /\ unsaved' = [unsaved EXCEPT ![s] = {}]
  /\ UNCHANGED <<now, clone, grants, writer, audited, met>>

\* A pull request is merged and the clone's base branch updated.
Merge(n) ==
  /\ n \in pulls
  /\ pulls' = pulls \ {n}
  /\ base' = base \cup ({remote[n]} \cap Changes)
  /\ UNCHANGED <<now, memory, pc, call, branch, remote, tree, history>>

Step(s) ==
  \/ Clear(s)
  \/ RemoveEntry(s)
  \/ RemoveDir(s)
  \/ ClearFails(s)
  \/ AddWorktree(s)
  \/ Collide(s)
  \/ ApplyFiles(s)
  \/ GitAdd(s)
  \/ Status(s)
  \/ Commit(s)
  \/ Push(s)
  \/ OpenPullRequest(s)
  \/ Remove(s)

Request(s) ==
  \E c \in Changes :
    \/ Plan(s, c)
    \/ ProposeNothing(s, c)
    \/ \E token \in Changes, subject \in Subjects, push \in BOOLEAN,
          approver \in Principals \cup {None} :
         Propose(s, c, token, subject, push, approver)

Next ==
  \/ \E s \in Sessions : Request(s) \/ Step(s) \/ Restart(s)
  \/ Tick
  \/ \E n \in Names : Merge(n)

Spec == Init /\ [][Next]_vars

-------------------------------------------------------------------------------
(* Properties.                                                             *)

\* "A caller physically cannot propose content nobody has planned" (PlanLedger):
\* the commit on a proposal's branch is that of a call whose content this session
\* had planned before, no longer than TTL ago, for environments its principal was
\* granted and, in production, with a second person -- however calls, restarts
\* and clearings of the same directory interleave.  A commit that lost its files
\* is not covered.
GatedCommit ==
  \A n \in Names : branch[n] \in Changes =>
    LET i == writer[n] IN
    /\ i \in DOMAIN grants
    /\ grants[i].name = n /\ grants[i].change = branch[n]
    /\ grants[i].planned \in Times /\ grants[i].planned <= grants[i].at
    /\ grants[i].at - grants[i].planned <= TTL
    /\ EnvsOf[branch[n]] \subseteq Granted[n[2]]
    /\ "prod" \in EnvsOf[branch[n]] => grants[i].approver \in Approvers \ {n[2]}

\* Proposals never rewrite each other: a commit on a branch, once made, stays,
\* and origin only ever gets what the branch holds.
BranchesAreFinal ==
  [][\A n \in Names :
       /\ branch[n] \notin {None, Same} => branch'[n] = branch[n]
       /\ remote[n] # None => remote'[n] = remote[n]
       /\ remote'[n] \in {None, branch'[n]}]_vars

\* The audit of obs_governance.py, "every call -- allowed, refused, or failed",
\* as far as the code keeps it: the call behind a commit has its line in the
\* log, is still running, was killed before its end, or has a record that the
\* file did not take -- in its server's memory, and lost when that is killed.
TracedCommit ==
  \A n \in Names : branch[n] \notin {None, Same} =>
    \/ writer[n] \in Recorded \cup killed
    \/ \E s \in Sessions : pc[s] # "idle" /\ call[s].id = writer[n]

\* A fixed window lets at most 2 * Limit - 1 calls through in any stretch of
\* its length, also across its boundary: of 2 * Limit calls in a row the first
\* and the last are a window apart.
BudgetPerWindow ==
  \A s \in Sessions, k \in Capabilities :
    \A i, j \in DOMAIN charged[s][k] :
      j = i + 2 * Limit[k] - 1 => charged[s][k][j] - charged[s][k][i] >= Window[k]

\* "Scratch space, not state" (propose's finally): at rest there is no worktree
\* but one a killed call left or one that another call found in its way.
ScratchReleased ==
  \A n \in Names : tree[n].dir =>
    \/ \E s \in Sessions : pc[s] # "idle" /\ call[s].name = n
    \/ \E i \in killed : grants[i].name = n
    \/ n \in met

===============================================================================
