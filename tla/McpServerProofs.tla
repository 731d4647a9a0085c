---------------------------- MODULE McpServerProofs ----------------------------
(***************************************************************************)
(* Proofs about McpServer, for any sessions, principals, changes, clocks   *)
(* and bounds: the types, what reaches a branch and with whose consent     *)
(* (Inv), and the budget of the rate limiter (Budget).                     *)
(***************************************************************************)
EXTENDS McpServer, TLAPS

-------------------------------------------------------------------------------
(* The inductive invariant.                                                *)

\* The calls that made their branch: no other call of that name gets so far.
Running   == {"write", "stage", "status", "commit", "push", "pull", "remove"}
Unwritten == {"write", "stage", "status", "commit"}

\* A call in progress is one the gates let through.
CallsGranted ==
  \A s \in Sessions : pc[s] # "idle" =>
    /\ call[s] \in Calls
    /\ call[s].id \in DOMAIN grants
    /\ grants[call[s].id].name = call[s].name
    /\ grants[call[s].id].change = call[s].change

\* The gates a grant has passed.
Gated(g) ==
  /\ g.planned \in Times /\ g.planned <= g.at
  /\ g.at - g.planned <= TTL
  /\ EnvsOf[g.change] \subseteq Granted[g.name[2]]
  /\ "prod" \in EnvsOf[g.change] => g.approver \in Approvers \ {g.name[2]}

GrantsGated == \A i \in DOMAIN grants : Gated(grants[i])

\* No plan is of a time to come.
PlansPast ==
  \A s \in Sessions, c \in Changes : ledger[s][c] \in Times => ledger[s][c] <= now

\* One call per branch.
OneRunning ==
  \A r, s \in Sessions :
    /\ pc[r] \in Running /\ pc[s] \in Running
    /\ call[r].name = call[s].name
    => r = s

\* Until its call commits, a branch is as it was made, here and at origin.
BranchMade ==
  /\ \A s \in Sessions : pc[s] \in Running => branch[call[s].name] # None
  /\ \A s \in Sessions : pc[s] \in Unwritten =>
       branch[call[s].name] = Same /\ remote[call[s].name] = None
  /\ \A n \in Names : remote[n] \in {None, branch[n]}

\* Between git add and git commit the index holds the files of the call, unless
\* the directory was cleared and is part of the caller's checkout now.
IndexStaged ==
  \A s \in Sessions : pc[s] \in {"status", "commit"} /\ Tree(s).link =>
    Tree(s).index \in {Torn, call[s].change}

\* A worktree without its .git file was found, and cleared, by another call.
ClearedIsMet ==
  /\ \A s \in Sessions : pc[s] = "clearing" => call[s].name \in met
  /\ \A s \in Sessions : pc[s] \in Running => Tree(s).link \/ call[s].name \in met
  /\ \A n \in Names : tree[n].dir => tree[n].link \/ n \in met

\* ScratchReleased, of the calls that made a worktree.
ScratchExplained ==
  /\ killed \subseteq DOMAIN grants
  /\ \A n \in Names : tree[n].dir =>
       \/ \E s \in Sessions : pc[s] \in Running /\ call[s].name = n
       \/ \E i \in killed : grants[i].name = n
       \/ n \in met

Inv ==
  /\ TypeOK
  /\ CallsGranted
  /\ GrantsGated
  /\ OneRunning
  /\ BranchMade
  /\ IndexStaged
  /\ GatedCommit
  /\ TracedCommit
  /\ ClearedIsMet
  /\ ScratchExplained

\* The limiter against the log c of the calls it let through, at time t: the
\* calls of the present window are the last of the log, and l calls back from
\* its first one is a call that came a window earlier.
Tracks(c, start, count, t, l, w) ==
  LET first == Len(c) - count + 1 IN
  /\ count <= Len(c) /\ count <= l
  /\ count = 0 => Len(c) = 0
  /\ count > 0 => c[first] = start
  /\ start <= t
  /\ \A i \in 1..Len(c) : c[i] <= t
  /\ \A i, j \in 1..Len(c) : i <= j => c[i] <= c[j]
  /\ \A i \in 1..Len(c) : i = first - l => start - c[i] >= w

BudgetOf(s, k) ==
  Tracks(charged[s][k], windows[s][k].start, windows[s][k].count, now, Limit[k], Window[k])

\* BudgetPerWindow, of one log.
SpacedBy(c, l, w) ==
  \A i, j \in 1..Len(c) : j = i + 2 * l - 1 => c[j] - c[i] >= w

Budget ==
  \A s \in Sessions, k \in Capabilities :
    BudgetOf(s, k) /\ SpacedBy(charged[s][k], Limit[k], Window[k])

-------------------------------------------------------------------------------
(* Types.                                                                  *)

\* A name a session gives to a branch, now.
LEMMA NameType ==
  ASSUME TypeOK, NEW s \in Sessions, NEW subject \in Subjects
  PROVE  Name(s, subject) \in Names
<1>1. now \div DayLength \in Days
  BY DEF TypeOK, Days
<1>2. OwnerOf[s] \in Principals
  BY SessionsAssumption
<1> QED
  BY <1>1, <1>2 DEF Name, Names

\* A server that knows nothing is well typed.
LEMMA EmptyMemoryType ==
  /\ NoWindows \in [Capabilities -> [start: Times, count: Nat]]
  /\ \A k \in Capabilities : NoWindows[k].count <= Limit[k]
  /\ NoPlans \in [Changes -> Times \cup {Never}]
  /\ NoCharges \in [Capabilities -> Seq(Times)]
<1>1. 0 \in Times /\ \A k \in Capabilities : Limit[k] \in Nat
  BY TimesAssumption, LimitsAssumption DEF Times
<1> QED
  BY <1>1 DEF NoWindows, NoPlans, NoCharges

LEMMA TypeInit == Init => TypeOK
<1> SUFFICES ASSUME Init PROVE TypeOK
  OBVIOUS
<1>1. 0 \in Times /\ 0 \in 0..MaxKills /\ 0 \in 0..MaxCalls /\ 0 <= MaxCalls
  BY TimesAssumption DEF Times
<1>2. NoTree \in TreeStates
  BY DEF NoTree, TreeStates
<1>3. None \in Content
  BY DEF Content
<1>4. /\ windows \in [Sessions -> [Capabilities -> [start: Times, count: Nat]]]
      /\ \A s \in Sessions : \A k \in Capabilities : windows[s][k].count <= Limit[k]
      /\ ledger \in [Sessions -> [Changes -> Times \cup {Never}]]
      /\ charged \in [Sessions -> [Capabilities -> Seq(Times)]]
  BY EmptyMemoryType DEF Init
<1>5. /\ grants \in Seq(Grants) /\ Len(grants) <= MaxCalls
      /\ pc \in [Sessions -> Labels] /\ call \in [Sessions -> {NoCall} \cup Calls]
  BY <1>1 DEF Init, Labels
<1> QED
  BY <1>1, <1>2, <1>3, <1>4, <1>5 DEF Init, TypeOK

\* The window of a call that is let through has room for it.
LEMMA DispatchType ==
  ASSUME TypeOK, NEW s \in Sessions, NEW k \in Capabilities, Dispatch(s, k)
  PROVE  /\ windows' \in [Sessions -> [Capabilities -> [start: Times, count: Nat]]]
         /\ \A r \in Sessions : \A c \in Capabilities : windows'[r][c].count <= Limit[c]
         /\ charged' \in [Sessions -> [Capabilities -> Seq(Times)]]
<1> DEFINE w == CurrentWindow(s, k)
<1>1. /\ w \in [start: Times, count: Nat]
      /\ w.count < Limit[k] /\ Limit[k] \in Nat
  BY LimitsAssumption DEF TypeOK, CurrentWindow, Dispatch, Admitted
<1> HIDE DEF w
<1>2. /\ [w EXCEPT !.count = @ + 1] \in [start: Times, count: Nat]
      /\ [w EXCEPT !.count = @ + 1].count <= Limit[k]
  BY <1>1
<1>3. windows' = [windows EXCEPT ![s][k] = [w EXCEPT !.count = @ + 1]]
  BY DEF Dispatch, w
<1>4. /\ windows' \in [Sessions -> [Capabilities -> [start: Times, count: Nat]]]
      /\ \A r \in Sessions : \A c \in Capabilities : windows'[r][c].count <= Limit[c]
  BY <1>2, <1>3 DEF TypeOK
<1>5. charged' = [charged EXCEPT ![s][k] = Append(@, now)]
  BY DEF Dispatch
<1>6. charged' \in [Sessions -> [Capabilities -> Seq(Times)]]
  BY <1>5 DEF TypeOK
<1> QED
  BY <1>4, <1>6

\* The end of a call.
LEMMA EndType ==
  ASSUME TypeOK, CallsGranted, NEW s \in Sessions, pc[s] # "idle", End(s)
  PROVE  /\ pc' \in [Sessions -> Labels]
         /\ call' \in [Sessions -> {NoCall} \cup Calls]
         /\ audited' \subseteq 1..MaxCalls
         /\ unsaved' \in [Sessions -> SUBSET (1..MaxCalls)]
         /\ lost' \subseteq 1..MaxCalls
<1>1. call[s].id \in 1..MaxCalls
  BY DEF CallsGranted, Calls
<1>2. /\ audited \subseteq 1..MaxCalls
      /\ unsaved \in [Sessions -> SUBSET (1..MaxCalls)]
      /\ lost \subseteq 1..MaxCalls
  BY DEF TypeOK
<1>3. WriteRecord(s) /\ UNCHANGED lost
  BY DEF End
<1>4. /\ audited' \subseteq 1..MaxCalls
      /\ unsaved' \in [Sessions -> SUBSET (1..MaxCalls)]
      /\ lost' \subseteq 1..MaxCalls
  BY <1>1, <1>2, <1>3 DEF WriteRecord
<1> QED
  BY <1>4 DEF TypeOK, End, Goto, Labels

\* The records of the audit log.
LEMMA SameRecords == UNCHANGED log => Recorded' = Recorded
BY DEF log, Recorded, Missing

LEMMA EndRecords ==
  ASSUME TypeOK, NEW s \in Sessions, End(s)
  PROVE  Recorded' = Recorded \cup {call[s].id}
<1>1. CASE audited' = audited \cup {call[s].id} /\ unsaved' = unsaved
  BY <1>1 DEF End, Recorded, Missing
<1>2. CASE unsaved' = [unsaved EXCEPT ![s] = @ \cup {call[s].id}] /\ audited' = audited
  <2>1. /\ unsaved'[s] = unsaved[s] \cup {call[s].id}
        /\ \A r \in Sessions \ {s} : unsaved'[r] = unsaved[r]
    BY <1>2 DEF TypeOK
  <2>2. lost' = lost
    BY DEF End
  <2> QED
    BY <1>2, <2>1, <2>2 DEF Recorded, Missing
<1> QED
  BY <1>1, <1>2 DEF End, WriteRecord

LEMMA RestartRecords ==
  ASSUME TypeOK, NEW s \in Sessions, Restart(s)
  PROVE  Recorded' = Recorded
<1>1. /\ unsaved'[s] = {} /\ \A r \in Sessions \ {s} : unsaved'[r] = unsaved[r]
      /\ lost' = lost \cup unsaved[s] /\ audited' = audited
  BY DEF Restart, TypeOK
<1> QED
  BY <1>1 DEF Recorded, Missing

\* What the steps of a call do to a directory.
LEMMA TreeEdits ==
  /\ NoTree \in TreeStates /\ Fresh \in TreeStates
  /\ \A t \in TreeStates :
       /\ [t EXCEPT !.paths = "gone"] \in TreeStates
       /\ [t EXCEPT !.link = FALSE] \in TreeStates
       /\ [t EXCEPT !.dir = TRUE, !.paths = "written"] \in TreeStates
       /\ \A i \in Changes \cup {Torn} : [t EXCEPT !.index = i] \in TreeStates
BY DEF TreeStates, NoTree, Fresh

LEMMA TypeStep == TypeOK /\ CallsGranted /\ [Next]_vars => TypeOK'
<1> SUFFICES ASSUME TypeOK, CallsGranted, [Next]_vars PROVE TypeOK'
  OBVIOUS
<1> USE DEF memory, clone, log, history
<1>0. \A s \in Sessions : pc[s] # "idle" => call[s] \in Calls
  BY DEF CallsGranted
<1>1. ASSUME NEW s \in Sessions, NEW c \in Changes, Plan(s, c)
      PROVE  TypeOK'
  <2>1. Dispatch(s, "plan") /\ "plan" \in Capabilities
    BY <1>1 DEF Plan, Capabilities
  <2>2. ledger' \in [Sessions -> [Changes -> Times \cup {Never}]]
    BY <1>1 DEF Plan, TypeOK
  <2> QED
    BY <1>1, <2>1, <2>2, DispatchType DEF Plan, TypeOK
<1>2. ASSUME NEW s \in Sessions, NEW c \in Changes, ProposeNothing(s, c)
      PROVE  TypeOK'
  <2>1. Dispatch(s, "propose") /\ "propose" \in Capabilities
    BY <1>2 DEF ProposeNothing, Capabilities
  <2>2. ledger' \in [Sessions -> [Changes -> Times \cup {Never}]]
    BY <1>2 DEF ProposeNothing, TypeOK
  <2> QED
    BY <1>2, <2>1, <2>2, DispatchType DEF ProposeNothing, TypeOK
<1>3. ASSUME NEW s \in Sessions, NEW c \in Changes, NEW token \in Changes,
             NEW subject \in Subjects, NEW push \in BOOLEAN,
             NEW approver \in Principals \cup {None},
             Propose(s, c, token, subject, push, approver)
      PROVE  TypeOK'
  <2>1. Dispatch(s, "propose") /\ "propose" \in Capabilities
    BY <1>3 DEF Propose, Capabilities
  <2>2. Name(s, subject) \in Names
    BY NameType
  <2>3. ledger[s][c] \in Times
    BY <1>3 DEF Propose, Verified, TypeOK
  <2>4. grants' \in Seq(Grants) /\ Len(grants') <= MaxCalls
    <3> DEFINE g == [name |-> Name(s, subject), change |-> c,
                     planned |-> ledger[s][c], at |-> now,
                     approver |-> IF "prod" \in EnvsOf[c] THEN approver ELSE None]
    <3>1. g \in Grants
      BY <2>2, <2>3 DEF TypeOK, Grants
    <3>2. grants' = Append(grants, g) /\ Len(grants) < MaxCalls
      BY <1>3 DEF Propose
    <3> HIDE DEF g
    <3>3. MaxCalls \in Nat /\ grants \in Seq(Grants)
      BY TimesAssumption DEF TypeOK
    <3> QED
      BY <3>1, <3>2, <3>3
  <2>5. call' \in [Sessions -> {NoCall} \cup Calls]
    <3> DEFINE c1 == [id |-> Len(grants) + 1, change |-> c, name |-> Name(s, subject),
                      push |-> push, base |-> {}]
    <3>1. Len(grants) + 1 \in 1..MaxCalls
      BY <1>3, TimesAssumption DEF Propose, TypeOK
    <3>2. c1 \in Calls
      BY <2>2, <3>1 DEF Calls
    <3>3. call' = [call EXCEPT ![s] = c1]
      BY <1>3 DEF Propose
    <3> HIDE DEF c1
    <3> QED
      BY <3>2, <3>3 DEF TypeOK
  <2>6. pc' \in [Sessions -> Labels]
    BY <1>3 DEF Propose, TypeOK, Labels
  <2> QED
    BY <1>3, <2>1, <2>4, <2>5, <2>6, DispatchType DEF Propose, TypeOK
<1>4. ASSUME NEW s \in Sessions, Clear(s)
      PROVE  TypeOK'
  <2>1. call[s].name \in Names
    BY <1>0, <1>4 DEF Clear, At, Calls
  <2>2. pc' \in [Sessions -> Labels] /\ met' \subseteq Names
    BY <1>4, <2>1 DEF Clear, Goto, TypeOK, Labels
  <2> QED
    BY <1>4, <2>2 DEF Clear, TypeOK
<1>5. ASSUME NEW s \in Sessions, RemoveEntry(s) \/ RemoveDir(s)
      PROVE  TypeOK'
  <2>1. pc' \in [Sessions -> Labels]
    BY <1>5 DEF RemoveEntry, RemoveDir, Goto, TypeOK, Labels
  <2>2. tree' \in [Names -> TreeStates]
    <3>1. CASE RemoveDir(s)
      BY <3>1, TreeEdits DEF RemoveDir, TypeOK
    <3>2. CASE RemoveEntry(s)
      <4>1. tree[call[s].name] \in TreeStates
        BY <1>0, <3>2 DEF RemoveEntry, At, TypeOK, Calls
      <4>2. \/ tree' = [tree EXCEPT ![call[s].name] = [@ EXCEPT !.paths = "gone"]]
            \/ tree' = [tree EXCEPT ![call[s].name] = [@ EXCEPT !.link = FALSE]]
        BY <3>2 DEF RemoveEntry
      <4> QED
        BY <4>1, <4>2, TreeEdits DEF TypeOK
    <3> QED
      BY <1>5, <3>1, <3>2
  <2> QED
    BY <1>5, <2>1, <2>2 DEF RemoveEntry, RemoveDir, TypeOK
<1>6. ASSUME NEW s \in Sessions, ClearFails(s) \/ Collide(s)
      PROVE  TypeOK'
  <2>1. End(s) /\ pc[s] # "idle"
    BY <1>6 DEF ClearFails, Collide, At
  <2> QED
    BY <1>6, <2>1, EndType DEF ClearFails, Collide, TypeOK
<1>7. ASSUME NEW s \in Sessions, AddWorktree(s)
      PROVE  TypeOK'
  <2>1. Fresh \in TreeStates /\ Same \in Content
    BY DEF Fresh, TreeStates, Content
  <2>2. call' \in [Sessions -> {NoCall} \cup Calls]
    BY <1>0, <1>7 DEF AddWorktree, At, TypeOK, Calls
  <2> QED
    BY <1>7, <2>1, <2>2 DEF AddWorktree, Goto, TypeOK, Labels
<1>8. ASSUME NEW s \in Sessions, ApplyFiles(s) \/ GitAdd(s)
      PROVE  TypeOK'
  <2>1. pc' \in [Sessions -> Labels]
    BY <1>8 DEF ApplyFiles, GitAdd, Leave, Goto, TypeOK, Labels
  <2>2. call[s].change \in Changes
    BY <1>0, <1>8 DEF ApplyFiles, GitAdd, At, Calls
  <2>3. tree' \in [Names -> TreeStates]
    <3>1. tree[call[s].name] \in TreeStates
      BY <1>0, <1>8 DEF ApplyFiles, GitAdd, At, TypeOK, Calls
    <3>2. \/ tree' = tree
          \/ tree' = [tree EXCEPT ![call[s].name] =
                        [@ EXCEPT !.dir = TRUE, !.paths = "written"]]
          \/ \E i \in Changes \cup {Torn} :
               tree' = [tree EXCEPT ![call[s].name] = [@ EXCEPT !.index = i]]
      <4>1. CASE ApplyFiles(s)
        BY <4>1 DEF ApplyFiles, Leave
      <4>2. CASE GitAdd(s)
        BY <2>2, <4>2 DEF GitAdd, Leave
      <4> QED
        BY <1>8, <4>1, <4>2
    <3>3. ASSUME NEW t \in TreeStates, tree' = [tree EXCEPT ![call[s].name] = t]
          PROVE  tree' \in [Names -> TreeStates]
      BY <3>3 DEF TypeOK
    <3>4. CASE tree' = tree
      BY <3>4 DEF TypeOK
    <3> QED
      BY <3>1, <3>2, <3>3, <3>4, TreeEdits
  <2> QED
    BY <1>8, <2>1, <2>3 DEF ApplyFiles, GitAdd, Leave, TypeOK
<1>9. ASSUME NEW s \in Sessions, Status(s)
      PROVE  TypeOK'
  BY <1>9 DEF Status, Leave, Goto, TypeOK, Labels
<1>10. ASSUME NEW s \in Sessions, Commit(s)
      PROVE  TypeOK'
  <2>1. call[s].id \in 1..MaxCalls /\ call[s].name \in Names
    BY <1>0, <1>10 DEF Commit, At, Calls
  <2>2. Tree(s).index \in Content
    BY <2>1 DEF Tree, TypeOK, TreeStates, Content
  <2>3. pc' \in [Sessions -> Labels]
    BY <1>10 DEF Commit, Leave, Goto, TypeOK, Labels
  <2>4. branch' \in [Names -> Content] /\ writer' \in [Names -> 0..MaxCalls]
    <3>1. \/ UNCHANGED <<branch, writer>>
          \/ /\ branch' = [branch EXCEPT ![call[s].name] = Tree(s).index]
             /\ writer' = [writer EXCEPT ![call[s].name] = call[s].id]
      BY <1>10 DEF Commit, Leave
    <3>2. call[s].id \in 0..MaxCalls
      BY <2>1, TimesAssumption
    <3> QED
      BY <2>1, <2>2, <3>1, <3>2 DEF TypeOK
  <2> QED
    BY <1>10, <2>3, <2>4 DEF Commit, Leave, TypeOK
<1>11. ASSUME NEW s \in Sessions, Push(s) \/ OpenPullRequest(s)
      PROVE  TypeOK'
  <2>1. call[s].name \in Names
    BY <1>0, <1>11 DEF Push, OpenPullRequest, At, Calls
  <2>2. pc' \in [Sessions -> Labels]
    BY <1>11 DEF Push, OpenPullRequest, Leave, Goto, TypeOK, Labels
  <2> QED
    BY <1>11, <2>1, <2>2 DEF Push, OpenPullRequest, Leave, TypeOK
<1>12. ASSUME NEW s \in Sessions, Remove(s)
      PROVE  TypeOK'
  <2>1. End(s) /\ pc[s] # "idle"
    BY <1>12 DEF Remove, At
  <2>2. tree' \in [Names -> TreeStates]
    BY <1>12 DEF Remove, TypeOK, NoTree, TreeStates
  <2> QED
    BY <1>12, <2>1, <2>2, EndType DEF Remove, TypeOK
<1>13. ASSUME NEW s \in Sessions, Restart(s)
      PROVE  TypeOK'
  <2>1. kills' \in 0..MaxKills
    BY <1>13, TimesAssumption DEF Restart, TypeOK
  <2>2. killed' \subseteq 1..MaxCalls
    BY <1>0, <1>13 DEF Restart, TypeOK, Calls
  <2>3. /\ windows' \in [Sessions -> [Capabilities -> [start: Times, count: Nat]]]
        /\ \A r \in Sessions : \A k \in Capabilities : windows'[r][k].count <= Limit[k]
        /\ charged' \in [Sessions -> [Capabilities -> Seq(Times)]]
        /\ ledger' \in [Sessions -> [Changes -> Times \cup {Never}]]
    BY <1>13, EmptyMemoryType DEF Restart, TypeOK
  <2>4. /\ pc' \in [Sessions -> Labels]
        /\ call' \in [Sessions -> {NoCall} \cup Calls]
    BY <1>13 DEF Restart, TypeOK, Labels
  <2>5. lost' \subseteq 1..MaxCalls /\ unsaved' \in [Sessions -> SUBSET (1..MaxCalls)]
    BY <1>13 DEF Restart, TypeOK
  <2> QED
    BY <1>13, <2>1, <2>2, <2>3, <2>4, <2>5 DEF Restart, TypeOK
<1>14. CASE Tick
  <2>1. now' \in Times
    BY <1>14, TimesAssumption DEF Tick, TypeOK, Times
  <2> QED
    BY <1>14, <2>1 DEF Tick, TypeOK
<1>15. ASSUME NEW n \in Names, Merge(n)
      PROVE  TypeOK'
  BY <1>15 DEF Merge, TypeOK
<1>16. CASE UNCHANGED vars
  BY <1>16 DEF vars, TypeOK
<1> QED
  BY <1>1, <1>2, <1>3, <1>4, <1>5, <1>6, <1>7, <1>8, <1>9, <1>10, <1>11, <1>12,
     <1>13, <1>14, <1>15, <1>16 DEF Next, Request, Step

-------------------------------------------------------------------------------
(* What reaches a branch.                                                  *)

\* What the other sessions see of a step of s.
Bystanders(s) ==
  \A r \in Sessions \ {s} : pc'[r] = pc[r] /\ call'[r] = call[r]

LEMMA InvInit == Init => Inv
<1> SUFFICES ASSUME Init PROVE Inv
  OBVIOUS
<1>1. TypeOK
  BY TypeInit
<1>2. DOMAIN grants = {}
  BY DEF Init
<1> QED
  BY <1>1, <1>2, ChangesAssumption
     DEF Init, Inv, CallsGranted, GrantsGated, OneRunning, BranchMade, IndexStaged,
         GatedCommit, TracedCommit, ClearedIsMet, ScratchExplained, Running,
         Unwritten, NoTree

\* Nothing of the invariant changes with the clock, the memory of a server or
\* the base branch.
LEMMA Frame ==
  ASSUME Inv, TypeOK',
         UNCHANGED <<pc, call, grants, branch, remote, tree, writer, log, killed, met>>
  PROVE  Inv'
BY SameRecords
   DEF Inv, CallsGranted, GrantsGated, OneRunning, BranchMade, IndexStaged, GatedCommit,
       TracedCommit, ClearedIsMet, ScratchExplained, Tree

\* A call that is granted has passed every gate.
LEMMA GrantGated ==
  ASSUME TypeOK, PlansPast, NEW s \in Sessions, NEW c \in Changes,
         NEW token \in Changes, NEW subject \in Subjects, NEW push \in BOOLEAN,
         NEW approver \in Principals \cup {None},
         Propose(s, c, token, subject, push, approver)
  PROVE  Gated(grants'[Len(grants) + 1])
<1> DEFINE g == grants'[Len(grants) + 1]
<1>1. g = [name |-> Name(s, subject), change |-> c,
           planned |-> ledger[s][c], at |-> now,
           approver |-> IF "prod" \in EnvsOf[c] THEN approver ELSE None]
  BY DEF Propose, TypeOK
<1>2. g.name[2] = OwnerOf[s]
  BY <1>1 DEF Name
<1>3. ledger[s][c] \in Times /\ ledger[s][c] <= now /\ now - ledger[s][c] <= TTL
  <2>1. ledger[s][c] \in Times /\ now \in Times /\ ~(now - ledger[s][c] > TTL)
    BY DEF Propose, Verified, Expired, TypeOK
  <2>2. ledger[s][c] <= now
    BY <2>1 DEF PlansPast
  <2> QED
    BY <2>1, <2>2, TimesAssumption DEF Times
<1> QED
  BY <1>1, <1>2, <1>3 DEF Propose, Authorized, Gated

LEMMA InvPropose ==
  ASSUME Inv, PlansPast, TypeOK', NEW s \in Sessions, NEW c \in Changes,
         NEW token \in Changes, NEW subject \in Subjects, NEW push \in BOOLEAN,
         NEW approver \in Principals \cup {None},
         Propose(s, c, token, subject, push, approver)
  PROVE  Inv'
<1> DEFINE n == Len(grants) + 1
<1> USE DEF clone
<1>1. /\ pc[s] = "idle" /\ pc'[s] = "clear" /\ Bystanders(s)
      /\ call'[s] = [id |-> n, change |-> c, name |-> Name(s, subject),
                     push |-> push, base |-> {}]
      /\ UNCHANGED <<branch, remote, tree, writer, Recorded, killed, met>>
  BY SameRecords DEF Propose, Dispatch, Bystanders, Inv, TypeOK
<1>2. /\ DOMAIN grants' = DOMAIN grants \cup {n} /\ n \notin DOMAIN grants
      /\ \A i \in DOMAIN grants : grants'[i] = grants[i]
      /\ grants'[n].name = Name(s, subject) /\ grants'[n].change = c
  BY DEF Propose, Inv, TypeOK
<1>3. n \in 1..MaxCalls /\ call'[s] \in Calls
  <2>1. n \in 1..MaxCalls
    BY TimesAssumption DEF Propose, Inv, TypeOK
  <2> QED
    BY <1>1, <2>1, NameType DEF Calls, Inv
<1> HIDE DEF n
<1>4. CallsGranted'
  BY <1>1, <1>2, <1>3 DEF Inv, CallsGranted, Bystanders
<1>5. GrantsGated'
  <2>1. Gated(grants'[n])
    BY GrantGated DEF Inv, n
  <2> QED
    BY <1>2, <2>1 DEF Inv, GrantsGated
<1>6. OneRunning' /\ BranchMade' /\ IndexStaged' /\ ClearedIsMet'
  BY <1>1 DEF Inv, OneRunning, BranchMade, IndexStaged, ClearedIsMet, Bystanders, Running,
              Unwritten, Tree
<1>7. GatedCommit'
  BY <1>1, <1>2 DEF Inv, GatedCommit
<1>8. TracedCommit'
  BY <1>1 DEF Inv, TracedCommit, Bystanders
<1>9. ScratchExplained'
  BY <1>1, <1>2 DEF Inv, ScratchExplained, Bystanders, Running
<1> QED
  BY <1>4, <1>5, <1>6, <1>7, <1>8, <1>9 DEF Inv

\* A call in progress, as its steps see it.
LEMMA InCall ==
  ASSUME Inv, NEW s \in Sessions, pc[s] # "idle"
  PROVE  /\ call[s] \in Calls
         /\ call[s].name \in Names /\ call[s].change \in Changes
         /\ call[s].id \in DOMAIN grants /\ call[s].id \in 1..MaxCalls
         /\ grants[call[s].id].name = call[s].name
         /\ grants[call[s].id].change = call[s].change
         /\ tree[call[s].name] \in TreeStates
BY DEF Inv, CallsGranted, Calls, TypeOK

\* What a step may do to the directory of its call, from t to u.
TreeMove(s, t, u) ==
  /\ u.link => t.link
  /\ u.dir => t.dir \/ pc[s] \in Running
  /\ t.link /\ ~u.link => call[s].name \in met'
  /\ \/ u.index = t.index
     \/ ~u.link
     \/ pc[s] \in Running /\ u.index \in {Torn, call[s].change}
  /\ pc'[s] \in {"status", "commit"} /\ u.link => u.index \in {Torn, call[s].change}

\* A step of s that leaves the branches and the calls alone and makes no new
\* worktree.
LEMMA TreeStep ==
  ASSUME Inv, TypeOK', NEW s \in Sessions, pc[s] # "idle", pc'[s] # "idle",
         Bystanders(s), UNCHANGED <<call, grants, branch, remote, writer, Recorded, killed>>,
         pc'[s] \in Running => pc[s] \in Running,
         pc[s] \in Running => pc'[s] \in Running,
         pc'[s] \in Unwritten => pc[s] \in Unwritten,
         met \subseteq met',
         pc'[s] = "clearing" => call[s].name \in met',
         \A n \in Names \ {call[s].name} : tree'[n] = tree[n],
         TreeMove(s, tree[call[s].name], tree'[call[s].name])
  PROVE  Inv'
<1> DEFINE n == call[s].name
<1>1. n \in Names
  BY InCall
<1>2. CallsGranted' /\ GrantsGated'
  BY DEF Inv, CallsGranted, GrantsGated, Bystanders
<1>3. OneRunning' /\ BranchMade'
  BY DEF Inv, OneRunning, BranchMade, Bystanders
<1>4. IndexStaged'
  <2> SUFFICES ASSUME NEW r \in Sessions, pc'[r] \in {"status", "commit"},
                      tree'[call[r].name].link
               PROVE  tree'[call[r].name].index \in {Torn, call[r].change}
    BY DEF IndexStaged, Tree
  <2>1. CASE r = s
    BY <2>1 DEF TreeMove
  <2>2. CASE r # s
    <3>1. /\ pc[r] \in {"status", "commit"} /\ pc[r] \in Running /\ pc[r] # "idle"
          /\ call[r].name \in Names
      BY <2>2, InCall DEF Bystanders, Running
    <3>2. CASE call[r].name = n
      <4>1. pc[s] \notin Running
        BY <2>2, <3>1, <3>2 DEF Inv, OneRunning
      <4> QED
        BY <3>1, <3>2, <4>1 DEF Inv, IndexStaged, Tree, TreeMove
    <3>3. CASE call[r].name # n
      BY <3>1, <3>3 DEF Inv, IndexStaged, Tree
    <3> QED
      BY <3>2, <3>3
  <2> QED
    BY <2>1, <2>2
<1>5. GatedCommit'
  BY DEF Inv, GatedCommit
<1>6. TracedCommit'
  BY DEF Inv, TracedCommit, Bystanders
<1>7. ClearedIsMet'
  <2>1. \A r \in Sessions : pc'[r] = "clearing" => call[r].name \in met'
    BY DEF Inv, ClearedIsMet, Bystanders
  <2>2. ASSUME NEW r \in Sessions, pc'[r] \in Running
        PROVE  tree'[call[r].name].link \/ call[r].name \in met'
    <3>1. pc[r] \in Running /\ pc[r] # "idle" /\ call[r].name \in Names
      BY <2>2, InCall DEF Bystanders, Running
    <3> QED
      BY <3>1 DEF Inv, ClearedIsMet, Tree, TreeMove
  <2>3. ASSUME NEW m \in Names, tree'[m].dir
        PROVE  tree'[m].link \/ m \in met'
    BY <2>3 DEF Inv, ClearedIsMet, Tree, TreeMove
  <2> QED
    BY <2>1, <2>2, <2>3 DEF ClearedIsMet, Tree
<1>8. ScratchExplained'
  <2>1. \A r \in Sessions : pc[r] \in Running => pc'[r] \in Running
    BY DEF Bystanders
  <2> QED
    BY <2>1 DEF Inv, ScratchExplained, TreeMove
<1> QED
  BY <1>2, <1>3, <1>4, <1>5, <1>6, <1>7, <1>8 DEF Inv

\* The steps before the branch is made, on a directory that is in the way.
LEMMA InvClear ==
  ASSUME Inv, TypeOK', NEW s \in Sessions, Clear(s)
  PROVE  Inv'
<1> USE DEF clone, memory
<1>1. /\ pc[s] = "clear" /\ pc'[s] \in {"clearing", "add"} /\ Bystanders(s)
      /\ UNCHANGED <<call, grants, branch, remote, tree, writer, Recorded, killed>>
      /\ met \subseteq met'
      /\ pc'[s] = "clearing" => call[s].name \in met'
  BY SameRecords DEF Clear, At, Goto, Bystanders, Inv, TypeOK
<1>2. CallsGranted' /\ GrantsGated'
  BY <1>1 DEF Inv, CallsGranted, GrantsGated, Bystanders
<1>3. OneRunning' /\ BranchMade' /\ IndexStaged'
  BY <1>1 DEF Inv, OneRunning, BranchMade, IndexStaged, Bystanders, Running, Unwritten, Tree
<1>4. ClearedIsMet'
  BY <1>1 DEF Inv, ClearedIsMet, Bystanders, Running, Tree
<1>5. GatedCommit' /\ TracedCommit' /\ ScratchExplained'
  BY <1>1 DEF Inv, GatedCommit, TracedCommit, ScratchExplained, Bystanders, Running
<1> QED
  BY <1>2, <1>3, <1>4, <1>5 DEF Inv

LEMMA InvRemoveEntry ==
  ASSUME Inv, TypeOK', NEW s \in Sessions, RemoveEntry(s) \/ RemoveDir(s)
  PROVE  Inv'
<1> USE DEF clone, memory, history
<1> DEFINE n == call[s].name
<1>1. /\ pc[s] = "clearing" /\ pc'[s] \in {"clearing", "add"} /\ Bystanders(s)
      /\ UNCHANGED <<call, grants, branch, remote, writer, Recorded, killed, met>>
  BY SameRecords DEF RemoveEntry, RemoveDir, At, Goto, Bystanders, Inv, TypeOK
<1>2. n \in met /\ n \in Names /\ tree \in [Names -> TreeStates] /\ tree[n] \in TreeStates
  BY <1>1, InCall DEF Inv, ClearedIsMet, TypeOK
<1>3. /\ \A m \in Names \ {n} : tree'[m] = tree[m]
      /\ tree'[n].link => tree[n].link
      /\ tree'[n].dir => tree[n].dir
      /\ tree'[n].index = tree[n].index \/ ~tree'[n].link
  <2>1. CASE RemoveDir(s)
    BY <1>2, <2>1 DEF RemoveDir, NoTree
  <2>2. CASE RemoveEntry(s)
    BY <1>2, <2>2 DEF RemoveEntry, TreeStates
  <2> QED
    BY <2>1, <2>2
<1>4. TreeMove(s, tree[n], tree'[n])
  BY <1>1, <1>2, <1>3 DEF TreeMove
<1>5. /\ pc[s] # "idle" /\ pc'[s] # "idle"
      /\ pc[s] \notin Running /\ pc'[s] \notin Running /\ pc'[s] \notin Unwritten
  BY <1>1 DEF Running, Unwritten
<1> QED
  BY <1>1, <1>2, <1>3, <1>4, <1>5, TreeStep

\* A call that ends before it made its branch.
LEMMA InvRefused ==
  ASSUME Inv, TypeOK', NEW s \in Sessions, ClearFails(s) \/ Collide(s)
  PROVE  Inv'
<1> USE DEF clone, memory
<1>1. /\ pc[s] \in {"clearing", "add"} /\ pc'[s] = "idle" /\ Bystanders(s)
      /\ UNCHANGED <<grants, branch, remote, tree, writer, killed, met>>
      /\ Recorded' = Recorded \cup {call[s].id}
  <2>1. End(s) /\ Recorded' = Recorded \cup {call[s].id}
    BY EndRecords DEF ClearFails, Collide, Inv
  <2> QED
    BY <2>1 DEF ClearFails, Collide, At, Goto, End, Bystanders, Inv, TypeOK
<1>2. CallsGranted' /\ GrantsGated'
  BY <1>1 DEF Inv, CallsGranted, GrantsGated, Bystanders
<1>3. OneRunning' /\ BranchMade' /\ IndexStaged' /\ ClearedIsMet'
  BY <1>1 DEF Inv, OneRunning, BranchMade, IndexStaged, ClearedIsMet, Bystanders, Running,
              Unwritten, Tree
<1>4. GatedCommit' /\ TracedCommit' /\ ScratchExplained'
  BY <1>1 DEF Inv, GatedCommit, TracedCommit, ScratchExplained, Bystanders, Running
<1> QED
  BY <1>2, <1>3, <1>4 DEF Inv

LEMMA InvAddWorktree ==
  ASSUME Inv, TypeOK', NEW s \in Sessions, AddWorktree(s)
  PROVE  Inv'
<1> USE DEF memory, history
<1> DEFINE n == call[s].name
<1>1. /\ pc[s] = "add" /\ pc'[s] = "write" /\ Bystanders(s)
      /\ branch[n] = None
      /\ UNCHANGED <<grants, remote, writer, Recorded, killed, met>>
  BY SameRecords DEF AddWorktree, At, Goto, Bystanders, Inv, TypeOK
<1>2. n \in Names /\ call[s] \in Calls /\ base \subseteq Changes
  BY <1>1, InCall DEF Inv, TypeOK
<1>3. /\ branch'[n] = Same /\ tree'[n] = Fresh
      /\ \A m \in Names \ {n} : branch'[m] = branch[m] /\ tree'[m] = tree[m]
  BY <1>2 DEF AddWorktree, Inv, TypeOK
<1>4. /\ call'[s] \in Calls /\ call'[s].name = n
      /\ call'[s].id = call[s].id /\ call'[s].change = call[s].change
  <2>1. call'[s] = [call[s] EXCEPT !.base = base]
    BY DEF AddWorktree, Inv, TypeOK
  <2> QED
    BY <1>2, <2>1 DEF Calls
<1>5. \A r \in Sessions : pc[r] \in Running => call[r].name # n /\ r # s
  BY <1>1 DEF Inv, BranchMade, Running
<1>6. CallsGranted' /\ GrantsGated'
  BY <1>1, <1>4, SMTT(30) DEF Inv, CallsGranted, GrantsGated, Bystanders
<1>7. OneRunning'
  BY <1>1, <1>4, <1>5 DEF Inv, OneRunning, Bystanders
<1>8. BranchMade'
  <2>1. \A r \in Sessions : pc'[r] \in Running => branch'[call'[r].name] # None
    <3>1. \A r \in Sessions : pc[r] \in Running => call[r].name \in Names
      BY InCall DEF Running
    <3> QED
      BY <1>1, <1>2, <1>3, <1>4, <3>1 DEF Inv, BranchMade, Bystanders, Running, Same, None
  <2>2. remote[n] = None
    BY <1>1, <1>2 DEF Inv, BranchMade
  <2>3. \A r \in Sessions : pc'[r] \in Unwritten =>
          branch'[call'[r].name] = Same /\ remote'[call'[r].name] = None
    <3>1. \A r \in Sessions : pc[r] \in Unwritten => call[r].name \in Names
      BY InCall DEF Unwritten
    <3> QED
      BY <1>1, <1>2, <1>3, <1>4, <2>2, <3>1 DEF Inv, BranchMade, Bystanders, Unwritten
  <2>4. \A m \in Names : remote'[m] \in {None, branch'[m]}
    BY <1>1, <1>3, <2>2 DEF Inv, BranchMade
  <2> QED
    BY <2>1, <2>3, <2>4 DEF BranchMade
<1>9. IndexStaged'
  <2>1. \A r \in Sessions \ {s} : pc[r] \in {"status", "commit"} =>
          call[r].name # n /\ call[r].name \in Names
    BY <1>5, InCall DEF Running
  <2> QED
    BY <1>1, <1>3, <2>1 DEF Inv, IndexStaged, Bystanders, Tree
<1>10. GatedCommit'
  BY <1>1, <1>3, ChangesAssumption DEF Inv, GatedCommit
<1>11. TracedCommit'
  BY <1>1, <1>3, <1>4 DEF Inv, TracedCommit, Bystanders
<1>12. ClearedIsMet'
  <2>1. \A r \in Sessions \ {s} : pc[r] \in Running =>
          call[r].name # n /\ call[r].name \in Names
    BY <1>5, InCall DEF Running
  <2> QED
    BY <1>1, <1>3, <1>4, <2>1 DEF Inv, ClearedIsMet, Bystanders, Tree, Fresh
<1>13. ScratchExplained'
  <2>1. pc'[s] \in Running /\ call'[s].name = n
    BY <1>1, <1>4 DEF Running
  <2>2. \A r \in Sessions : pc[r] \in Running => pc'[r] \in Running /\ call'[r] = call[r]
    BY <1>1, <1>5 DEF Bystanders
  <2> QED
    BY <1>1, <1>3, <2>1, <2>2 DEF Inv, ScratchExplained
<1> QED
  BY <1>6, <1>7, <1>8, <1>9, <1>10, <1>11, <1>12, <1>13 DEF Inv

\* The steps that fill the directory and look at it.
LEMMA InvFill ==
  ASSUME Inv, TypeOK', NEW s \in Sessions, ApplyFiles(s) \/ GitAdd(s) \/ Status(s)
  PROVE  Inv'
<1> USE DEF clone, memory, history
<1> DEFINE n == call[s].name
<1>1. /\ pc[s] \in Unwritten /\ pc[s] \in Running /\ pc[s] # "idle"
      /\ pc'[s] \in Running /\ pc'[s] \notin {"idle", "clearing"}
      /\ UNCHANGED <<call, grants, branch, remote, writer, Recorded, killed, met>>
      /\ Bystanders(s)
  BY SameRecords DEF ApplyFiles, GitAdd, Status, Leave, At, Goto, Bystanders, Inv, TypeOK, Running,
         Unwritten
<1>2. n \in Names /\ tree[n] \in TreeStates /\ tree \in [Names -> TreeStates]
  BY <1>1, InCall DEF Inv, TypeOK
<1>3. /\ \A m \in Names \ {n} : tree'[m] = tree[m]
      /\ tree'[n].link = tree[n].link
      /\ \/ tree'[n].index = tree[n].index
         \/ tree'[n].index \in {Torn, call[s].change}
      /\ pc'[s] \in {"status", "commit"} /\ tree'[n].link =>
           tree'[n].index \in {Torn, call[s].change}
  <2>1. CASE ApplyFiles(s)
    <3>1. CASE tree' = tree /\ pc' = [pc EXCEPT ![s] = "remove"]
      BY <3>1 DEF Inv, TypeOK
    <3>2. CASE /\ tree' = [tree EXCEPT ![n] = [@ EXCEPT !.dir = TRUE, !.paths = "written"]]
               /\ pc' = [pc EXCEPT ![s] = "stage"]
      BY <1>2, <3>2 DEF Inv, TypeOK, TreeStates
    <3> QED
      BY <2>1, <3>1, <3>2 DEF ApplyFiles, Leave, Goto
  <2>2. CASE GitAdd(s)
    <3>1. CASE tree' = tree /\ pc' = [pc EXCEPT ![s] = "remove"]
      BY <3>1 DEF Inv, TypeOK
    <3>2. CASE \E i \in {Torn, call[s].change} : tree' = [tree EXCEPT ![n].index = i]
      BY <1>2, <3>2 DEF TreeStates
    <3> QED
      BY <2>2, <3>1, <3>2 DEF GitAdd, Leave, Goto
  <2>3. CASE Status(s)
    <3>1. tree' = tree /\ pc[s] = "status"
      BY <2>3 DEF Status, Leave, At
    <3>2. Tree(s).link => Tree(s).index \in {Torn, call[s].change}
      BY <3>1 DEF Inv, IndexStaged
    <3> QED
      BY <3>1, <3>2 DEF Tree
  <2> QED
    BY <2>1, <2>2, <2>3
<1>4. TreeMove(s, tree[n], tree'[n])
  BY <1>1, <1>3 DEF TreeMove
<1> QED
  BY <1>1, <1>3, <1>4, TreeStep

\* The directory of a call that has committed, or left, is not looked at again.
LEMMA InvPush ==
  ASSUME Inv, TypeOK', NEW s \in Sessions, Push(s)
  PROVE  Inv'
<1> USE DEF clone, memory, history
<1> DEFINE n == call[s].name
<1>1. /\ pc[s] = "push" /\ pc'[s] \in {"pull", "remove"} /\ Bystanders(s)
      /\ UNCHANGED <<call, grants, branch, tree, writer, Recorded, killed, met>>
  BY SameRecords DEF Push, Leave, At, Goto, Bystanders, Inv, TypeOK
<1>2. n \in Names
  BY <1>1, InCall
<1>3. \/ remote' = remote
      \/ remote' = [remote EXCEPT ![n] = branch[n]]
  BY DEF Push, Leave
<1>4. BranchMade'
  <2>1. \A r \in Sessions : pc'[r] \in Running => branch'[call'[r].name] # None
    BY <1>1 DEF Inv, BranchMade, Bystanders, Running
  <2>2. ASSUME NEW r \in Sessions, pc'[r] \in Unwritten
        PROVE  branch'[call'[r].name] = Same /\ remote'[call'[r].name] = None
    <3>1. /\ r # s /\ pc[r] \in Unwritten /\ pc[r] \in Running /\ call'[r] = call[r]
          /\ pc[s] \in Running
      BY <1>1, <2>2 DEF Bystanders, Unwritten, Running
    <3>2. call[r].name # n /\ call[r].name \in Names
      BY <3>1, InCall DEF Inv, OneRunning, Unwritten
    <3>3. branch[call[r].name] = Same /\ remote[call[r].name] = None
      BY <3>1 DEF Inv, BranchMade
    <3>4. remote'[call[r].name] = remote[call[r].name]
      BY <1>3, <3>2 DEF Inv, TypeOK
    <3> QED
      BY <1>1, <3>1, <3>3, <3>4
  <2>3. \A m \in Names : remote'[m] \in {None, branch'[m]}
    BY <1>1, <1>3 DEF Inv, BranchMade, TypeOK
  <2> QED
    BY <2>1, <2>2, <2>3 DEF BranchMade
<1>5. CallsGranted' /\ GrantsGated' /\ OneRunning'
  BY <1>1 DEF Inv, CallsGranted, GrantsGated, OneRunning, Bystanders, Running
<1>6. IndexStaged' /\ ClearedIsMet' /\ ScratchExplained'
  BY <1>1 DEF Inv, IndexStaged, ClearedIsMet, ScratchExplained, Bystanders, Running, Tree
<1>7. GatedCommit' /\ TracedCommit'
  BY <1>1 DEF Inv, GatedCommit, TracedCommit, Bystanders
<1> QED
  BY <1>4, <1>5, <1>6, <1>7 DEF Inv

LEMMA InvOpenPullRequest ==
  ASSUME Inv, TypeOK', NEW s \in Sessions, OpenPullRequest(s)
  PROVE  Inv'
<1> USE DEF memory, history
<1>1. /\ pc[s] = "pull" /\ pc'[s] = "remove" /\ Bystanders(s)
      /\ UNCHANGED <<call, grants, branch, remote, writer, Recorded, killed, met>>
      /\ \A m \in Names : tree'[m] = tree[m]
  BY SameRecords DEF OpenPullRequest, At, Goto, Bystanders, Inv, TypeOK
<1>2. TreeMove(s, tree[call[s].name], tree'[call[s].name])
  BY <1>1, InCall DEF TreeMove
<1>3. /\ pc[s] # "idle" /\ pc'[s] \notin {"idle", "clearing"} /\ pc[s] \in Running
      /\ pc'[s] \in Running /\ pc'[s] \notin Unwritten
  BY <1>1 DEF Running, Unwritten
<1> QED
  BY <1>1, <1>2, <1>3, TreeStep

\* git commit: the one step that writes a branch.
LEMMA InvCommit ==
  ASSUME Inv, TypeOK', NEW s \in Sessions, Commit(s)
  PROVE  Inv'
<1> USE DEF clone, memory, history
<1> DEFINE n == call[s].name
<1>1. /\ pc[s] = "commit" /\ pc'[s] \in {"push", "remove"} /\ Bystanders(s)
      /\ UNCHANGED <<call, grants, remote, tree, Recorded, killed, met>>
  BY SameRecords DEF Commit, Leave, At, Goto, Bystanders, Inv, TypeOK
<1>2. /\ n \in Names /\ call[s].id \in DOMAIN grants /\ call[s].change \in Changes
      /\ grants[call[s].id].name = n /\ grants[call[s].id].change = call[s].change
  BY <1>1, InCall
<1>3. /\ branch[n] = Same /\ remote[n] = None
      /\ \A r \in Sessions \ {s} : pc[r] \in Running => call[r].name # n
  BY <1>1 DEF Inv, BranchMade, OneRunning, Running, Unwritten
<1>4. \/ UNCHANGED <<branch, writer>>
      \/ /\ branch'[n] \in {Torn, call[s].change} /\ writer'[n] = call[s].id
         /\ \A m \in Names \ {n} : branch'[m] = branch[m] /\ writer'[m] = writer[m]
  <2>1. CASE UNCHANGED <<branch, writer>>
    BY <2>1
  <2>2. CASE /\ Staged(s)
             /\ branch' = [branch EXCEPT ![n] = Tree(s).index]
             /\ writer' = [writer EXCEPT ![n] = call[s].id]
    <3>1. Tree(s).index \in {Torn, call[s].change}
      BY <1>1, <2>2 DEF Staged, Inv, IndexStaged
    <3> QED
      BY <1>2, <2>2, <3>1 DEF Inv, TypeOK
  <2> QED
    BY <2>1, <2>2 DEF Commit, Leave
<1>5. CallsGranted' /\ GrantsGated' /\ OneRunning'
  BY <1>1 DEF Inv, CallsGranted, GrantsGated, OneRunning, Bystanders, Running
<1>6. BranchMade'
  <2>1. branch'[n] \notin {None} /\ \A m \in Names \ {n} : branch'[m] = branch[m]
    BY <1>2, <1>3, <1>4, ChangesAssumption DEF Torn, None, Same
  <2>2. \A r \in Sessions : pc[r] \in Running \cup Unwritten => call[r].name \in Names
    BY InCall DEF Running, Unwritten
  <2>3. \A r \in Sessions : pc'[r] \in Running => branch'[call'[r].name] # None
    BY <1>1, <2>1, <2>2 DEF Inv, BranchMade, Bystanders, Running
  <2>4. ASSUME NEW r \in Sessions, pc'[r] \in Unwritten
        PROVE  branch'[call'[r].name] = Same /\ remote'[call'[r].name] = None
    <3>1. /\ r # s /\ pc[r] \in Unwritten /\ pc[r] \in Running /\ call'[r] = call[r]
          /\ call[r].name \in Names
      BY <1>1, <2>2, <2>4 DEF Bystanders, Unwritten, Running
    <3>2. branch[call[r].name] = Same /\ remote[call[r].name] = None
      BY <3>1 DEF Inv, BranchMade
    <3>3. branch'[call[r].name] = branch[call[r].name]
      BY <1>3, <2>1, <3>1
    <3> QED
      BY <1>1, <3>1, <3>2, <3>3
  <2>5. \A m \in Names : remote'[m] \in {None, branch'[m]}
    BY <1>1, <1>3, <2>1 DEF Inv, BranchMade
  <2> QED
    BY <2>3, <2>4, <2>5 DEF BranchMade
<1>7. IndexStaged' /\ ClearedIsMet' /\ ScratchExplained'
  BY <1>1 DEF Inv, IndexStaged, ClearedIsMet, ScratchExplained, Bystanders, Running, Tree
<1>8. GatedCommit'
  <2> SUFFICES ASSUME NEW m \in Names, branch'[m] \in Changes
               PROVE  /\ writer'[m] \in DOMAIN grants
                      /\ grants[writer'[m]].name = m
                      /\ grants[writer'[m]].change = branch'[m]
                      /\ grants[writer'[m]].planned \in Times
                      /\ grants[writer'[m]].planned <= grants[writer'[m]].at
                      /\ grants[writer'[m]].at - grants[writer'[m]].planned <= TTL
                      /\ EnvsOf[branch'[m]] \subseteq Granted[m[2]]
                      /\ "prod" \in EnvsOf[branch'[m]] =>
                           grants[writer'[m]].approver \in Approvers \ {m[2]}
    BY <1>1 DEF GatedCommit
  <2>1. CASE branch'[m] = branch[m] /\ writer'[m] = writer[m]
    BY <2>1 DEF Inv, GatedCommit
  <2>2. CASE m = n /\ branch'[n] \in {Torn, call[s].change} /\ writer'[n] = call[s].id
    <3>1. branch'[n] = call[s].change
      BY <2>2, ChangesAssumption
    <3> QED
      BY <1>2, <2>2, <3>1 DEF Inv, GrantsGated, Gated
  <2> QED
    BY <1>4, <2>1, <2>2
<1>9. TracedCommit'
  <2>1. pc'[s] # "idle" /\ call'[s].id = call[s].id
    BY <1>1
  <2> QED
    BY <1>1, <1>4, <2>1 DEF Inv, TracedCommit, Bystanders
<1> QED
  BY <1>5, <1>6, <1>7, <1>8, <1>9 DEF Inv

LEMMA InvRemove ==
  ASSUME Inv, TypeOK', NEW s \in Sessions, Remove(s)
  PROVE  Inv'
<1> USE DEF memory
<1> DEFINE n == call[s].name
<1>1. /\ pc[s] = "remove" /\ pc'[s] = "idle" /\ Bystanders(s)
      /\ UNCHANGED <<grants, branch, remote, writer, killed, met>>
      /\ Recorded' = Recorded \cup {call[s].id}
  <2>1. End(s) /\ Recorded' = Recorded \cup {call[s].id}
    BY EndRecords DEF Remove, Inv
  <2> QED
    BY <2>1 DEF Remove, At, Goto, End, Bystanders, Inv, TypeOK
<1>2. n \in Names
  BY <1>1, InCall
<1>3. /\ \A m \in Names \ {n} : tree'[m] = tree[m]
      /\ \/ tree'[n] = NoTree
         \/ tree'[n] = tree[n] /\ ~tree[n].link
  BY <1>2 DEF Remove, Inv, TypeOK
<1>4. \A r \in Sessions \ {s} : pc[r] \in Running => call[r].name # n /\ call[r].name \in Names
  BY <1>1, InCall DEF Inv, OneRunning, Running
<1>5. CallsGranted' /\ GrantsGated' /\ OneRunning' /\ BranchMade'
  BY <1>1, SMTT(30) DEF Inv, CallsGranted, GrantsGated, OneRunning, BranchMade, Bystanders,
              Running, Unwritten
<1>6. IndexStaged'
  BY <1>1, <1>3, <1>4 DEF Inv, IndexStaged, Bystanders, Running, Tree
<1>7. GatedCommit' /\ TracedCommit'
  BY <1>1 DEF Inv, GatedCommit, TracedCommit, Bystanders
<1>8. ClearedIsMet'
  <2>1. tree'[n].dir => n \in met
    BY <1>2, <1>3 DEF Inv, ClearedIsMet, NoTree
  <2> QED
    BY <1>1, <1>3, <1>4, <2>1 DEF Inv, ClearedIsMet, Bystanders, Running, Tree
<1>9. ScratchExplained'
  <2>1. tree'[n].dir => n \in met
    BY <1>2, <1>3 DEF Inv, ClearedIsMet, NoTree
  <2>2. \A r \in Sessions \ {s} : pc'[r] = pc[r] /\ call'[r] = call[r]
    BY <1>1 DEF Bystanders
  <2>3. ASSUME NEW m \in Names \ {n}, tree'[m].dir
        PROVE  \/ \E r \in Sessions : pc'[r] \in Running /\ call'[r].name = m
               \/ \E i \in killed : grants[i].name = m
               \/ m \in met
    BY <1>3, <2>2, <2>3 DEF Inv, ScratchExplained
  <2> QED
    BY <1>1, <2>1, <2>3 DEF Inv, ScratchExplained
<1> QED
  BY <1>5, <1>6, <1>7, <1>8, <1>9 DEF Inv

\* A process that is killed leaves its directory and its commit behind, and the
\* identity of the call it was in.
LEMMA InvRestart ==
  ASSUME Inv, TypeOK', NEW s \in Sessions, Restart(s)
  PROVE  Inv'
<1> USE DEF clone
<1>1. /\ pc'[s] = "idle" /\ Bystanders(s)
      /\ UNCHANGED <<grants, branch, remote, tree, writer, Recorded, met>>
      /\ killed' = IF pc[s] = "idle" THEN killed ELSE killed \cup {call[s].id}
  <2>1. Recorded' = Recorded
    BY RestartRecords DEF Inv
  <2> QED
    BY <2>1 DEF Restart, Bystanders, Inv, TypeOK
<1>2. CallsGranted' /\ GrantsGated' /\ OneRunning' /\ BranchMade' /\ IndexStaged'
  BY <1>1 DEF Inv, CallsGranted, GrantsGated, OneRunning, BranchMade, IndexStaged,
              Bystanders, Running, Unwritten, Tree
<1>3. GatedCommit' /\ TracedCommit'
  BY <1>1 DEF Inv, GatedCommit, TracedCommit, Bystanders
<1>4. ClearedIsMet'
  BY <1>1 DEF Inv, ClearedIsMet, Bystanders, Running, Tree
<1>5. ScratchExplained'
  <2>1. killed' \subseteq DOMAIN grants
    BY <1>1, InCall DEF Inv, ScratchExplained
  <2>2. ASSUME NEW m \in Names, tree[m].dir
        PROVE  \/ \E r \in Sessions : pc'[r] \in Running /\ call'[r].name = m
               \/ \E i \in killed' : grants[i].name = m
               \/ m \in met
    <3>1. CASE \E i \in killed : grants[i].name = m
      BY <1>1, <3>1
    <3>2. CASE m \in met
      BY <3>2
    <3>3. ASSUME NEW r \in Sessions, pc[r] \in Running, call[r].name = m
          PROVE  \/ \E q \in Sessions : pc'[q] \in Running /\ call'[q].name = m
                 \/ \E i \in killed' : grants[i].name = m
      <4>1. CASE r = s
        BY <1>1, <3>3, <4>1, InCall DEF Running
      <4>2. CASE r # s
        BY <1>1, <3>3, <4>2 DEF Bystanders
      <4> QED
        BY <4>1, <4>2
    <3> QED
      BY <2>2, <3>1, <3>2, <3>3 DEF Inv, ScratchExplained
  <2> QED
    BY <1>1, <2>1, <2>2 DEF ScratchExplained
<1> QED
  BY <1>2, <1>3, <1>4, <1>5 DEF Inv

LEMMA InvStep == Inv /\ PlansPast /\ [Next]_vars => Inv'
<1> SUFFICES ASSUME Inv, PlansPast, [Next]_vars PROVE Inv'
  OBVIOUS
<1> USE DEF memory, clone, history
<1>1. TypeOK'
  BY TypeStep DEF Inv
<1>2. ASSUME NEW s \in Sessions, Step(s)
      PROVE  Inv'
  BY <1>1, <1>2, InvClear, InvRemoveEntry, InvRefused, InvAddWorktree, InvFill,
     InvPush, InvOpenPullRequest, InvCommit, InvRemove DEF Step
<1>3. ASSUME NEW s \in Sessions, Request(s)
      PROVE  Inv'
  <2>1. ASSUME NEW c \in Changes, Plan(s, c) \/ ProposeNothing(s, c)
        PROVE  Inv'
    BY <1>1, <2>1, Frame DEF Plan, ProposeNothing
  <2> QED
    BY <1>1, <1>3, <2>1, InvPropose DEF Request
<1>4. ASSUME NEW s \in Sessions, Restart(s)
      PROVE  Inv'
  BY <1>1, <1>4, InvRestart
<1>5. CASE Tick
  BY <1>1, <1>5, Frame DEF Tick
<1>6. ASSUME NEW n \in Names, Merge(n)
      PROVE  Inv'
  BY <1>1, <1>6, Frame DEF Merge
<1>7. CASE UNCHANGED vars
  BY <1>1, <1>7, Frame DEF vars
<1> QED
  BY <1>2, <1>3, <1>4, <1>5, <1>6, <1>7 DEF Next

\* A plan is of the time it is made at.
LEMMA PlansStep == TypeOK /\ PlansPast /\ [Next]_vars => PlansPast'
<1> SUFFICES ASSUME TypeOK, PlansPast, [Next]_vars,
                    NEW r \in Sessions, NEW d \in Changes, ledger'[r][d] \in Times
             PROVE  ledger'[r][d] <= now'
  BY DEF PlansPast
<1> USE DEF memory
<1>1. now \in Int /\ Times \subseteq Int /\ Never \notin Times
  BY TimesAssumption DEF TypeOK, Times, Never
<1>2. ASSUME ledger'[r][d] = ledger[r][d], now' \in {now, now + 1}
      PROVE  ledger'[r][d] <= now'
  <2>1. ledger[r][d] \in Times /\ ledger[r][d] <= now
    BY <1>2 DEF PlansPast
  <2>2. ledger[r][d] \in Int /\ now \in Int
    BY <1>1, <2>1
  <2>3. ledger[r][d] <= now /\ ledger[r][d] <= now + 1
    BY <2>1, <2>2
  <2>4. CASE now' = now
    BY <1>2, <2>3, <2>4
  <2>5. CASE now' = now + 1
    BY <1>2, <2>3, <2>5
  <2> QED
    BY <1>2, <2>4, <2>5
<1>3. ASSUME ledger'[r][d] = now, now' = now
      PROVE  ledger'[r][d] <= now'
  BY <1>1, <1>3
<1>4. ASSUME NEW s \in Sessions, Request(s)
      PROVE  now' = now /\ (ledger'[r][d] = ledger[r][d] \/ ledger'[r][d] = now)
  <2>1. ASSUME NEW c \in Changes, Plan(s, c)
        PROVE  now' = now /\ (ledger'[r][d] = ledger[r][d] \/ ledger'[r][d] = now)
    BY <2>1 DEF Plan, TypeOK
  <2>2. ASSUME NEW c \in Changes, ProposeNothing(s, c)
        PROVE  now' = now /\ ledger'[r][d] = ledger[r][d]
    BY <1>1, <2>2 DEF ProposeNothing, TypeOK
  <2> QED
    BY <1>4, <2>1, <2>2 DEF Request, Propose
<1>5. ASSUME NEW s \in Sessions, Restart(s)
      PROVE  now' = now /\ ledger'[r][d] = ledger[r][d]
  BY <1>1, <1>5 DEF Restart, TypeOK, NoPlans
<1>6. ASSUME NEW s \in Sessions, Step(s)
      PROVE  UNCHANGED <<now, ledger>>
  BY <1>6 DEF Step, Clear, RemoveEntry, RemoveDir, ClearFails, AddWorktree, Collide,
              ApplyFiles, GitAdd, Status, Commit, Push, OpenPullRequest, Remove
<1>7. Tick \/ (\E n \in Names : Merge(n)) \/ UNCHANGED vars =>
        UNCHANGED ledger /\ now' \in {now, now + 1}
  BY DEF Tick, Merge, vars
<1>8. \/ ledger'[r][d] = ledger[r][d] /\ now' \in {now, now + 1}
      \/ ledger'[r][d] = now /\ now' = now
  BY <1>4, <1>5, <1>6, <1>7 DEF Next
<1> QED
  BY <1>2, <1>3, <1>8

LEMMA PlansInit == Init => PlansPast
<1> SUFFICES ASSUME Init, NEW s \in Sessions, NEW c \in Changes PROVE ledger[s][c] \notin Times
  BY DEF PlansPast
<1>1. ledger[s][c] = Never
  BY DEF Init, NoPlans
<1> QED
  BY <1>1, TimesAssumption DEF Never, Times

LEMMA InvHolds == Spec => [](Inv /\ PlansPast)
<1>1. Inv => TypeOK
  BY DEF Inv
<1> QED
  BY <1>1, InvInit, PlansInit, InvStep, PlansStep, PTL DEF Spec

\* The server's state is well typed, whatever it is asked and however often it
\* is killed.
THEOREM TypeCorrect == Spec => []TypeOK
<1>1. Inv => TypeOK
  BY DEF Inv
<1> QED
  BY <1>1, InvHolds, PTL

\* PlanLedger and the gates of governance: what is committed on a proposal's
\* branch was planned before, no longer than TTL ago, granted and approved.
THEOREM GatedCommitHolds == Spec => []GatedCommit
<1>1. Inv => GatedCommit
  BY DEF Inv
<1> QED
  BY <1>1, InvHolds, PTL

\* AuditLog.write in dispatch's finally: a commit no record was made of is that of
\* a call in progress or of one that was killed.
THEOREM TracedCommitHolds == Spec => []TracedCommit
<1>1. Inv => TracedCommit
  BY DEF Inv
<1> QED
  BY <1>1, InvHolds, PTL

\* propose's finally: the worktrees that outlive their calls are those a killed
\* process left and those two calls met in.
THEOREM ScratchReleasedHolds == Spec => []ScratchReleased
<1>1. Inv => ScratchReleased
  <2>1. \A s \in Sessions : pc[s] \in Running => pc[s] # "idle"
    BY DEF Running
  <2> QED
    BY <2>1 DEF Inv, ScratchExplained, ScratchReleased
<1> QED
  BY <1>1, InvHolds, PTL

\* One step: what a branch holds and what origin has of it are final.
LEMMA FinalStep ==
  ASSUME Inv, Inv', [Next]_vars, NEW n \in Names
  PROVE  /\ branch[n] \notin {None, Same} => branch'[n] = branch[n]
         /\ remote[n] # None => remote'[n] = remote[n]
         /\ remote'[n] \in {None, branch'[n]}
<1> USE DEF clone, history
<1>1. remote'[n] \in {None, branch'[n]} /\ remote[n] \in {None, branch[n]}
  BY DEF Inv, BranchMade
<1>2. ASSUME NEW s \in Sessions, AddWorktree(s) \/ Commit(s)
      PROVE  /\ branch[n] \notin {None, Same} => branch'[n] = branch[n]
             /\ remote'[n] = remote[n]
  <2>1. branch[call[s].name] \in {None, Same}
    BY <1>2 DEF AddWorktree, Commit, At, Inv, BranchMade, Unwritten
  <2>2. \/ branch' = branch
        \/ \E b : branch' = [branch EXCEPT ![call[s].name] = b]
    BY <1>2 DEF AddWorktree, Commit, Leave
  <2>3. remote' = remote
    BY <1>2 DEF AddWorktree, Commit, Leave
  <2> QED
    BY <2>1, <2>2, <2>3 DEF Inv, TypeOK
<1>3. ASSUME NEW s \in Sessions, Push(s)
      PROVE  branch'[n] = branch[n] /\ (remote[n] # None => remote'[n] = remote[n])
  <2>1. \/ remote' = remote
        \/ remote' = [remote EXCEPT ![call[s].name] = branch[call[s].name]]
    BY <1>3 DEF Push, Leave
  <2>2. branch' = branch
    BY <1>3 DEF Push, Leave
  <2> QED
    BY <1>1, <2>1, <2>2 DEF Inv, TypeOK
<1>4. CASE UNCHANGED <<branch, remote>>
  BY <1>1, <1>4
<1>5. ASSUME NEW s \in Sessions, Step(s), ~AddWorktree(s), ~Commit(s), ~Push(s)
      PROVE  UNCHANGED <<branch, remote>>
  BY <1>5 DEF Step, Clear, RemoveEntry, RemoveDir, ClearFails, Collide, ApplyFiles, GitAdd,
              Status, OpenPullRequest, Remove, Leave
<1>6. ASSUME NEW s \in Sessions, Request(s) \/ Restart(s)
      PROVE  UNCHANGED <<branch, remote>>
  BY <1>6 DEF Request, Plan, ProposeNothing, Propose, Restart
<1>7. Tick \/ (\E m \in Names : Merge(m)) \/ UNCHANGED vars => UNCHANGED <<branch, remote>>
  BY DEF Tick, Merge, vars
<1> QED
  BY <1>1, <1>2, <1>3, <1>4, <1>5, <1>6, <1>7 DEF Next

\* git worktree add -b and git push: a commit on a branch stays, and origin has
\* the branch or nothing.
THEOREM BranchesAreFinalHolds == Spec => BranchesAreFinal
<1>1. Inv /\ Inv' /\ [Next]_vars =>
        [\A n \in Names :
           /\ branch[n] \notin {None, Same} => branch'[n] = branch[n]
           /\ remote[n] # None => remote'[n] = remote[n]
           /\ remote'[n] \in {None, branch'[n]}]_vars
  BY FinalStep
<1> QED
  BY <1>1, InvHolds, PTL DEF Spec, BranchesAreFinal

-------------------------------------------------------------------------------
(* The rate limiter.                                                       *)

LEMMA Interval ==
  ASSUME NEW m \in Nat
  PROVE  m + 1 \in Nat /\ \A i \in 1..(m + 1) : i \in 1..m \/ i = m + 1
OBVIOUS

\* The log with one call more.
LEMMA Longer ==
  ASSUME NEW c \in Seq(Times), NEW t \in Times
  PROVE  /\ Len(Append(c, t)) = Len(c) + 1 /\ Len(c) \in Nat /\ Len(c) + 1 \in Nat
         /\ \A i \in 1..Len(c) : Append(c, t)[i] = c[i] /\ c[i] \in Int
         /\ Append(c, t)[Len(c) + 1] = t /\ t \in Int
         /\ \A i \in 1..Len(c) + 1 : i \in 1..Len(c) \/ i = Len(c) + 1
<1>1. \A i \in 1..Len(c) : c[i] \in Times
  OBVIOUS
<1>2. \A i \in 1..Len(c) : Append(c, t)[i] = c[i]
  OBVIOUS
<1>3. Len(Append(c, t)) = Len(c) + 1 /\ Append(c, t)[Len(c) + 1] = t /\ Len(c) \in Nat
  OBVIOUS
<1>4. Times \subseteq Int
  BY DEF Times
<1>5. /\ Len(c) + 1 \in Nat
      /\ \A i \in 1..Len(c) + 1 : i \in 1..Len(c) \/ i = Len(c) + 1
  BY <1>3, Interval
<1>6. \A i \in 1..Len(c) : c[i] \in Int
  BY <1>1, <1>4
<1> QED
  BY <1>2, <1>3, <1>4, <1>5, <1>6

\* A call that starts a window.
LEMMA NewWindow ==
  ASSUME NEW c \in Seq(Times), NEW start \in Int, NEW count \in Nat, NEW t \in Times,
         NEW l \in Nat \ {0}, NEW w \in Nat,
         Tracks(c, start, count, t, l, w), SpacedBy(c, l, w),
         count = 0 \/ t - start >= w
  PROVE  /\ Tracks(Append(c, t), t, 1, t, l, w)
         /\ SpacedBy(Append(c, t), l, w)
<1> DEFINE d == Append(c, t)
<1>1. /\ Len(d) = Len(c) + 1 /\ Len(c) \in Nat /\ Len(c) + 1 \in Nat
      /\ \A i \in 1..Len(c) : d[i] = c[i] /\ c[i] \in Int
      /\ d[Len(c) + 1] = t /\ t \in Int
      /\ \A i \in 1..Len(c) + 1 : i \in 1..Len(c) \/ i = Len(c) + 1
  BY Longer
<1> HIDE DEF d
<1>2. /\ \A i \in 1..Len(d) : d[i] <= t /\ d[i] \in Int
      /\ \A i, j \in 1..Len(d) : i <= j => d[i] <= d[j]
  <2>1. \A i \in 1..Len(d) : d[i] <= t /\ d[i] \in Int
    BY <1>1, SMTT(30) DEF Tracks
  <2>2. ASSUME NEW i \in 1..Len(d), NEW j \in 1..Len(d), i <= j
        PROVE  d[i] <= d[j]
    <3>1. CASE j = Len(c) + 1
      BY <1>1, <2>1, <3>1
    <3>2. CASE j \in 1..Len(c)
      <4>1. i \in 1..Len(c)
        BY <1>1, <2>2, <3>2
      <4>2. c[i] <= c[j]
        BY <2>2, <3>2, <4>1 DEF Tracks
      <4> QED
        BY <1>1, <3>2, <4>1, <4>2
    <3> QED
      BY <1>1, <3>1, <3>2
  <2> QED
    BY <2>1, <2>2
<1>3. ASSUME NEW i \in 1..Len(c), i <= Len(c) + 1 - l
      PROVE  t - c[i] >= w
  <2>1. count > 0 /\ t - start >= w
    BY <1>1, <1>3 DEF Tracks
  <2>2. Len(c) - count + 1 \in 1..Len(c) /\ i <= Len(c) - count + 1
    BY <1>1, <1>3, <2>1 DEF Tracks
  <2>3. c[i] <= start
    BY <2>1, <2>2 DEF Tracks
  <2> QED
    BY <1>1, <2>1, <2>3
<1>4. Tracks(d, t, 1, t, l, w)
  <2>1. d[Len(d) - 1 + 1] = t /\ 1 <= Len(d) /\ 1 <= l
    BY <1>1
  <2>2. \A i \in 1..Len(d) : i = Len(d) - 1 + 1 - l => t - d[i] >= w
    BY <1>1, <1>3, SMTT(30)
  <2> QED
    BY <1>2, <2>1, <2>2 DEF Tracks
<1>5. SpacedBy(d, l, w)
  <2> SUFFICES ASSUME NEW i \in 1..Len(d), NEW j \in 1..Len(d), j = i + 2 * l - 1
               PROVE  d[j] - d[i] >= w
    BY DEF SpacedBy
  <2>1. CASE j \in 1..Len(c)
    <3>1. i \in 1..Len(c)
      BY <1>1, <2>1
    <3>2. c[j] - c[i] >= w
      BY <2>1, <3>1 DEF SpacedBy
    <3> QED
      BY <1>1, <2>1, <3>1, <3>2
  <2>2. CASE j = Len(c) + 1
    <3>1. i \in 1..Len(c) /\ i <= Len(c) + 1 - l
      BY <1>1, <2>2
    <3> QED
      BY <1>1, <1>3, <2>2, <3>1
  <2> QED
    BY <1>1, <2>1, <2>2
<1> QED
  BY <1>4, <1>5 DEF d

\* A call in a window that has room for it.
LEMMA SameWindow ==
  ASSUME NEW c \in Seq(Times), NEW start \in Int, NEW count \in Nat, NEW t \in Times,
         NEW l \in Nat \ {0}, NEW w \in Nat,
         Tracks(c, start, count, t, l, w), SpacedBy(c, l, w),
         0 < count, count < l
  PROVE  /\ Tracks(Append(c, t), start, count + 1, t, l, w)
         /\ SpacedBy(Append(c, t), l, w)
<1> DEFINE d == Append(c, t)
           first == Len(c) - count + 1
<1>1. /\ Len(d) = Len(c) + 1 /\ Len(c) \in Nat /\ Len(c) + 1 \in Nat
      /\ \A i \in 1..Len(c) : d[i] = c[i] /\ c[i] \in Int
      /\ d[Len(c) + 1] = t /\ t \in Int
      /\ \A i \in 1..Len(c) + 1 : i \in 1..Len(c) \/ i = Len(c) + 1
  BY Longer
<1> HIDE DEF d
<1>2. /\ \A i \in 1..Len(d) : d[i] <= t /\ d[i] \in Int
      /\ \A i, j \in 1..Len(d) : i <= j => d[i] <= d[j]
  <2>1. \A i \in 1..Len(d) : d[i] <= t /\ d[i] \in Int
    BY <1>1 DEF Tracks
  <2>2. ASSUME NEW i \in 1..Len(d), NEW j \in 1..Len(d), i <= j
        PROVE  d[i] <= d[j]
    <3>1. CASE j = Len(c) + 1
      BY <1>1, <2>1, <3>1
    <3>2. CASE j \in 1..Len(c)
      <4>1. i \in 1..Len(c)
        BY <1>1, <2>2, <3>2
      <4>2. c[i] <= c[j]
        BY <2>2, <3>2, <4>1 DEF Tracks
      <4> QED
        BY <1>1, <3>2, <4>1, <4>2
    <3> QED
      BY <1>1, <3>1, <3>2
  <2> QED
    BY <2>1, <2>2
<1>3. first \in 1..Len(c) /\ Len(d) - (count + 1) + 1 = first /\ c[first] = start
  BY <1>1 DEF Tracks
<1>4. \A i \in 1..Len(c) : i = first - l => start - c[i] >= w
  BY DEF Tracks
<1>5. start <= t /\ count + 1 <= Len(d) /\ count + 1 <= l
  BY <1>1 DEF Tracks
<1>6. \A i, j \in 1..Len(c) : i <= j => c[i] <= c[j]
  BY DEF Tracks
<1> HIDE DEF first
<1>7. first \in Int
  BY <1>1, <1>3
<1>8. Tracks(d, start, count + 1, t, l, w)
  <2>1. d[first] = start
    BY <1>1, <1>3
  <2>2. \A i \in 1..Len(d) : i = first - l => start - d[i] >= w
    BY <1>1, <1>3, <1>4, <1>7
  <2>3. ~(count + 1 = 0)
    OBVIOUS
  <2> QED
    BY <1>2, <1>3, <1>5, <2>1, <2>2, <2>3 DEF Tracks
<1>9. ASSUME NEW i \in 1..Len(c), i <= first - l
      PROVE  t - c[i] >= w
  <2>1. first - l \in 1..Len(c)
    BY <1>1, <1>3, <1>7, <1>9
  <2>2. c[i] <= c[first - l] /\ start - c[first - l] >= w
    BY <1>4, <1>6, <1>9, <2>1
  <2>3. c[i] \in Int /\ c[first - l] \in Int /\ t \in Int
    BY <1>1, <2>1
  <2> QED
    BY <1>5, <2>2, <2>3
<1>10. SpacedBy(d, l, w)
  <2> SUFFICES ASSUME NEW i \in 1..Len(d), NEW j \in 1..Len(d), j = i + 2 * l - 1
               PROVE  d[j] - d[i] >= w
    BY DEF SpacedBy
  <2>1. CASE j \in 1..Len(c)
    <3>1. i \in 1..Len(c)
      BY <1>1, <2>1
    <3>2. c[j] - c[i] >= w
      BY <2>1, <3>1 DEF SpacedBy
    <3> QED
      BY <1>1, <2>1, <3>1, <3>2
  <2>2. CASE j = Len(c) + 1
    <3>1. first = Len(c) - count + 1
      BY DEF first
    <3>2. i \in 1..Len(c) /\ i <= first - l
      BY <1>1, <2>2, <3>1
    <3> QED
      BY <1>1, <1>9, <2>2, <3>2
  <2> QED
    BY <1>1, <2>1, <2>2
<1> QED
  BY <1>8, <1>10 DEF d

LEMMA BudgetDispatch ==
  ASSUME TypeOK, Budget, NEW s \in Sessions, NEW k \in Capabilities, Dispatch(s, k),
         now' = now
  PROVE  BudgetOf(s, k)' /\ SpacedBy(charged'[s][k], Limit[k], Window[k])
<1> DEFINE c == charged[s][k]
           w == windows[s][k]
           v == windows'[s][k]
<1>1. Limit[k] \in Nat \ {0} /\ Window[k] \in Nat /\ Times \subseteq Int
  BY LimitsAssumption DEF Times
<1>2. c \in Seq(Times) /\ now \in Times /\ w \in [start: Times, count: Nat]
  BY <1>1 DEF TypeOK
<1>3. now \in Int /\ w.count \in Nat /\ w.start \in Int
  BY <1>1, <1>2
<1>4. /\ Tracks(c, w.start, w.count, now, Limit[k], Window[k])
      /\ SpacedBy(c, Limit[k], Window[k])
  BY DEF Budget, BudgetOf
<1>5. charged'[s][k] = Append(c, now)
  BY DEF Dispatch, TypeOK
<1>6. v = [CurrentWindow(s, k) EXCEPT !.count = @ + 1] /\ CurrentWindow(s, k).count < Limit[k]
  BY DEF Dispatch, Admitted, TypeOK
<1>7. CASE w.count = 0 \/ now - w.start >= Window[k]
  <2>1. v.start = now /\ v.count = 1
    BY <1>6, <1>7 DEF CurrentWindow
  <2> HIDE DEF c, w
  <2>2. /\ Tracks(Append(c, now), now, 1, now, Limit[k], Window[k])
        /\ SpacedBy(Append(c, now), Limit[k], Window[k])
    BY <1>1, <1>2, <1>3, <1>4, <1>7, NewWindow
  <2> QED
    BY <1>5, <2>1, <2>2 DEF BudgetOf
<1>8. CASE ~(w.count = 0 \/ now - w.start >= Window[k])
  <2>1. CurrentWindow(s, k) = w
    BY <1>8 DEF CurrentWindow
  <2> HIDE DEF w
  <2>2. v.start = w.start /\ v.count = w.count + 1 /\ w.count < Limit[k] /\ 0 < w.count
    BY <1>2, <1>3, <1>6, <1>8, <2>1
  <2> HIDE DEF c
  <2>3. /\ Tracks(Append(c, now), w.start, w.count + 1, now, Limit[k], Window[k])
        /\ SpacedBy(Append(c, now), Limit[k], Window[k])
    BY <1>1, <1>2, <1>3, <1>4, <2>2, SameWindow
  <2> QED
    BY <1>5, <2>2, <2>3 DEF BudgetOf
<1> QED
  BY <1>7, <1>8

LEMMA BudgetInit == Init => Budget
<1> SUFFICES ASSUME Init PROVE Budget
  OBVIOUS
<1>1. ASSUME NEW s \in Sessions, NEW k \in Capabilities
      PROVE  charged[s][k] = <<>> /\ windows[s][k] = [start |-> 0, count |-> 0]
  BY DEF Init, NoCharges, NoWindows
<1> QED
  BY <1>1, LimitsAssumption DEF Budget, BudgetOf, Tracks, SpacedBy, Init

LEMMA BudgetStep == TypeOK /\ Budget /\ [Next]_vars => Budget'
<1> SUFFICES ASSUME TypeOK, Budget, [Next]_vars PROVE Budget'
  OBVIOUS
<1> USE DEF memory
<1>1. ASSUME \A s \in Sessions, k \in Capabilities :
               BudgetOf(s, k)' /\ SpacedBy(charged'[s][k], Limit[k], Window[k])
      PROVE  Budget'
  BY <1>1 DEF Budget
<1>2. ASSUME NEW s \in Sessions, NEW k \in Capabilities
      PROVE  BudgetOf(s, k) /\ SpacedBy(charged[s][k], Limit[k], Window[k])
  BY DEF Budget
<1>3. ASSUME NEW s \in Sessions, NEW k \in Capabilities, now' = now,
             windows'[s][k] = windows[s][k], charged'[s][k] = charged[s][k]
      PROVE  BudgetOf(s, k)' /\ SpacedBy(charged'[s][k], Limit[k], Window[k])
  BY <1>2, <1>3 DEF BudgetOf
<1>4. ASSUME NEW s \in Sessions, NEW k \in Capabilities, Dispatch(s, k), now' = now
      PROVE  Budget'
  <2>1. ASSUME NEW r \in Sessions, NEW m \in Capabilities, <<r, m>> # <<s, k>>
        PROVE  windows'[r][m] = windows[r][m] /\ charged'[r][m] = charged[r][m]
    BY <1>4, <2>1 DEF Dispatch, TypeOK
  <2> QED
    BY <1>1, <1>3, <1>4, <2>1, BudgetDispatch
<1>5. ASSUME NEW s \in Sessions, Request(s)
      PROVE  Budget'
  <2>1. (Dispatch(s, "plan") \/ Dispatch(s, "propose")) /\ now' = now
    BY <1>5 DEF Request, Plan, ProposeNothing, Propose
  <2> QED
    BY <1>4, <2>1 DEF Capabilities
<1>6. ASSUME NEW s \in Sessions, Restart(s)
      PROVE  Budget'
  <2>1. ASSUME NEW k \in Capabilities
        PROVE  BudgetOf(s, k)' /\ SpacedBy(charged'[s][k], Limit[k], Window[k])
    <3>1. charged'[s][k] = <<>> /\ windows'[s][k] = [start |-> 0, count |-> 0]
      BY <1>6 DEF Restart, TypeOK, NoCharges, NoWindows
    <3>2. now' = now /\ 0 <= now
      BY <1>6 DEF Restart, TypeOK, Times
    <3> QED
      BY <3>1, <3>2, LimitsAssumption DEF BudgetOf, Tracks, SpacedBy
  <2>2. ASSUME NEW r \in Sessions \ {s}
        PROVE  now' = now /\ windows'[r] = windows[r] /\ charged'[r] = charged[r]
    BY <1>6 DEF Restart, TypeOK
  <2> QED
    BY <1>1, <1>3, <2>1, <2>2
<1>7. CASE Tick
  <2>1. ASSUME NEW s \in Sessions, NEW k \in Capabilities
        PROVE  BudgetOf(s, k)' /\ SpacedBy(charged'[s][k], Limit[k], Window[k])
    <3>1. now' = now + 1 /\ UNCHANGED <<windows, charged>> /\ now \in Int
      BY <1>7 DEF Tick, TypeOK, Times
    <3>2. Times \subseteq Int
      BY DEF Times
    <3>3. charged[s][k] \in Seq(Times) /\ windows[s][k].start \in Times
      BY DEF TypeOK
    <3>5. \A i \in 1..Len(charged[s][k]) : charged[s][k][i] \in Times
      BY <3>3
    <3>4. /\ windows[s][k].start \in Int
          /\ \A i \in 1..Len(charged[s][k]) : charged[s][k][i] \in Int
      BY <3>2, <3>3, <3>5
    <3> QED
      BY <1>2, <3>1, <3>4, SMTT(30) DEF BudgetOf, Tracks
  <2> QED
    BY <1>1, <2>1
<1>8. CASE UNCHANGED <<now, windows, charged>>
  BY <1>1, <1>3, <1>8
<1>9. ASSUME NEW s \in Sessions, Step(s)
      PROVE  UNCHANGED <<now, windows, charged>>
  BY <1>9 DEF Step, Clear, RemoveEntry, RemoveDir, ClearFails, AddWorktree, Collide,
              ApplyFiles, GitAdd, Status, Commit, Push, OpenPullRequest, Remove
<1>10. (\E n \in Names : Merge(n)) \/ UNCHANGED vars => UNCHANGED <<now, windows, charged>>
  BY DEF Merge, vars
<1> QED
  BY <1>5, <1>6, <1>7, <1>8, <1>9, <1>10 DEF Next

\* RateLimiter.check: no stretch of a window's length holds two budgets, not
\* even one that lies across the border of two windows.
THEOREM BudgetPerWindowHolds == Spec => []BudgetPerWindow
<1>1. TypeOK /\ Budget => BudgetPerWindow
  <2> SUFFICES ASSUME TypeOK, Budget, NEW s \in Sessions, NEW k \in Capabilities
               PROVE  \A i, j \in DOMAIN charged[s][k] :
                        j = i + 2 * Limit[k] - 1 =>
                          charged[s][k][j] - charged[s][k][i] >= Window[k]
    BY DEF BudgetPerWindow
  <2>1. charged[s][k] \in Seq(Times) /\ SpacedBy(charged[s][k], Limit[k], Window[k])
    BY DEF TypeOK, Budget
  <2> QED
    BY <2>1 DEF SpacedBy
<1> QED
  BY <1>1, BudgetInit, BudgetStep, TypeCorrect, PTL DEF Spec

===============================================================================
