--------------------------- MODULE TfStateGitProofs ---------------------------
(***************************************************************************)
(* Proofs about TfStateGit: its type invariant, that the branch only ever  *)
(* grows, and, for one deployer, the inductive invariant IInv with its     *)
(* consequences and the refinement of StateStore.                          *)
(***************************************************************************)
EXTENDS TfStateGit, TLAPS

\* "No file" is one of the contents a file may have.
LEMMA NoBlobIsBlob == NoBlob \in Blobs
BY BlobsAssumption DEF NoBlob, Blobs

\* The tip is a tree, also of the empty branch.
LEMMA TreeType ==
  ASSUME TypeOK, NEW i \in 0..Len(branch)
  PROVE  TreeAt(branch, i) \in Trees
<1>1. NoTree \in Trees
  BY NoBlobIsBlob DEF NoTree, Trees
<1>2. CASE i = 0
  BY <1>1, <1>2 DEF TreeAt
<1>3. CASE i # 0
  <2>1. i \in 1..Len(branch) /\ branch \in Seq(Commits)
    BY <1>3 DEF TypeOK
  <2>2. branch[i] \in Commits
    BY <2>1
  <2> QED
    BY <1>3, <2>2 DEF TreeAt, Commits
<1> QED
  BY <1>2, <1>3

\* The tip of a well-typed branch is a tree of state files.
LEMMA TipType == TypeOK => Tip \in Trees
<1> SUFFICES ASSUME TypeOK PROVE Tip \in Trees
  OBVIOUS
<1>1. Len(branch) \in 0..Len(branch)
  BY DEF TypeOK
<1> QED
  BY <1>1, TreeType DEF Tip

\* A fast-forward push appends one commit to the branch.
LEMMA PushAppends ==
  ASSUME TypeOK, NEW w \in Writers, PushLands(w)
  PROVE  /\ branch' = Append(branch, [tree |-> tree[w], file |-> file[w],
                                      from |-> from[w], blind |-> blind[w]])
         /\ [tree |-> tree[w], file |-> file[w],
             from |-> from[w], blind |-> blind[w]] \in Commits
<1>1. SubSeq(branch, 1, Len(branch)) = branch
  BY DEF TypeOK
<1>2. base[w] = Len(branch)
  BY DEF PushLands, FastForward
<1> QED
  BY <1>1, <1>2 DEF PushLands, TypeOK, Commits

\* What Append does to the trees of the branch.
LEMMA AppendTrees ==
  ASSUME NEW b \in Seq(Commits), NEW c \in Commits
  PROVE  /\ Len(Append(b, c)) = Len(b) + 1
         /\ \A i \in 1..Len(b) : Append(b, c)[i] = b[i]
         /\ Append(b, c)[Len(b) + 1] = c
         /\ \A i \in 0..Len(b) : TreeAt(Append(b, c), i) = TreeAt(b, i)
         /\ TreeAt(Append(b, c), Len(b) + 1) = c.tree
BY DEF TreeAt

-------------------------------------------------------------------------------
\* An empty branch and idle jobs are well typed.
LEMMA TypeInit == Init => TypeOK
<1> SUFFICES ASSUME Init PROVE TypeOK
  OBVIOUS
<1>1. NoTree \in Trees
  BY NoBlobIsBlob DEF NoTree, Trees
<1>2. 1 \in 1..MaxAttempts /\ 0 \in Blobs
  BY AttemptsAssumption, BlobsAssumption DEF Blobs
<1> QED
  BY <1>1, <1>2, NoBlobIsBlob DEF Init, TypeOK, Labels

\* The end of a job resets its variables to values of their types.
LEMMA DisposeType ==
  ASSUME TypeOK, NEW w \in Writers, Dispose(w)
  PROVE  TypeOK'
<1>1. NoTree \in Trees
  BY NoBlobIsBlob DEF NoTree, Trees
<1>2. 1 \in 1..MaxAttempts
  BY AttemptsAssumption
<1> QED
  BY <1>1, <1>2, NoBlobIsBlob DEF TypeOK, Dispose, Goto, Labels

\* The commit persist builds on a fetched tip, or on nothing, is well typed.
LEMMA RebuildType ==
  ASSUME TypeOK, NEW w \in Writers, NEW p \in 0..Len(branch), Rebuild(w, p)
  PROVE  /\ pc' \in [Writers -> Labels]
         /\ base' \in [Writers -> Nat]
         /\ tree' \in [Writers -> Trees]
<1>1. TreeAt(branch, p) \in Trees
  BY TreeType
<1>2. [TreeAt(branch, p) EXCEPT ![file[w]] = local[w]] \in Trees
  BY <1>1 DEF TypeOK, Trees
<1> QED
  BY <1>2 DEF TypeOK, Rebuild, Goto, Labels

\* The delay loop never counts beyond its last round.
LEMMA RetryType ==
  ASSUME TypeOK, NEW w \in Writers, Retry(w)
  PROVE  /\ pc' \in [Writers -> Labels]
         /\ attempt' \in [Writers -> 1..MaxAttempts]
<1>1. attempt[w] \in 1..MaxAttempts /\ MaxAttempts \in Nat
  BY AttemptsAssumption DEF TypeOK
<1>2. attempt[w] < MaxAttempts => attempt[w] + 1 \in 1..MaxAttempts
  BY <1>1
<1> QED
  BY <1>1, <1>2 DEF TypeOK, Retry, Goto, Labels

\* Every step of every job preserves the types.
LEMMA TypeStep == TypeOK /\ [Next]_vars => TypeOK'
<1> SUFFICES ASSUME TypeOK, [Next]_vars PROVE TypeOK'
  OBVIOUS
<1>1. ASSUME NEW w \in Writers, NEW f \in Files, Begin(w, f)
      PROVE  TypeOK'
  BY <1>1 DEF TypeOK, Begin, Goto, Labels, history
<1>2. ASSUME NEW w \in Writers, Restore(w)
      PROVE  TypeOK'
  <2>1. \A b \in BOOLEAN : Restored(b, w) \in Blobs
    BY TipType, NoBlobIsBlob DEF Restored, Trees, TypeOK
  <2> QED
    BY <1>2, <2>1 DEF TypeOK, Restore, Goto, Labels
<1>3. ASSUME NEW w \in Writers, Apply(w)
      PROVE  TypeOK'
  <2>1. /\ minted \in Blobs /\ local \in [Writers -> Blobs]
        /\ branch \in Seq(Commits) /\ start \in [Writers -> Nat]
    BY DEF TypeOK
  <2>2. minted' \in Blobs /\ local' \in [Writers -> Blobs]
    <3>1. CASE /\ minted < MaxBlobs
               /\ minted' = minted + 1
               /\ local' = [local EXCEPT ![w] = minted + 1]
      BY <2>1, <3>1, BlobsAssumption DEF Blobs
    <3>2. CASE UNCHANGED <<minted, local>>
      BY <2>1, <3>2
    <3> QED
      BY <1>3, <3>1, <3>2 DEF Apply
  <2>3. start' \in [Writers -> Nat]
    BY <1>3, <2>1 DEF Apply
  <2>4. pc' \in [Writers -> Labels]
    BY <1>3 DEF TypeOK, Apply, Goto, Labels
  <2>5. UNCHANGED <<branch, file, base, tree, attempt, from, blind, faults>>
    BY <1>3 DEF Apply
  <2> QED
    BY <2>2, <2>3, <2>4, <2>5 DEF TypeOK
<1>4. ASSUME NEW w \in Writers, ApplyWithoutState(w) \/ End(w) \/ Crash(w)
      PROVE  TypeOK'
  BY <1>4, DisposeType DEF ApplyWithoutState, End, Crash
<1>5. ASSUME NEW w \in Writers, Unchanged(w) \/ PushSucceeds(w)
      PROVE  TypeOK'
  BY <1>5 DEF TypeOK, Unchanged, PushSucceeds, Goto, Labels, git, script,
              history
<1>6. ASSUME NEW w \in Writers, Fetch(w)
      PROVE  TypeOK'
  <2>1. Len(branch) \in 0..Len(branch)
    BY DEF TypeOK
  <2>2. Rebuild(w, Len(branch))
    BY <1>6 DEF Fetch
  <2> QED
    BY <1>6, <2>1, <2>2, RebuildType DEF TypeOK, Fetch, history
<1>7. ASSUME NEW w \in Writers, FetchFails(w)
      PROVE  TypeOK'
  <2>1. 0 \in 0..Len(branch)
    BY DEF TypeOK
  <2>2. Rebuild(w, 0)
    BY <1>7 DEF FetchFails
  <2>3. PICK n \in Nat : faults' = [faults EXCEPT ![w] = n]
    <3>1. faults[w] \in Nat /\ faults[w] + 1 \in Nat
      BY DEF TypeOK
    <3> QED
      BY <1>7, <3>1 DEF FetchFails
  <2>4. UNCHANGED <<branch, file, local, attempt, minted, from, blind, start>>
    BY <1>7 DEF FetchFails
  <2> QED
    BY <2>1, <2>2, <2>3, <2>4, RebuildType DEF TypeOK
<1>8. ASSUME NEW w \in Writers, PushLands(w)
      PROVE  TypeOK'
  <2>1. PICK c \in Commits : branch' = Append(branch, c)
    BY <1>8, PushAppends
  <2>2. branch' \in Seq(Commits)
    BY <2>1 DEF TypeOK
  <2> QED
    BY <1>8, <2>2 DEF TypeOK, PushLands, Goto, Labels, script, history
<1>9. ASSUME NEW w \in Writers, PushRejected(w) \/ PushLost(w)
      PROVE  TypeOK'
  <2>1. /\ pc' \in [Writers -> Labels]
        /\ attempt' \in [Writers -> 1..MaxAttempts]
    BY <1>9, RetryType DEF PushRejected, PushLost
  <2>2. faults' \in [Writers -> Nat]
    <3>1. faults \in [Writers -> Nat] /\ faults[w] + 1 \in Nat
      BY DEF TypeOK
    <3> QED
      BY <1>9, <3>1 DEF PushRejected, PushLost, history
  <2>3. UNCHANGED <<branch, file, local, base, tree, minted, from, blind, start>>
    BY <1>9 DEF PushRejected, PushLost, history
  <2> QED
    BY <2>1, <2>2, <2>3 DEF TypeOK
<1>10. CASE UNCHANGED vars
  BY <1>10 DEF TypeOK, vars, git, script, history
<1> QED
  BY <1>1, <1>2, <1>3, <1>4, <1>5, <1>6, <1>7, <1>8, <1>9, <1>10
  DEF Next, Step

\* Every behaviour of the script is well typed, for any number of jobs, files,
\* locks, attempts and blobs.
THEOREM TypeCorrect == Spec => []TypeOK
<1> QED
  BY TypeInit, TypeStep, PTL DEF Spec

\* The branch only grows (VERSIONING), whatever the locks.
THEOREM HistoryIsKept == Spec => HistoryKept
<1>1. TypeOK /\ [Next]_vars =>
        [/\ Len(branch') >= Len(branch)
         /\ \A i \in 1..Len(branch) : branch'[i] = branch[i]]_branch
  <2> SUFFICES ASSUME TypeOK, [Next]_vars, branch' # branch
               PROVE  /\ Len(branch') >= Len(branch)
                      /\ \A i \in 1..Len(branch) : branch'[i] = branch[i]
    OBVIOUS
  <2>1. PICK w \in Writers : PushLands(w)
    BY DEF Next, Step, Begin, Restore, Apply, ApplyWithoutState, End, Crash,
           Dispose, Unchanged, Fetch, FetchFails, PushSucceeds, PushRejected,
           PushLost, vars, git
  <2> QED
    <3>1. PICK c \in Commits : branch' = Append(branch, c)
      BY <2>1, PushAppends
    <3>2. branch \in Seq(Commits)
      BY DEF TypeOK
    <3> QED
      BY <3>1, <3>2, AppendTrees
<1> QED
  BY <1>1, TypeCorrect, PTL DEF Spec, HistoryKept

-------------------------------------------------------------------------------
(* The inductive invariant.                                                *)

\* The invariant holds before the first job.
LEMMA IInvInit == Init => IInv
<1> SUFFICES ASSUME Init PROVE IInv
  OBVIOUS
<1>1. TypeOK
  BY TypeInit
<1>2. Len(branch) = 0
  BY DEF Init
<1> QED
  BY <1>1, <1>2 DEF Init, IInv, Exclusive, HasFile, Built, AtTip, Origin,
                    Rounds, Separation, NoLostUpdate

\* What holds of a job is untouched by a step that leaves the branch and the
\* job's own variables alone.
Untouched(v) ==
  /\ pc'[v] = pc[v] /\ file'[v] = file[v] /\ local'[v] = local[v]
  /\ base'[v] = base[v] /\ tree'[v] = tree[v] /\ attempt'[v] = attempt[v]
  /\ from'[v] = from[v] /\ blind'[v] = blind[v] /\ start'[v] = start[v]
  /\ faults'[v] = faults[v]

\* The per-job part of the invariant: its git half and its counting half.
JobGit(w) ==
  /\ pc[w] \in {"fetch", "push", "landed", "done"} => local[w] # NoBlob
  /\ pc[w] = "push" =>
       /\ base[w] <= Len(branch)
       /\ TreeAt(branch, base[w])[file[w]] # local[w]
       /\ tree[w] = [TreeAt(branch, base[w]) EXCEPT ![file[w]] = local[w]]
  /\ pc[w] \in {"landed", "done"} => Tip[file[w]] = local[w]
  /\ pc[w] = "apply" => blind[w] \/ Tip[file[w]] = from[w]
  /\ pc[w] \in {"fetch", "push"} =>
       blind[w] \/ Tip[file[w]] \in {from[w], local[w]}

JobRounds(w) ==
  /\ pc[w] \in {"idle", "restore", "apply"} => attempt[w] = 1
  /\ pc[w] \in {"fetch", "push", "landed", "failed"} => start[w] <= Len(branch)
  /\ pc[w] \in {"fetch", "landed"} =>
       attempt[w] <= Len(branch) - start[w] + faults[w] + 1
  /\ pc[w] = "push" =>
       \/ attempt[w] <= base[w] - start[w] + faults[w] + 1
       \/ attempt[w] <= Len(branch) - start[w] + faults[w]
  /\ pc[w] = "failed" => attempt[w] <= Len(branch) - start[w] + faults[w]

JobInv(w) == JobGit(w) /\ JobRounds(w)

\* The invariant, seen from one job: what its commit is built on and what its
\* rounds are paid with.
LEMMA IInvByJob ==
  IInv => \A w \in Writers : JobInv(w)
BY DEF IInv, JobInv, JobGit, JobRounds, HasFile, Built, AtTip, Origin, Rounds

\* The invariant follows from its per-job parts and the facts about the branch.
LEMMA JobsMakeIInv ==
  ASSUME TypeOK', Exclusive', \A w \in Writers : JobInv(w)',
         Separation', NoLostUpdate'
  PROVE  IInv'
BY DEF IInv, JobInv, JobGit, JobRounds, HasFile, Built, AtTip, Origin, Rounds

\* The numbers of a job, for arithmetic.
LEMMA Numbers ==
  TypeOK => /\ Len(branch) \in Nat
            /\ \A w \in Writers :
                 /\ attempt[w] \in Nat /\ start[w] \in Nat
                 /\ faults[w] \in Nat /\ base[w] \in Nat
<1> SUFFICES ASSUME TypeOK, NEW w \in Writers
             PROVE  /\ Len(branch) \in Nat
                    /\ attempt[w] \in Nat /\ start[w] \in Nat
                    /\ faults[w] \in Nat /\ base[w] \in Nat
  BY DEF TypeOK
<1>1. attempt[w] \in 1..MaxAttempts /\ MaxAttempts \in Nat
  BY AttemptsAssumption DEF TypeOK
<1>2. attempt[w] \in Nat
  BY <1>1
<1> QED
  BY <1>2 DEF TypeOK

\* A step of another job that pushes nothing leaves a job's part alone.
LEMMA UntouchedJob ==
  ASSUME NEW v \in Writers, JobInv(v), Untouched(v), UNCHANGED branch
  PROVE  JobInv(v)'
BY DEF JobInv, JobGit, JobRounds, Untouched, TreeAt, Tip, NoTree

\* A step of one job that leaves the branch alone keeps the invariant if it
\* keeps the job's own part of it.
LEMMA OneJobStep ==
  ASSUME IInv, TypeOK', NEW w \in Writers, UNCHANGED branch,
         \A v \in Writers \ {w} : Untouched(v),
         JobInv(w)', pc[w] # "idle", file'[w] = file[w]
  PROVE  IInv'
<1>1. Exclusive'
  BY DEF IInv, Exclusive, Untouched
<1>2. \A v \in Writers : JobInv(v)'
  BY UntouchedJob, IInvByJob
<1>3. Separation' /\ NoLostUpdate'
  BY DEF IInv, Separation, NoLostUpdate, TreeAt, NoTree
<1> QED
  BY <1>1, <1>2, <1>3, JobsMakeIInv

\* Every step of the script and of its jobs preserves the invariant; the step
\* that matters is a push landing under the feet of the other jobs.
LEMMA IInvStep == OneDeployer /\ IInv /\ [Next]_vars => IInv'
<1> SUFFICES ASSUME OneDeployer, IInv, [Next]_vars PROVE IInv'
  OBVIOUS
<1>0. TypeOK /\ TypeOK'
  BY TypeStep DEF IInv
<1>1. ASSUME NEW w \in Writers, NEW f \in Files, Begin(w, f)
      PROVE  IInv'
  <2>1. \A v \in Writers \ {w} : Untouched(v)
    BY <1>0, <1>1 DEF Begin, Goto, Untouched, TypeOK, history
  <2>2. pc'[w] = "restore" /\ file'[w] = f /\ UNCHANGED branch
    BY <1>0, <1>1 DEF Begin, Goto, TypeOK
  <2>3. \A v \in Writers \ {w} : pc[v] # "idle" => file[v] # f
    BY <1>0, <1>1, ZenonT(30) DEF OneDeployer, Begin, Holds, TypeOK
  <2>4. Exclusive'
    BY <2>1, <2>2, <2>3 DEF IInv, Exclusive, Untouched
  <2>5. \A v \in Writers : JobInv(v)'
    <3>1. attempt'[w] = 1
      BY <1>1, IInvByJob DEF Begin, JobInv, JobGit, JobRounds
    <3>2. JobInv(w)'
      BY <2>2, <3>1 DEF JobInv, JobGit, JobRounds
    <3> QED
      BY <2>1, <2>2, <3>2, UntouchedJob, IInvByJob
  <2>6. Separation' /\ NoLostUpdate'
    BY <2>2 DEF IInv, Separation, NoLostUpdate, TreeAt, NoTree
  <2> QED
    BY <1>0, <2>4, <2>5, <2>6, JobsMakeIInv
<1>2. ASSUME NEW w \in Writers, Restore(w)
      PROVE  IInv'
  <2>1. /\ \A v \in Writers \ {w} : Untouched(v)
        /\ UNCHANGED branch /\ pc[w] # "idle" /\ file'[w] = file[w]
    BY <1>0, <1>2 DEF Restore, Goto, Untouched, TypeOK
  <2>2. pc'[w] = "apply" /\ (blind'[w] \/ Tip[file[w]] = from'[w])
    <3>1. PICK fetched \in BOOLEAN :
            /\ from' = [from EXCEPT ![w] = Restored(fetched, w)]
            /\ blind' = [blind EXCEPT ![w] = ~fetched /\ branch # <<>>]
      BY <1>2 DEF Restore
    <3>2. pc'[w] = "apply"
      BY <1>0, <1>2 DEF Restore, Goto, TypeOK
    <3>3. CASE fetched
      BY <1>0, <3>1, <3>2, <3>3 DEF Restored, TypeOK
    <3>4. CASE ~fetched /\ branch # <<>>
      BY <1>0, <3>1, <3>2, <3>4 DEF TypeOK
    <3>5. CASE ~fetched /\ branch = <<>>
      <4>1. Tip[file[w]] = NoBlob
        BY <1>0, <3>5 DEF Tip, TreeAt, NoTree, TypeOK
      <4> QED
        BY <1>0, <3>1, <3>2, <3>5, <4>1 DEF Restored, TypeOK
    <3> QED
      BY <3>3, <3>4, <3>5
  <2>3. attempt'[w] = 1
    BY <1>2, IInvByJob DEF Restore, JobInv, JobGit, JobRounds
  <2>4. JobInv(w)'
    BY <2>1, <2>2, <2>3 DEF JobInv, JobGit, JobRounds, Tip, TreeAt, NoTree
  <2> QED
    BY <1>0, <2>1, <2>4, OneJobStep
<1>3. ASSUME NEW w \in Writers, Apply(w)
      PROVE  IInv'
  <2>1. /\ \A v \in Writers \ {w} : Untouched(v)
        /\ UNCHANGED branch /\ pc[w] = "apply" /\ file'[w] = file[w]
    BY <1>0, <1>3 DEF Apply, Goto, Untouched, TypeOK
  <2>2. /\ pc'[w] = "fetch" /\ start'[w] = Len(branch)
        /\ UNCHANGED <<from, blind, attempt, faults>>
    BY <1>0, <1>3 DEF Apply, Goto, TypeOK
  <2>3. local'[w] # NoBlob
    BY <1>0, <1>3, BlobsAssumption DEF Apply, TypeOK, NoBlob, Blobs
  <2>4. /\ attempt[w] = 1 /\ faults[w] \in Nat /\ Len(branch) \in Nat
        /\ blind[w] \/ Tip[file[w]] = from[w]
    BY <1>0, <2>1, IInvByJob DEF JobInv, JobGit, JobRounds, TypeOK
  <2>5. JobInv(w)'
    BY <2>1, <2>2, <2>3, <2>4 DEF JobInv, JobGit, JobRounds, Tip, TreeAt, NoTree
  <2> QED
    BY <1>0, <2>1, <2>5, OneJobStep
<1>4. ASSUME NEW w \in Writers, ApplyWithoutState(w) \/ End(w) \/ Crash(w)
      PROVE  IInv'
  <2>1. Dispose(w) /\ pc[w] # "idle"
    BY <1>4 DEF ApplyWithoutState, End, Crash
  <2>2. /\ \A v \in Writers \ {w} : Untouched(v)
        /\ UNCHANGED branch /\ pc'[w] = "idle" /\ file'[w] = file[w]
    BY <1>0, <2>1 DEF Dispose, Goto, Untouched, TypeOK
  <2>3. attempt'[w] = 1
    BY <1>0, <2>1 DEF Dispose, TypeOK
  <2>4. JobInv(w)'
    BY <2>2, <2>3 DEF JobInv, JobGit, JobRounds
  <2> QED
    BY <1>0, <2>1, <2>2, <2>4, OneJobStep
<1>5. ASSUME NEW w \in Writers, Unchanged(w) \/ PushSucceeds(w)
      PROVE  IInv'
  <2>1. /\ \A v \in Writers \ {w} : Untouched(v)
        /\ UNCHANGED <<branch, file, local>>
        /\ pc[w] \in {"fetch", "landed"} /\ pc'[w] = "done"
    BY <1>0, <1>5 DEF Unchanged, PushSucceeds, Goto, Untouched, TypeOK, git,
                      script, history
  <2>2. Tip[file[w]] = local[w] /\ local[w] # NoBlob
    BY <1>5, IInvByJob DEF JobInv, JobGit, JobRounds, Unchanged, PushSucceeds
  <2>3. JobInv(w)'
    BY <2>1, <2>2 DEF JobInv, JobGit, JobRounds, Tip, TreeAt, NoTree
  <2> QED
    BY <1>0, <2>1, <2>3, OneJobStep
<1>6. ASSUME NEW w \in Writers, Fetch(w)
      PROVE  IInv'
  <2>1. /\ \A v \in Writers \ {w} : Untouched(v)
        /\ UNCHANGED <<branch, file, local, attempt, from, blind, start, faults>>
        /\ pc[w] = "fetch" /\ pc'[w] = "push"
        /\ base'[w] = Len(branch)
        /\ tree'[w] = [Tip EXCEPT ![file[w]] = local[w]]
        /\ Tip[file[w]] # local[w]
    BY <1>0, <1>6 DEF Fetch, Rebuild, Goto, Untouched, TypeOK, history, Tip
  <2>2. JobInv(w)
    BY IInvByJob
  <2>3. Len(branch) \in Nat
    BY <1>0 DEF TypeOK
  <2>4. JobInv(w)'
    BY <2>1, <2>2, <2>3 DEF JobInv, JobGit, JobRounds, Tip, TreeAt, NoTree
  <2> QED
    BY <1>0, <2>1, <2>4, OneJobStep
<1>7. ASSUME NEW w \in Writers, FetchFails(w)
      PROVE  IInv'
  <2>1. /\ \A v \in Writers \ {w} : Untouched(v)
        /\ UNCHANGED <<branch, file, local, attempt, from, blind, start>>
        /\ pc[w] = "fetch" /\ pc'[w] = "push"
        /\ base'[w] = 0
        /\ tree'[w] = [TreeAt(branch, 0) EXCEPT ![file[w]] = local[w]]
    BY <1>0, <1>7 DEF FetchFails, Rebuild, Goto, Untouched, TypeOK
  <2>2. faults'[w] = IF branch = <<>> THEN faults[w] ELSE faults[w] + 1
    BY <1>0, <1>7 DEF FetchFails, TypeOK
  <2>3. JobInv(w)
    BY IInvByJob
  <2>4. /\ Len(branch) \in Nat /\ attempt[w] \in Nat /\ start[w] \in Nat
        /\ faults[w] \in Nat /\ local[w] # NoBlob
        /\ branch = <<>> => Len(branch) = 0
    BY <1>0, <2>1, <2>3, Numbers DEF JobInv, JobGit, JobRounds
  <2>5. TreeAt(branch, 0)[file[w]] # local[w]
    BY <1>0, <2>4 DEF TreeAt, NoTree, TypeOK
  <2>6. \/ attempt[w] <= 0 - start[w] + faults'[w] + 1
        \/ attempt[w] <= Len(branch) - start[w] + faults'[w]
    BY <2>1, <2>2, <2>3, <2>4 DEF JobInv, JobGit, JobRounds
  <2>7. JobInv(w)'
    BY <2>1, <2>3, <2>4, <2>5, <2>6 DEF JobInv, JobGit, JobRounds, Tip, TreeAt, NoTree
  <2> QED
    BY <1>0, <2>1, <2>7, OneJobStep
<1>8. ASSUME NEW w \in Writers, PushRejected(w) \/ PushLost(w)
      PROVE  IInv'
  <2>1. /\ \A v \in Writers \ {w} : Untouched(v)
        /\ UNCHANGED <<branch, file, local, from, blind, start>>
        /\ pc[w] \in {"push", "landed"}
    <3>1. /\ UNCHANGED <<branch, file, local, base, tree, from, blind, start>>
          /\ pc[w] \in {"push", "landed"} /\ Retry(w)
      BY <1>8 DEF PushRejected, PushLost, history
    <3>2. \A v \in Writers \ {w} : faults'[v] = faults[v]
      BY <1>0, <1>8 DEF PushRejected, PushLost, TypeOK, history
    <3>3. \A v \in Writers \ {w} : pc'[v] = pc[v] /\ attempt'[v] = attempt[v]
      BY <1>0, <3>1 DEF Retry, Goto, TypeOK
    <3> QED
      BY <3>1, <3>2, <3>3 DEF Untouched
  <2>2. /\ attempt[w] \in Nat /\ Len(branch) \in Nat /\ start[w] \in Nat
        /\ faults[w] \in Nat /\ base[w] \in Nat /\ JobInv(w)
    BY <1>0, IInvByJob, Numbers
  <2>3. attempt[w] <= Len(branch) - start[w] + faults'[w]
    <3>1. CASE PushRejected(w)
      <4>1. pc[w] = "push" /\ base[w] < Len(branch) /\ faults' = faults
        BY <2>2, <3>1 DEF PushRejected, FastForward, JobInv, JobGit, JobRounds, history
      <4> QED
        BY <2>2, <4>1 DEF JobInv, JobGit, JobRounds
    <3>2. CASE PushLost(w)
      <4>1. faults'[w] = faults[w] + 1
        BY <1>0, <3>2 DEF PushLost, TypeOK
      <4>2. attempt[w] <= Len(branch) - start[w] + faults[w] + 1
        <5>1. CASE pc[w] = "landed"
          BY <2>2, <5>1 DEF JobInv, JobRounds
        <5>2. CASE pc[w] = "push"
          <6>1. base[w] <= Len(branch)
            BY <2>2, <5>2 DEF JobInv, JobGit
          <6>2. \/ attempt[w] <= base[w] - start[w] + faults[w] + 1
                \/ attempt[w] <= Len(branch) - start[w] + faults[w]
            BY <2>2, <5>2 DEF JobInv, JobRounds
          <6> QED
            BY <2>2, <6>1, <6>2
        <5> QED
          BY <2>1, <5>1, <5>2
      <4> QED
        BY <2>2, <4>1, <4>2
    <3> QED
      BY <1>8, <3>1, <3>2
  <2>4. Retry(w)
    BY <1>8 DEF PushRejected, PushLost
  <2>5. \/ pc'[w] = "fetch" /\ attempt'[w] = attempt[w] + 1
        \/ pc'[w] = "failed" /\ attempt'[w] = attempt[w]
    BY <1>0, <2>4 DEF Retry, Goto, TypeOK
  <2>6. /\ start[w] <= Len(branch)
        /\ pc'[w] = "fetch" => local[w] # NoBlob
        /\ blind[w] \/ Tip[file[w]] \in {from[w], local[w]}
    BY <2>1, <2>2 DEF JobInv, JobGit, JobRounds
  <2>7. JobInv(w)'
    <3>1. faults'[w] \in Nat
      BY <1>0 DEF TypeOK
    <3> QED
      BY <2>1, <2>2, <2>3, <2>5, <2>6, <3>1, SMTT(30) DEF JobInv, JobGit, JobRounds, Tip, TreeAt, NoTree
  <2> QED
    BY <1>0, <2>1, <2>7, OneJobStep
<1>9. CASE UNCHANGED vars
  <2>1. /\ \A v \in Writers : Untouched(v)
        /\ UNCHANGED branch
    BY <1>9 DEF Untouched, vars, git, script, history
  <2>2. \A v \in Writers : JobInv(v)'
    BY <2>1, UntouchedJob, IInvByJob
  <2>3. Exclusive' /\ Separation' /\ NoLostUpdate'
    BY <2>1 DEF IInv, Exclusive, Separation, NoLostUpdate, Untouched, TreeAt,
                NoTree
  <2> QED
    BY <1>0, <2>2, <2>3, JobsMakeIInv
<1>10. ASSUME NEW w \in Writers, PushLands(w)
       PROVE  IInv'
  <2> DEFINE c == [tree |-> tree[w], file |-> file[w],
                   from |-> from[w], blind |-> blind[w]]
             n == Len(branch)
  <2>1. branch' = Append(branch, c) /\ c \in Commits
    BY <1>0, <1>10, PushAppends
  <2>2. /\ branch \in Seq(Commits) /\ n \in Nat
        /\ pc[w] = "push" /\ base[w] = n
        /\ pc' = [pc EXCEPT ![w] = "landed"]
        /\ UNCHANGED <<file, local, base, tree, attempt>>
        /\ UNCHANGED <<from, blind, start, faults>>
    BY <1>0, <1>10 DEF PushLands, FastForward, Goto, TypeOK, script, history
  <2> HIDE DEF c
  <2>3. /\ Len(branch') = n + 1
        /\ \A i \in 1..n : branch'[i] = branch[i]
        /\ branch'[n + 1] = c
        /\ \A i \in 0..n : TreeAt(branch', i) = TreeAt(branch, i)
        /\ TreeAt(branch', n + 1) = c.tree
    BY <2>1, <2>2, AppendTrees
  <2>4. Tip' = tree[w]
    BY <2>2, <2>3 DEF Tip, c, TreeAt, NoTree
  <2>5. JobInv(w)
    BY IInvByJob
  <2>6. /\ Tip[file[w]] # local[w] /\ local[w] # NoBlob
        /\ tree[w] = [Tip EXCEPT ![file[w]] = local[w]]
        /\ blind[w] \/ from[w] = Tip[file[w]]
    BY <2>2, <2>5 DEF JobInv, JobGit, JobRounds, Tip
  <2>7. Tip \in Trees
    BY <1>0, TipType
  <2>8. /\ Tip'[file[w]] = local[w]
        /\ \A f \in Files \ {file[w]} : Tip'[f] = Tip[f]
    BY <1>0, <2>4, <2>6, <2>7 DEF Trees, TypeOK
  <2>9. \A v \in Writers : JobInv(v)'
    <3>1. JobInv(w)'
      <4>1. pc'[w] = "landed"
        BY <1>0, <2>2 DEF TypeOK
      <4>2. /\ attempt[w] \in Nat /\ start[w] \in Nat /\ faults[w] \in Nat
        BY <1>0, Numbers
      <4>3. /\ start[w] <= n
            /\ attempt[w] <= n + 1 - start[w] + faults[w] + 1
        BY <2>2, <2>5, <4>2, SMTT(30) DEF JobInv, JobGit, JobRounds
      <4>4. JobGit(w)'
        BY <2>2, <2>6, <2>8, <4>1 DEF JobGit
      <4>5. JobRounds(w)'
        <5>1. Len(branch') = n + 1
          BY <2>2, <2>3
        <5>2. /\ start'[w] = start[w] /\ attempt'[w] = attempt[w]
              /\ faults'[w] = faults[w] /\ n \in Nat
          BY <2>2
        <5>3. /\ start[w] <= n + 1
              /\ attempt[w] <= n + 1 - start[w] + faults[w] + 1
          BY <4>2, <4>3, <5>2
        <5>4. /\ start'[w] <= Len(branch')
              /\ attempt'[w] <= Len(branch') - start'[w] + faults'[w] + 1
          BY <4>2, <5>1, <5>2, <5>3
        <5> QED
          BY <4>1, <4>2, <5>1, <5>2, <5>4 DEF JobRounds
      <4> QED
        BY <4>4, <4>5 DEF JobInv
    <3>2. ASSUME NEW v \in Writers \ {w}
          PROVE  JobInv(v)'
      <4>1. JobInv(v) /\ pc'[v] = pc[v]
        BY <1>0, <2>2, IInvByJob DEF TypeOK
      <4>2. pc[v] # "idle" => Tip'[file[v]] = Tip[file[v]]
        <5>1. pc[v] # "idle" => file[v] \in Files \ {file[w]}
          BY <1>0, <2>2 DEF IInv, Exclusive, TypeOK
        <5> QED
          BY <2>8, <5>1
      <4>3. pc[v] = "push" => TreeAt(branch', base[v]) = TreeAt(branch, base[v])
        <5>1. pc[v] = "push" => base[v] \in 0..n
          BY <1>0, <2>2, <4>1 DEF JobInv, JobGit, JobRounds, TypeOK
        <5> QED
          BY <2>3, <5>1
      <4>4. /\ attempt[v] \in Nat /\ start[v] \in Nat /\ faults[v] \in Nat
            /\ base[v] \in Nat
        BY <1>0, Numbers
      <4>5. JobRounds(v)'
        <5> HIDE DEF n
        <5>1. /\ attempt'[v] = attempt[v] /\ start'[v] = start[v]
              /\ faults'[v] = faults[v] /\ base'[v] = base[v]
          BY <2>2
        <5>2. Len(branch) = n /\ Len(branch') = n + 1 /\ n \in Nat
          BY <2>2, <2>3 DEF n
        <5>3. JobRounds(v)
          BY <4>1 DEF JobInv
        <5>4. pc[v] \in {"fetch", "push", "landed", "failed"} =>
                start'[v] <= Len(branch')
          BY <4>4, <5>1, <5>2, <5>3 DEF JobRounds
        <5>5. pc[v] \in {"fetch", "landed"} =>
                attempt'[v] <= Len(branch') - start'[v] + faults'[v] + 1
          BY <4>4, <5>1, <5>2, <5>3 DEF JobRounds
        <5>6. pc[v] = "push" =>
                \/ attempt'[v] <= base'[v] - start'[v] + faults'[v] + 1
                \/ attempt'[v] <= Len(branch') - start'[v] + faults'[v]
          BY <4>4, <5>1, <5>2, <5>3 DEF JobRounds
        <5>7. pc[v] = "failed" =>
                attempt'[v] <= Len(branch') - start'[v] + faults'[v]
          BY <4>4, <5>1, <5>2, <5>3 DEF JobRounds
        <5>8. pc[v] \in {"idle", "restore", "apply"} => attempt'[v] = 1
          BY <5>1, <5>3 DEF JobRounds
        <5> QED
          BY <4>1, <5>4, <5>5, <5>6, <5>7, <5>8, Zenon DEF JobRounds
      <4>6. JobGit(v)'
        <5>1. pc[v] = "push" => base[v] <= n + 1
          BY <2>2, <4>1, <4>4 DEF JobInv, JobGit
        <5> QED
          BY <2>2, <2>3, <4>1, <4>2, <4>3, <5>1 DEF JobInv, JobGit
      <4> QED
        BY <4>5, <4>6 DEF JobInv
    <3> QED
      BY <3>1, <3>2
  <2>10. Exclusive'
    BY <1>0, <2>2 DEF IInv, Exclusive, TypeOK
  <2>11. Separation'
    <3>1. ASSUME NEW i \in 1..(n + 1), NEW f \in Files \ {branch'[i].file}
          PROVE  branch'[i].tree[f] = TreeAt(branch', i - 1)[f]
      <4>1. CASE i \in 1..n
        BY <2>2, <2>3, <4>1 DEF IInv, Separation
      <4>2. CASE i = n + 1
        <5>1. c.tree = Tip' /\ c.file = file[w]
          BY <2>4 DEF c
        <5>2. TreeAt(branch', i - 1) = Tip
          BY <2>2, <2>3, <4>2 DEF Tip
        <5> QED
          BY <2>3, <2>8, <3>1, <4>2, <5>1, <5>2
      <4> QED
        BY <2>2, <4>1, <4>2
    <3> QED
      BY <2>3, <3>1 DEF Separation
  <2>12. NoLostUpdate'
    <3>1. ASSUME NEW i \in 1..(n + 1)
          PROVE  \/ branch'[i].blind
                 \/ branch'[i].from = TreeAt(branch', i - 1)[branch'[i].file]
      <4>1. CASE i \in 1..n
        BY <2>2, <2>3, <4>1 DEF IInv, NoLostUpdate
      <4>2. CASE i = n + 1
        <5>1. c.from = from[w] /\ c.file = file[w] /\ c.blind = blind[w]
          BY DEF c
        <5>2. TreeAt(branch', i - 1) = Tip
          BY <2>2, <2>3, <4>2 DEF Tip
        <5> QED
          BY <2>3, <2>6, <4>2, <5>1, <5>2
      <4> QED
        BY <2>2, <4>1, <4>2
    <3> QED
      BY <2>3, <3>1 DEF NoLostUpdate
  <2> QED
    BY <1>0, <2>9, <2>10, <2>11, <2>12, JobsMakeIInv
<1> QED
  BY <1>1, <1>2, <1>3, <1>4, <1>5, <1>6, <1>7, <1>8, <1>9, <1>10
  DEF Next, Step

-------------------------------------------------------------------------------
\* The safety of the script under one deployer, for every number of jobs,
\* files, attempts and blobs.
THEOREM Invariance ==
  ASSUME OneDeployer
  PROVE  Spec => []IInv
<1>1. IInv /\ [Next]_vars => IInv'
  BY IInvStep
<1> QED
  BY <1>1, IInvInit, PTL DEF Spec

\* A push never carries another environment's state along.
THEOREM SeparationHolds ==
  ASSUME OneDeployer
  PROVE  Spec => []Separation
<1>1. IInv => Separation
  BY DEF IInv
<1> QED
  BY <1>1, Invariance, PTL

\* A state file is only replaced by a version derived from it, unless the job
\* restored nothing because the remote was out of reach.
THEOREM NoUpdateIsLost ==
  ASSUME OneDeployer
  PROVE  Spec => []NoLostUpdate
<1>1. IInv => NoLostUpdate
  BY DEF IInv
<1> QED
  BY <1>1, Invariance, PTL

\* A persist that exits 0 left its file at the tip of the branch.
THEOREM SuccessIsDurableHolds ==
  ASSUME OneDeployer
  PROVE  Spec => []SuccessIsDurable
<1>1. IInv => SuccessIsDurable
  BY DEF IInv, AtTip, SuccessIsDurable
<1> QED
  BY <1>1, Invariance, PTL

\* Every lost round of persist is a network fault's or a landed commit's.
THEOREM RetriesAreExplainedHolds ==
  ASSUME OneDeployer
  PROVE  Spec => []RetriesAreExplained
<1>1. IInv => RetriesAreExplained
  <2> SUFFICES ASSUME IInv, NEW w \in Writers,
                      pc[w] \in {"fetch", "push", "landed", "failed"}
               PROVE  attempt[w] <= Len(branch) - start[w] + faults[w]
                        + (IF pc[w] = "failed" THEN 0 ELSE 1)
    BY DEF RetriesAreExplained
  <2>1. /\ attempt[w] \in Nat /\ start[w] \in Nat /\ faults[w] \in Nat
        /\ base[w] \in Nat /\ Len(branch) \in Nat
    BY Numbers DEF IInv
  <2>2. JobInv(w)
    BY IInvByJob
  <2> QED
    BY <2>1, <2>2, SMTT(30) DEF JobInv, JobGit, JobRounds
<1> QED
  BY <1>1, Invariance, PTL

-------------------------------------------------------------------------------
(* Refinement.                                                             *)

\* The empty branch is the store before its first save.
LEMMA RefinesInit == Init => Store!Init
<1> SUFFICES ASSUME Init PROVE Store!Init
  OBVIOUS
<1>1. Tip = [f \in Files |-> NoBlob]
  BY DEF Init, Tip, TreeAt, NoTree
<1>2. [w \in Writers |-> Phase(pc[w])] = [w \in Writers |-> "idle"]
  BY DEF Init, Phase
<1> QED
  BY <1>1, <1>2 DEF Init, Store!Init

\* A job that goes to a label of another phase changes the abstract phase.
LEMMA PhaseMoves ==
  ASSUME TypeOK, NEW w \in Writers, NEW label \in Labels, Goto(w, label)
  PROVE  [v \in Writers |-> Phase(pc'[v])] =
           [[v \in Writers |-> Phase(pc[v])] EXCEPT ![w] = Phase(label)]
BY DEF TypeOK, Goto

\* A job that goes to a label of the same phase is a stutter of its session.
LEMMA PhaseStays ==
  ASSUME TypeOK, NEW w \in Writers, NEW label \in Labels, Goto(w, label),
         Phase(label) = Phase(pc[w])
  PROVE  [v \in Writers |-> Phase(pc'[v])] = [v \in Writers |-> Phase(pc[v])]
BY DEF TypeOK, Goto

\* The store only changes when the branch does.
LEMMA TipStays == ASSUME UNCHANGED branch PROVE Tip' = Tip
BY DEF Tip, TreeAt, NoTree

\* Every step of the script is a step of the abstract store, or a stutter: only
\* a push that lands saves, and it saves one file.
LEMMA RefinesStep ==
  ASSUME OneDeployer, IInv, [Next]_vars
  PROVE  [Store!Next]_Store!vars
<1> DEFINE phase == [w \in Writers |-> Phase(pc[w])]
<1>0. TypeOK /\ TypeOK'
  BY TypeStep DEF IInv
<1>1. ASSUME NEW w \in Writers, NEW f \in Files, Begin(w, f)
      PROVE  Store!Open(w, f)
  <2>1. phase' = [phase EXCEPT ![w] = "open"]
    BY <1>0, <1>1, PhaseMoves DEF Begin, Labels, Phase
  <2>2. phase[w] = "idle"
    BY <1>1 DEF Begin, Phase
  <2>3. \A v \in Writers : phase[v] # "idle" => file[v] # f
    <3>1. ASSUME NEW v \in Writers, phase[v] # "idle" PROVE file[v] # f
      <4>1. pc[v] # "idle"
        BY <3>1 DEF Phase
      <4>2. Holds(v) # LockOf[w][f] /\ file[v] \in Files
        BY <1>0, <1>1, <4>1 DEF Begin, TypeOK
      <4> QED
        BY <4>2 DEF Holds, OneDeployer
    <3> QED
      BY <3>1
  <2>4. Tip' = Tip /\ local' = local /\ file' = [file EXCEPT ![w] = f]
    BY <1>1, TipStays DEF Begin
  <2> QED
    BY <2>1, <2>2, <2>3, <2>4 DEF Store!Open
<1>2. ASSUME NEW w \in Writers, Restore(w)
      PROVE  Store!Load(w)
  <2>1. phase' = [phase EXCEPT ![w] = "loaded"]
    BY <1>0, <1>2, PhaseMoves DEF Restore, Labels, Phase
  <2>2. phase[w] = "open"
    BY <1>2 DEF Restore, Phase
  <2>3. \E v \in {Tip[file[w]], NoBlob} : local' = [local EXCEPT ![w] = v]
    BY <1>2 DEF Restore, Restored
  <2>4. Tip' = Tip /\ file' = file
    BY <1>2, TipStays DEF Restore
  <2> QED
    BY <2>1, <2>2, <2>3, <2>4 DEF Store!Load
<1>3. ASSUME NEW w \in Writers, Apply(w)
      PROVE  Store!Compute(w)
  <2>1. phase' = [phase EXCEPT ![w] = "saving"]
    BY <1>0, <1>3, PhaseMoves DEF Apply, Labels, Phase
  <2>2. phase[w] = "loaded"
    BY <1>3 DEF Apply, Phase
  <2>3. \E v \in 1..MaxBlobs : local' = [local EXCEPT ![w] = v]
    <3>1. CASE /\ minted < MaxBlobs
               /\ local' = [local EXCEPT ![w] = minted + 1]
      <4>1. minted + 1 \in 1..MaxBlobs
        BY <1>0, <3>1, BlobsAssumption DEF TypeOK, Blobs
      <4> QED
        BY <3>1, <4>1
    <3>2. CASE local[w] # NoBlob /\ local' = local
      <4>1. local[w] \in 1..MaxBlobs
        BY <1>0, <3>2, BlobsAssumption, SMTT(30) DEF TypeOK, Blobs, NoBlob
      <4>2. local' = [local EXCEPT ![w] = local[w]]
        BY <1>0, <3>2 DEF TypeOK
      <4> QED
        BY <4>1, <4>2
    <3> QED
      BY <1>3, <3>1, <3>2 DEF Apply
  <2>4. Tip' = Tip /\ file' = file
    BY <1>3, TipStays DEF Apply
  <2> QED
    BY <2>1, <2>2, <2>3, <2>4 DEF Store!Compute
<1>4. ASSUME NEW w \in Writers, ApplyWithoutState(w) \/ End(w) \/ Crash(w)
      PROVE  Store!Close(w)
  <2>1. Dispose(w) /\ pc[w] # "idle"
    BY <1>4 DEF ApplyWithoutState, End, Crash
  <2>2. phase' = [phase EXCEPT ![w] = "idle"]
    BY <1>0, <2>1, PhaseMoves DEF Dispose, Labels, Phase
  <2>3. phase[w] # "idle"
    BY <1>0, <2>1 DEF Phase, TypeOK, Labels
  <2>4. Tip' = Tip /\ file' = file /\ local' = [local EXCEPT ![w] = NoBlob]
    BY <2>1, TipStays DEF Dispose
  <2> QED
    BY <2>2, <2>3, <2>4 DEF Store!Close
<1>5. ASSUME NEW w \in Writers, Unchanged(w) \/ PushSucceeds(w)
      PROVE  Store!Acknowledge(w)
  <2>1. phase' = [phase EXCEPT ![w] = "saved"]
    BY <1>0, <1>5, PhaseMoves DEF Unchanged, PushSucceeds, Labels, Phase
  <2>2. phase[w] = "saving"
    BY <1>5 DEF Unchanged, PushSucceeds, Phase
  <2>3. Tip[file[w]] = local[w]
    BY <1>5 DEF IInv, AtTip, Unchanged, PushSucceeds
  <2>4. Tip' = Tip /\ file' = file /\ local' = local
    BY <1>5, TipStays DEF Unchanged, PushSucceeds, git, script
  <2> QED
    BY <2>1, <2>2, <2>3, <2>4 DEF Store!Acknowledge
<1>6. ASSUME NEW w \in Writers, PushLands(w)
      PROVE  Store!Save(w)
  <2>1. phase' = phase
    BY <1>0, <1>6, PhaseStays DEF PushLands, Labels, Phase
  <2>2. phase[w] = "saving"
    BY <1>6 DEF PushLands, Phase
  <2>3. Tip' = tree[w]
    <3>1. PICK c \in Commits : branch' = Append(branch, c) /\ c.tree = tree[w]
      BY <1>0, <1>6, PushAppends
    <3>2. branch \in Seq(Commits) /\ Len(branch) + 1 # 0
      BY <1>0 DEF TypeOK
    <3> QED
      BY <3>1, <3>2, AppendTrees DEF Tip, TreeAt, NoTree
  <2>4. tree[w] = [Tip EXCEPT ![file[w]] = local[w]]
    BY <1>6 DEF IInv, Built, PushLands, FastForward, Tip
  <2>5. file' = file /\ local' = local
    BY <1>6 DEF PushLands, script
  <2> QED
    BY <2>1, <2>2, <2>3, <2>4, <2>5 DEF Store!Save
<1>7. ASSUME NEW w \in Writers,
             Fetch(w) \/ FetchFails(w) \/ PushRejected(w) \/ PushLost(w)
      PROVE  UNCHANGED Store!vars
  <2>1. /\ UNCHANGED <<branch, file, local>>
        /\ pc[w] \in {"fetch", "push", "landed"}
        /\ \E label \in {"push", "fetch", "failed"} : Goto(w, label)
    BY <1>7 DEF Fetch, FetchFails, PushRejected, PushLost, Rebuild, Retry
  <2>2. phase' = phase
    BY <1>0, <2>1, PhaseStays DEF Labels, Phase
  <2> QED
    BY <2>1, <2>2, TipStays DEF Store!vars
<1>8. CASE UNCHANGED vars
  <2>1. UNCHANGED <<branch, pc, file, local>>
    BY <1>8 DEF vars, git, script
  <2> QED
    BY <2>1, TipStays DEF Store!vars, Phase
<1> QED
  BY <1>1, <1>2, <1>3, <1>4, <1>5, <1>6, <1>7, <1>8
  DEF Next, Step, Store!Next

\* With one deployer the branch is, for each state file, the atomic register
\* StateStore specifies: a save happens at once, on its own file only, and is
\* acknowledged only while the register holds it.
THEOREM StoreIsImplemented ==
  ASSUME OneDeployer
  PROVE  Spec => ImplementsStore
<1>1. IInv /\ [Next]_vars => [Store!Next]_Store!vars
  BY RefinesStep
<1> QED
  BY <1>1, RefinesInit, Invariance, PTL DEF Spec, ImplementsStore, Store!Spec

===============================================================================
