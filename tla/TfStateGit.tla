------------------------------ MODULE TfStateGit ------------------------------
(***************************************************************************)
(* tools/tfstate-git.sh: Terraform state on the orphan branch `tfstate`.   *)
(*                                                                         *)
(* A writer is one job of one deployer (GitHub Actions, Azure Pipelines)   *)
(* at work on one state file: it takes the deployer's lock, restores the   *)
(* file from the branch, lets Terraform apply, and persists the new file   *)
(* by pushing a commit, fast-forward only, at most MaxAttempts times.      *)
(* Locks do not serialise the BRANCH: two jobs that hold different locks   *)
(* race to push, and a fetch or a push may fail, or succeed with its       *)
(* answer lost, or die with its runner, at any step.                       *)
(***************************************************************************)
EXTENDS Naturals, Sequences

CONSTANTS
  Writers,      \* the jobs
  Files,        \* the state files <stack>/<env>.tfstate
  Locks,        \* concurrency groups and exclusive locks
  LockOf,       \* writer -> file -> the lock the writer takes for the file
  MaxAttempts,  \* rounds of the persist loop (five delays in the script)
  MaxBlobs      \* bound: new contents Terraform may produce in a behaviour

ASSUME LocksAssumption    == LockOf \in [Writers -> [Files -> Locks]]
ASSUME AttemptsAssumption == MaxAttempts \in Nat \ {0}
ASSUME BlobsAssumption    == MaxBlobs \in Nat

VARIABLES
  branch,   \* the commits of `tfstate`, oldest first
  pc,       \* writer -> the step of the job it is at
  file,     \* writer -> the state file it works on
  local,    \* writer -> stacks/<stack>/terraform.tfstate on its runner
  base,     \* writer -> the fetched tip its commit is built on (0: none)
  tree,     \* writer -> the tree of its commit
  attempt,  \* writer -> round of the persist loop
  minted,   \* contents Terraform has produced so far
  \* history variables, read by no guard
  from,     \* writer -> what its restore returned
  blind,    \* writer -> its restore could not reach the remote
  start,    \* writer -> length of the branch when its persist began
  faults    \* writer -> network faults its persist has met

git      == <<branch>>
script   == <<file, local, base, tree, attempt, minted>>
history  == <<from, blind, start, faults>>
vars     == <<git, pc, script, history>>

\* A blob is numbered in the order Terraform produces it; 0 is "no file".
NoBlob == 0
Blobs  == 0..MaxBlobs

Labels == {"idle", "restore", "apply", "fetch", "push", "landed", "done",
           "failed"}

Trees == [Files -> Blobs]

NoTree == [f \in Files |-> NoBlob]

Commits == [tree: Trees, file: Files, from: Blobs, blind: BOOLEAN]

\* The tree of the i-th commit of branch b; no commit, no file.
TreeAt(b, i) == IF i = 0 THEN NoTree ELSE b[i].tree

Tip == TreeAt(branch, Len(branch))

Holds(w) == LockOf[w][file[w]]

TypeOK ==
  /\ branch  \in Seq(Commits)
  /\ pc      \in [Writers -> Labels]
  /\ file    \in [Writers -> Files]
  /\ local   \in [Writers -> Blobs]
  /\ base    \in [Writers -> Nat]
  /\ tree    \in [Writers -> Trees]
  /\ attempt \in [Writers -> 1..MaxAttempts]
  /\ minted  \in Blobs
  /\ from    \in [Writers -> Blobs]
  /\ blind   \in [Writers -> BOOLEAN]
  /\ start   \in [Writers -> Nat]
  /\ faults  \in [Writers -> Nat]

Init ==
  /\ branch  = <<>>
  /\ pc      = [w \in Writers |-> "idle"]
  /\ file    \in [Writers -> Files]
  /\ local   = [w \in Writers |-> NoBlob]
  /\ base    = [w \in Writers |-> 0]
  /\ tree    = [w \in Writers |-> NoTree]
  /\ attempt = [w \in Writers |-> 1]
  /\ minted  = 0
  /\ from    = [w \in Writers |-> NoBlob]
  /\ blind   = [w \in Writers |-> FALSE]
  /\ start   = [w \in Writers |-> 0]
  /\ faults  = [w \in Writers |-> 0]

Goto(w, label) == pc' = [pc EXCEPT ![w] = label]

-------------------------------------------------------------------------------
(* The job around the script.                                              *)

\* (Without the lock: concurrency group or exclusive lock not configured.)
BeginUnlocked(w, f) ==
  /\ pc[w] = "idle"
  /\ Goto(w, "restore")
  /\ file' = [file EXCEPT ![w] = f]
  /\ UNCHANGED <<branch, local, base, tree, attempt, minted, history>>

\* A fresh runner enters the job once its lock is free.
Begin(w, f) ==
  /\ pc[w] = "idle"
  /\ \A v \in Writers : pc[v] # "idle" => Holds(v) # LockOf[w][f]
  /\ Goto(w, "restore")
  /\ file' = [file EXCEPT ![w] = f]
  /\ UNCHANGED <<branch, local, base, tree, attempt, minted, history>>

\* The job is over: its runner is discarded, its lock released.
Dispose(w) ==
  /\ Goto(w, "idle")
  /\ local'   = [local EXCEPT ![w] = NoBlob]
  /\ base'    = [base EXCEPT ![w] = 0]
  /\ tree'    = [tree EXCEPT ![w] = NoTree]
  /\ attempt' = [attempt EXCEPT ![w] = 1]
  /\ from'    = [from EXCEPT ![w] = NoBlob]
  /\ blind'   = [blind EXCEPT ![w] = FALSE]
  /\ start'   = [start EXCEPT ![w] = 0]
  /\ faults'  = [faults EXCEPT ![w] = 0]
  /\ UNCHANGED <<branch, file, minted>>

\* restore: a fetch that fails is taken for a branch without the file.
Restored(fetched, w) == IF fetched THEN Tip[file[w]] ELSE NoBlob

Restore(w) ==
  /\ pc[w] = "restore"
  /\ \E fetched \in BOOLEAN :
       /\ local' = [local EXCEPT ![w] = Restored(fetched, w)]
       /\ from'  = [from EXCEPT ![w] = Restored(fetched, w)]
       /\ blind' = [blind EXCEPT ![w] = ~fetched /\ branch # <<>>]
  /\ Goto(w, "apply")
  /\ UNCHANGED <<branch, file, base, tree, attempt, minted, start, faults>>

\* terraform apply, green or red, rewrites the file or leaves it alone.
Apply(w) ==
  /\ pc[w] = "apply"
  /\ \/ /\ minted < MaxBlobs
        /\ minted' = minted + 1
        /\ local' = [local EXCEPT ![w] = minted + 1]
     \/ /\ local[w] # NoBlob
        /\ UNCHANGED <<minted, local>>
  /\ Goto(w, "fetch")
  /\ start' = [start EXCEPT ![w] = Len(branch)]
  /\ UNCHANGED <<branch, file, base, tree, attempt, from, blind, faults>>

\* if [ -f terraform.tfstate ]: without a file there is nothing to persist.
ApplyWithoutState(w) ==
  /\ pc[w] = "apply"
  /\ local[w] = NoBlob
  /\ Dispose(w)

\* (A lock that a failed job keeps.)
EndOnSuccess(w) ==
  /\ pc[w] = "done"
  /\ Dispose(w)

End(w) ==
  /\ pc[w] \in {"done", "failed"}
  /\ Dispose(w)

\* The runner dies, or the run is cancelled, and takes the local file with it.
Crash(w) ==
  /\ pc[w] # "idle"
  /\ Dispose(w)

-------------------------------------------------------------------------------
(* persist.                                                                *)

\* (Without git read-tree: the index holds the one file.)
RebuildAlone(w, parent) ==
  /\ base' = [base EXCEPT ![w] = parent]
  /\ tree' = [tree EXCEPT ![w] = [NoTree EXCEPT ![file[w]] = local[w]]]
  /\ Goto(w, "push")

\* The new tree on top of the fetched tip, or on nothing after a failed fetch.
Rebuild(w, parent) ==
  /\ base' = [base EXCEPT ![w] = parent]
  /\ tree' = [tree EXCEPT ![w] =
                [TreeAt(branch, parent) EXCEPT ![file[w]] = local[w]]]
  /\ Goto(w, "push")

\* (With git push --force.)
ForcePush(w) == base[w] <= Len(branch)

\* A push is fast-forward when the commit's parent is the remote's tip.
FastForward(w) == base[w] = Len(branch)

\* (A retry taken for proof that the earlier push landed.)
UnchangedOnRetry(w) ==
  /\ pc[w] = "fetch"
  /\ Len(branch) > 0
  /\ Tip[file[w]] = local[w] \/ attempt[w] > 1
  /\ Goto(w, "done")
  /\ UNCHANGED <<git, script, history>>

\* The fetched branch already holds the file: exit 0 without a push.
Unchanged(w) ==
  /\ pc[w] = "fetch"
  /\ Len(branch) > 0
  /\ Tip[file[w]] = local[w]
  /\ Goto(w, "done")
  /\ UNCHANGED <<git, script, history>>

\* (Rebuilding on the tip fetched in the first round.)
FetchOnce(w) ==
  /\ pc[w] = "fetch"
  /\ Len(branch) > 0
  /\ Tip[file[w]] # local[w]
  /\ Rebuild(w, IF attempt[w] = 1 THEN Len(branch) ELSE base[w])
  /\ UNCHANGED <<branch, file, local, attempt, minted, history>>

Fetch(w) ==
  /\ pc[w] = "fetch"
  /\ Len(branch) > 0
  /\ Tip[file[w]] # local[w]
  /\ Rebuild(w, Len(branch))
  /\ UNCHANGED <<branch, file, local, attempt, minted, history>>

\* git fetch also fails while the branch does not exist: that is no fault.
FetchFails(w) ==
  /\ pc[w] = "fetch"
  /\ Rebuild(w, 0)
  /\ faults' = [faults EXCEPT ![w] = IF branch = <<>> THEN @ ELSE @ + 1]
  /\ UNCHANGED <<branch, file, local, attempt, minted, from, blind, start>>

\* The remote takes the commit; the script does not know it yet.
PushLands(w) ==
  /\ pc[w] = "push"
  /\ FastForward(w)
  /\ branch' = Append(SubSeq(branch, 1, base[w]),
                      [tree |-> tree[w], file |-> file[w],
                       from |-> from[w], blind |-> blind[w]])
  /\ Goto(w, "landed")
  /\ UNCHANGED <<script, history>>

PushSucceeds(w) ==
  /\ pc[w] = "landed"
  /\ Goto(w, "done")
  /\ UNCHANGED <<git, script, history>>

\* (One round too many.)
RetryOnceMore(w) ==
  IF attempt[w] <= MaxAttempts
    THEN /\ attempt' = [attempt EXCEPT ![w] = @ + 1]
         /\ Goto(w, "fetch")
    ELSE /\ Goto(w, "failed")
         /\ UNCHANGED attempt

\* (A push that failed taken for one that landed.)
GiveUp(w) == Goto(w, "done") /\ UNCHANGED attempt

\* Another round of the loop, or exit 1 after the last one.
Retry(w) ==
  IF attempt[w] < MaxAttempts
    THEN /\ attempt' = [attempt EXCEPT ![w] = @ + 1]
         /\ Goto(w, "fetch")
    ELSE /\ Goto(w, "failed")
         /\ UNCHANGED attempt

\* The remote refuses a commit that is not a fast-forward.
PushRejected(w) ==
  /\ pc[w] = "push"
  /\ ~FastForward(w)
  /\ Retry(w)
  /\ UNCHANGED <<branch, file, local, base, tree, minted, history>>

\* The network fails: before the remote took the commit, or after it.
PushLost(w) ==
  /\ pc[w] \in {"push", "landed"}
  /\ Retry(w)
  /\ faults' = [faults EXCEPT ![w] = @ + 1]
  /\ UNCHANGED <<branch, file, local, base, tree, minted, from, blind, start>>

-------------------------------------------------------------------------------
Step(w) ==
  \/ Restore(w)
  \/ Apply(w)
  \/ ApplyWithoutState(w)
  \/ Unchanged(w)
  \/ Fetch(w)
  \/ FetchFails(w)
  \/ PushLands(w)
  \/ PushSucceeds(w)
  \/ PushRejected(w)
  \/ PushLost(w)
  \/ End(w)

Next ==
  \E w \in Writers :
    \/ \E f \in Files : Begin(w, f)
    \/ Step(w)
    \/ Crash(w)

Spec == Init /\ [][Next]_vars

\* A runner that is not killed keeps executing its job.
FairSpec == Spec /\ \A w \in Writers : WF_vars(Step(w))

-------------------------------------------------------------------------------
(* Properties.                                                             *)

\* One deployer: every job takes the same lock for a given state file.
OneDeployer ==
  \A v, w \in Writers : \A f \in Files : LockOf[v][f] = LockOf[w][f]

\* SEPARATION (script header): a commit about one environment leaves every
\* other environment's state as its parent had it, however many jobs raced.
Separation ==
  \A i \in 1..Len(branch) : \A f \in Files \ {branch[i].file} :
    branch[i].tree[f] = TreeAt(branch, i - 1)[f]

\* LOCKING (script header, "a concurrent writer loses nothing"): a commit only
\* replaces the version its job had restored, unless the restore could not
\* reach the remote and took the file for one that does not exist yet.
NoLostUpdate ==
  \A i \in 1..Len(branch) :
    branch[i].blind \/ branch[i].from = TreeAt(branch, i - 1)[branch[i].file]

\* persist exits 0 only when the branch really holds the runner's file, also
\* after retries whose earlier push had landed without an answer.
SuccessIsDurable ==
  \A w \in Writers : pc[w] = "done" => Tip[file[w]] = local[w]

\* A round of the persist loop is only ever lost to a network fault or to a
\* commit that landed on the branch meanwhile: rounds are not wasted.
RetriesAreExplained ==
  \A w \in Writers :
    pc[w] \in {"fetch", "push", "landed", "failed"} =>
      attempt[w] <= Len(branch) - start[w] + faults[w]
                      + (IF pc[w] = "failed" THEN 0 ELSE 1)

\* VERSIONING (script header): the branch only ever grows, so no pushed commit
\* is lost, by any interleaving of pushes built on stale tips.
HistoryKept ==
  [][/\ Len(branch') >= Len(branch)
     /\ \A i \in 1..Len(branch) : branch'[i] = branch[i]]_branch

\* A job that is not killed leaves its lock, whatever the network does.
LockReleased ==
  \A w \in Writers : pc[w] # "idle" ~> pc[w] = "idle"

-------------------------------------------------------------------------------
(* The inductive invariant, for one deployer.                              *)

\* A file has one job at work on it at a time.
Exclusive ==
  \A v, w \in Writers :
    v # w /\ pc[v] # "idle" /\ pc[w] # "idle" => file[v] # file[w]

\* A runner only persists a file that exists.
HasFile ==
  \A w \in Writers :
    pc[w] \in {"fetch", "push", "landed", "done"} => local[w] # NoBlob

\* A commit under way is its parent's tree with one file replaced.
Built ==
  \A w \in Writers : pc[w] = "push" =>
    /\ base[w] <= Len(branch)
    /\ TreeAt(branch, base[w])[file[w]] # local[w]
    /\ tree[w] = [TreeAt(branch, base[w]) EXCEPT ![file[w]] = local[w]]

\* Nobody moves a file between the landing of a push and its job's end.
AtTip ==
  \A w \in Writers :
    pc[w] \in {"landed", "done"} => Tip[file[w]] = local[w]

\* The branch holds what a job restored until the job's own commit lands.
Origin ==
  \A w \in Writers :
    /\ pc[w] = "apply" => blind[w] \/ Tip[file[w]] = from[w]
    /\ pc[w] \in {"fetch", "push"} =>
         blind[w] \/ Tip[file[w]] \in {from[w], local[w]}

\* Rounds of the persist loop, paid for by commits and by faults.
Rounds ==
  \A w \in Writers :
    /\ pc[w] \in {"idle", "restore", "apply"} => attempt[w] = 1
    /\ pc[w] \in {"fetch", "push", "landed", "failed"} =>
         start[w] <= Len(branch)
    /\ pc[w] \in {"fetch", "landed"} =>
         attempt[w] <= Len(branch) - start[w] + faults[w] + 1
    /\ pc[w] = "push" =>
         \/ attempt[w] <= base[w] - start[w] + faults[w] + 1
         \/ attempt[w] <= Len(branch) - start[w] + faults[w]
    /\ pc[w] = "failed" =>
         attempt[w] <= Len(branch) - start[w] + faults[w]

IInv ==
  /\ TypeOK
  /\ Exclusive
  /\ HasFile
  /\ Built
  /\ AtTip
  /\ Origin
  /\ Rounds
  /\ Separation
  /\ NoLostUpdate

-------------------------------------------------------------------------------
(* The script implements the abstract store of StateStore.                 *)

\* A job has saved when its script says so; until then it is saving, even
\* if its commit has landed already.
Phase(label) ==
  CASE label = "idle"    -> "idle"
    [] label = "restore" -> "open"
    [] label = "apply"   -> "loaded"
    [] label = "done"    -> "saved"
    [] OTHER             -> "saving"

Store == INSTANCE StateStore WITH
  Clients  <- Writers,
  Versions <- 1..MaxBlobs,
  Nothing  <- NoBlob,
  store    <- Tip,
  phase    <- [w \in Writers |-> Phase(pc[w])],
  value    <- local

\* Each file of the branch behaves as an atomic register of its own: pushes
\* race and answers are lost, yet a save takes effect at once and on one file.
ImplementsStore == Store!Spec

===============================================================================
