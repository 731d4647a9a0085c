----------------------------- MODULE MCTfStateGit -----------------------------
(***************************************************************************)
(* TfStateGit on small instances.  Azure Pipelines takes one exclusive     *)
(* lock per deployment environment, so its nonprod and production jobs     *)
(* race on the branch; GitHub Actions has one lock for everything, but     *)
(* knows nothing of Azure's.                                               *)
(***************************************************************************)
EXTENDS TfStateGit

CONSTANTS w1, w2, qa, prod, nonprodLock, prodLock, githubLock

\* One deployer with a lock per environment (azure-pipelines.yml).
PerEnvironment ==
  [w \in Writers |-> [f \in Files |-> IF f = prod THEN prodLock ELSE nonprodLock]]

===============================================================================
