----------------------------- MODULE MCCorrelation -----------------------------
(***************************************************************************)
(* Correlation on a small estate in one environment: a Control-M job and   *)
(* the feed that waits for it, a SaaS vendor, a service with two alerts of *)
(* one correlation key, and the database below it.                         *)
(***************************************************************************)
EXTENDS Correlation, TLC

CONSTANTS job, feed, saas, err, slow, db

KeyOfMonitor == job :> "batch" @@ feed :> "data" @@ saas :> "vendor"
                  @@ err :> "app" @@ slow :> "app" @@ db :> "db"

InProd == [m \in Monitors |-> "prod"]
InTwoRegions == [m \in Monitors |-> IF m = feed THEN "west" ELSE "east"]
OwnService == KeyOfMonitor
OnePack == [m \in Monitors |-> "pack"]

Severity == job :> 2 @@ feed :> 1 @@ saas :> 3 @@ err :> 1 @@ slow :> 3 @@ db :> 2
Ranks    == job :> 15 @@ feed :> 6 @@ saas :> 0 @@ err :> 7 @@ slow :> 8 @@ db :> 0

FiveServices == [p \in Packs |-> 5]

===============================================================================
