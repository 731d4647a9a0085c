------------------------------ MODULE MCPromotion ------------------------------
(***************************************************************************)
(* Promotion on small instances: one nonprod and one production coverage   *)
(* file, the foundation file before it, and definitions that add one       *)
(* resource and drop another.                                              *)
(***************************************************************************)
EXTENDS Promotion

OneNonprod    == <<"stage">>
TwoNonprod    == <<"qa", "stage">>
FoundationAndProd == <<"foundation", "prod">>
StageAndProd  == <<"stage", "prod">>
Everywhere    == <<"qa", "stage", "prod">>
JustProd      == <<"prod">>
Environments  == Files \ {"foundation"}

\* Version 1 asks for a; version 2 drops a and asks for b; version 3 for both.
DesiredBy(v) ==
  CASE v = 1 -> {"a"}
    [] v = 2 -> {"b"}
    [] OTHER -> {"a", "b"}

SameEverywhere == [v \in Versions |-> [f \in Files |-> DesiredBy(v)]]

Azure  == [r \in Runs |-> "azure"]
GitHub == [r \in Runs |-> "github"]

AllFaults == FaultKinds
NoFaults  == {}
RedEditsAndFetch == {"apply", "edit", "fetch"}

\* The hypothesis of the theorems about state files (PromotionProofs).
ASSUME ServiceAssumption == OneLockPerFile

===============================================================================
