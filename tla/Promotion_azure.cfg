SPECIFICATION Spec
CONSTANTS
  MaxRuns = 3
  MaxNightly = 0
  MaxVersions = 2
  MaxAccidents = 1
  Faults <- AllFaults
  Deployer <- Azure
  Nonprod <- OneNonprod
  Production <- FoundationAndProd
  Watched <- StageAndProd
  Marked <- Environments
  Addresses = {"a", "b"}
  Desired <- SameEverywhere
CHECK_DEADLOCK FALSE
INVARIANTS
  OrphansAreAccidents
  DuplicatesAreAccidents
  PromotionOrder
PROPERTIES
  MarkerTruthful
