SPECIFICATION FairSpec
CONSTANTS
  MaxRuns = 3
  MaxNightly = 1
  MaxVersions = 3
  MaxAccidents = 1
  Faults <- RedEditsAndFetch
  Deployer <- GitHub
  Nonprod <- TwoNonprod
  Production <- JustProd
  Watched <- Everywhere
  Marked <- Environments
  Addresses = {"a", "b"}
  Desired <- SameEverywhere
CHECK_DEADLOCK FALSE
PROPERTIES
  NoRollback
  NoFalseAlarm
  OnlyNightlyLosesAMerge
