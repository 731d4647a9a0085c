SPECIFICATION Spec
CONSTANTS
  Runbooks = {"disk", "queue"}
  AtFirst = {"disk", "queue"}
  OtherNames = {"notes"}
  Deploys = {"deploy"}
  Checks = {"nightly"}
  Entities = {"shop"}
  AutoCreated = {"github-actions"}
  OtherServices = {"pilot"}
  EntityViews = {{"shop"}}
  Attempts = 2
  MaxDelete = 2
  MaxVersion = 1
  MaxId = 5
  MaxByHand = 1
  MaxFaults = 2
CHECK_DEADLOCK FALSE
INVARIANTS
  DuplicatesAreAccidents
  GreenReconcileRemoved
PROPERTIES
  RegisteredSpared
  PublicationConverges
