SPECIFICATION Spec
CONSTANTS
  Runbooks = {"disk"}
  AtFirst = {}
  OtherNames = {"notes"}
  Deploys = {"deploy"}
  Checks = {"nightly"}
  Entities = {"shop"}
  AutoCreated = {"github-actions"}
  OtherServices = {"pilot"}
  EntityViews = {{"shop"}}
  Attempts = 2
  MaxDelete = 1
  MaxVersion = 1
  MaxId = 5
  MaxByHand = 1
  MaxFaults = 1
CHECK_DEADLOCK FALSE
PROPERTIES
  NewestSpared
