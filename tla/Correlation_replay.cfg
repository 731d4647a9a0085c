SPECIFICATION Spec
CONSTANTS
  job = job
  feed = feed
  saas = saas
  err = err
  slow = slow
  db = db
  Monitors = {job, feed, saas, err, slow, db}
  Keys = {"batch", "data", "vendor", "app", "db"}
  Envs = {"prod"}
  Regions = {"east", "west"}
  Services = {"batch", "data", "vendor", "app", "db"}
  Packs = {"pack"}
  KeyOf <- KeyOfMonitor
  EnvOf <- InProd
  RegionOf <- InTwoRegions
  ServiceOf <- OwnService
  PackOf <- OnePack
  PriorityOf <- Severity
  SignalRank <- Ranks
  SchedulerParents = {job}
  SchedulerChildren = {feed, job}
  VendorParents = {saas}
  VendorChildren = {job, err, slow}
  TopologyParents = {db}
  TopologyChildren = {job, feed, saas, err, slow}
  Window = 1
  DedupWindow = 2
  SchedulerWindow = 2
  Lookback = 1
  ServicesIn <- FiveServices
  OneIn = 4
  MaxTime = 2
  MaxEvents = 4
CHECK_DEADLOCK FALSE
INVARIANTS
  AlertsConserved
  SymptomsAdopted
  SchedulerKeepsSeverity
  ClosedGroupsRecovered
