SPECIFICATION Spec
CONSTANTS
  s1 = s1
  s2 = s2
  eng = eng
  lead = lead
  rewrite = rewrite
  insert = insert
  wide = wide
  Sessions <- TwoSessions
  Principals = {eng, lead}
  OwnerOf <- BothByLead
  Holds <- EveryCapability
  Granted <- GrantedBy
  Approvers = {eng}
  Changes = {rewrite, insert}
  EnvsOf <- Targets
  Inserting = {insert}
  Rewriting = {rewrite}
  Subjects = {"x"}
  Limit <- Limits
  Window <- TwoTicks
  TTL = 0
  DayLength = 2
  MaxTime = 0
  MaxCalls = 2
  MaxKills = 1
  MaxGaps = 1
SYMMETRY Interchangeable
CHECK_DEADLOCK FALSE
INVARIANTS
  TracedCommit
  ScratchReleased
PROPERTIES
  BranchesAreFinal
