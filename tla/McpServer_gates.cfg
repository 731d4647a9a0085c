SPECIFICATION Spec
CONSTANTS
  s1 = s1
  s2 = s2
  eng = eng
  lead = lead
  rewrite = rewrite
  insert = insert
  wide = wide
  Sessions <- OneSession
  Principals = {eng, lead}
  OwnerOf <- BothByLead
  Holds <- EveryCapability
  Granted <- GrantedBy
  Approvers = {eng}
  Changes = {rewrite, insert, wide}
  EnvsOf <- Targets
  Inserting = {insert}
  Rewriting = {rewrite}
  Subjects = {"x"}
  Limit <- Limits
  Window <- TwoTicks
  TTL = 1
  DayLength = 2
  MaxTime = 2
  MaxCalls = 2
  MaxKills = 1
  MaxGaps = 0
CHECK_DEADLOCK FALSE
INVARIANTS
  GatedCommit
  BudgetPerWindow
