SPECIFICATION Spec
CONSTANTS
  a1 = a1
  a2 = a2
  q1 = q1
  q2 = q2
  rec1 = rec1
  Attempts = {a1, a2}
  RequestOf <- MC_OwnRequests
  Scopes <- MC_OneScope
  ScopesOf <- MC_AllScopes
  Policies = {q1}
  PolicyData <- MC_PerMinute
  TokenBound <- MC_Bounds
  MaximumCost <- MC_Costs
  Price = 1
  Usages <- MC_SettleUsages
  ReconIds = {}
  ReconCosts = {3}
  WindowLen <- MC_Windows
  Timeout = 1
  Grace = 0
  AttemptRetention = 0
  UsageRetention = 1
  Batch = 1
  CursorSees = {FALSE}
  MaxInt = 9
  MaxTime = 5
  MaxRevision = 2
INVARIANTS NoDuplicateAllowance
