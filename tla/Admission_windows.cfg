SPECIFICATION Spec
CONSTANTS
  a1 = a1
  a2 = a2
  q1 = q1
  q2 = q2
  rec1 = rec1
  Attempts = {a1, a2}
  RequestOf <- MC_OwnRequests
  Scopes <- MC_TwoScopes
  ScopesOf <- MC_AllScopes
  Policies = {q1, q2}
  PolicyData <- MC_Windowed
  TokenBound <- MC_Bounds
  MaximumCost <- MC_Costs
  Price = 1
  Usages = {}
  ReconIds = {}
  ReconCosts = {3}
  WindowLen <- MC_Windows
  Timeout = 1
  Grace = 0
  AttemptRetention = 0
  UsageRetention = 1
  Batch = 1
  CursorSees = {TRUE, FALSE}
  MaxInt = 9
  MaxTime = 4
  MaxRevision = 4
INVARIANTS Conservation 
PROPERTIES OverrunOnlyIncurred
SYMMETRY SettleSymmetry
