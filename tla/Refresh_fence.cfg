SPECIFICATION FairSpec
CONSTANTS
  r1 = r1
  r2 = r2
  r3 = r3
  p = p
  q = q
  Requests = {r1, r2, r3}
  Processes = {p, q}
  ProcessOf <- MC_ProcessOf
  MaxVersion = 3
  MaxTokens = 3
INVARIANTS TypeOK UsableIsValid TokenIsNotReused LeaseWasStored
PROPERTIES RefreshFollowsToken LeaseEnds
