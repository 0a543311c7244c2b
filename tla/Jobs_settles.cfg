SPECIFICATION FairSpec
CONSTANTS
  w1 = w1
  w2 = w2
  Workers = {w1}
  Admin = admin
  Jobs = {1, 2}
  AdminActions = {}
  Terminal = {"completed"}
  Evidenced = {1}
  LeaseTicks = 2
  PollTicks = 1
  ScanBudget = 1
  MaxCrashes = 1
  Pauses = FALSE
INVARIANTS HandedOverIsClaimable
PROPERTIES HandedOverIsSettled
