SPECIFICATION Spec
CONSTANTS
  w1 = w1
  w2 = w2
  Workers = {w1}
  Admin = admin
  Jobs = {1}
  AdminActions = {"cancel"}
  Terminal = {"complete", "cancelled", "failed"}
  Evidenced = {1}
  LeaseTicks = 1
  PollTicks = 1
  ScanBudget = 2
  MaxCrashes = 1
  Pauses = FALSE
INVARIANTS HandedOverIsClaimable
