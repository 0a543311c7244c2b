SPECIFICATION Spec
CONSTANTS
  w1 = w1
  w2 = w2
  Workers = {w1, w2}
  Admin = admin
  Jobs = {1}
  AdminActions = {"result", "cancel"}
  Terminal = {"completed", "cancelled"}
  Evidenced = {1}
  LeaseTicks = 2
  PollTicks = 1
  ScanBudget = 2
  MaxCrashes = 1
  Pauses = TRUE
INVARIANTS  SettledOnEvidence
PROPERTIES EvidenceIsKept
SYMMETRY WorkerSymmetry
