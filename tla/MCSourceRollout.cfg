SPECIFICATION Spec
CONSTANTS
  ca = ca
  tx = tx
  Scope <- Widened
  Run = {r1, r2, r3}
  Proc = {p1, p2}
  NoRun = NoRun
  MaxCount = 2
SYMMETRY Interchangeable
CHECK_DEADLOCK FALSE
INVARIANTS
  ApprovalEarned
  UnattendedScopeApproved
  SweepOfOneScope
PROPERTIES
  ApprovalKept
