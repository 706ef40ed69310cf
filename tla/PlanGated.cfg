\* Per-step approval (autoEdit = FALSE) on the sqlite event loop.
CONSTANTS
  Request = {r1, r2}
  None = None
  N = 2
  Backend = "sqlite"
  Ops = {"approve", "reject", "cancel", "retry", "approveStep", "rejectStep", "override"}
  AutoEdits = {FALSE}
  MaxOps = 5
  MaxFaults = 1
SYMMETRY Symmetry
SPECIFICATION Spec
INVARIANTS StartsGranted NoSilentStall
CHECK_DEADLOCK FALSE
