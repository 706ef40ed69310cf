CONSTANTS
  Request = {r1, r2}
  None = None
  N = 2
  Backend = "postgres"
  Ops = {"approve", "reject", "cancel", "retry"}
  AutoEdits = {TRUE}
  MaxOps = 3
  MaxFaults = 1
SYMMETRY Symmetry
SPECIFICATION Spec
INVARIANTS SignedOffBeforeRun NoSilentStall
CHECK_DEADLOCK FALSE
