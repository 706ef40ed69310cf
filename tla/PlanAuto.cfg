\* One plan of three steps, auto-edit approval, sqlite event loop, all plan
\* operations, one fault.
CONSTANTS
  Request = {r1, r2}
  None = None
  N = 3
  Backend = "sqlite"
  Ops = {"approve", "reject", "cancel", "retry"}
  AutoEdits = {TRUE}
  MaxOps = 4
  MaxFaults = 1
SYMMETRY Symmetry
SPECIFICATION Spec
INVARIANTS TypeOK StartsGranted AppliedMeansDoneUntilRetry
PROPERTIES UnresolvedNeverRepeated RefusalIsPermanent StoppedPlanStartsNothing InOrderUntilRetry ImplementsLifecycle
CHECK_DEADLOCK FALSE
