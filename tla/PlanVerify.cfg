\* A plan of two steps with its verification: two operations, one crash or
\* failing statement, a rule that is evaluated, changed or deleted at any time.
CONSTANTS
  Request = {r1, r2}
  None = None
  N = 2
  Backend = "sqlite"
  Ops = {"approve", "cancel", "retry"}
  AutoEdits = {TRUE}
  MaxOps = 2
  MaxFaults = 1
  Wait = 1
SPECIFICATION MCSpec
INVARIANTS VTypeOK PassedIsFresh
PROPERTIES VerificationSettles EventuallySettles
