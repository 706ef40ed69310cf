\* Two replicas on postgres: a reject races an approve.
CONSTANTS
  Request = {r1, r2}
  None = None
  N = 1
  Backend = "postgres"
  Ops = {"approve", "reject"}
  AutoEdits = {TRUE}
  MaxOps = 2
  MaxFaults = 0
SPECIFICATION Spec
PROPERTIES RejectionIsPermanent
CHECK_DEADLOCK FALSE
