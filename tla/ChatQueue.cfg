\* One session on either store: three tasks, three messages, one queue edit,
\* two visits, one crash or failing statement.
CONSTANTS
  Task = {t1, t2, t3}
  None = None
  Backends = {"sqlite", "postgres"}
  MaxPosts = 3
  MaxEdits = 1
  MaxVisits = 2
  MaxFaults = 1
SPECIFICATION FairSpec
INVARIANTS TypeOK AgentHoldsSession QueueRunsInOrderOnce EditsAreHonoured
PROPERTIES NoOvertaking QueuedMessageSettles
CHECK_DEADLOCK FALSE
