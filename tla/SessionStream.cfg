\* One tab, the agent's run and one handler, two events, two unpersisted ones, one
\* POST, two faults; a tab that gives up after its second failed attempt.
CONSTANTS
  Tab = {t1}
  Handler = {h1}
  Chain = chain
  Backends = {"sqlite", "postgres"}
  MaxReconnects = 1
  MaxEvents = 2
  MaxNavs = 2
  MaxPosts = 1
  MaxFaults = 2
SPECIFICATION FairSpec
INVARIANTS TypeOK TabSkipsNothing
PROPERTIES EventReachesTab
CHECK_DEADLOCK FALSE
