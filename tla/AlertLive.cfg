\* One fair rule on either store: a window of one tick, two user operations, a
\* metric that changes twice, one restart.
CONSTANTS
  None = None
  Backends = {"sqlite", "postgres"}
  Fors = {1}
  MaxAge = 1
  MaxEdits = 2
  MaxFlips = 2
  MaxMisses = 0
  MaxCrashes = 1
SPECIFICATION FairSpec
PROPERTIES RuleFollowsMetric TimerFollowsRule
