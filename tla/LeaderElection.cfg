\* Two processes, a lease of two ticks renewed every tick, three changes of the
\* metric, two pauses, stops or crashes.
CONSTANTS
  Replica = {r1, r2}
  None = None
  Gone = Gone
  Ttl = 2
  Beat = 1
  MaxFlips = 3
  MaxUpsets = 2
SPECIFICATION FairSpec
INVARIANTS TypeOK OneLeader FiringToldOnce
PROPERTIES SplitBrainHeals LeadershipRecovers
