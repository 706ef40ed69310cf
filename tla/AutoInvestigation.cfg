\* One process on either store: two events or clicks, one upset (crash, failing
\* statement, deletion or other write of the rule's row) on postgres and two on
\* sqlite; a report cools down for one tick,
\* an agent has one tick, state is stale after two.
CONSTANTS
  Replica = {r1}
  None = None
  Backends = {"sqlite", "postgres"}
  Cooldown = 1
  Timeout = 1
  Stale = 2
  MaxRuns = 2
  MaxUpsets <- MCMaxUpsets
SPECIFICATION FairSpec
INVARIANTS TypeOK
PROPERTIES InvestigatingEnds EventsAreDeduplicated 
