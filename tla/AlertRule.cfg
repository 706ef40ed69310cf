\* One rule on either store: windows of 0 and 2 ticks, two user operations, a
\* metric that changes twice, one query without a sample, one restart.
CONSTANTS
  None = None
  Backends = {"sqlite", "postgres"}
  Fors = {0, 2}
  MaxAge = 2
  MaxEdits = 2
  MaxFlips = 2
  MaxMisses = 1
  MaxCrashes = 1
SPECIFICATION Spec
INVARIANTS TypeOK PendingHasSince FiringsAnnouncedOnce
PROPERTIES FiresAfterWindow
