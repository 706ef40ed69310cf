\* A rule disabled while its metric query is out, on sqlite.
CONSTANTS
  None = None
  Backends = {"sqlite"}
  Fors = {0, 1}
  MaxAge = 1
  MaxEdits = 1
  MaxFlips = 1
  MaxMisses = 0
  MaxCrashes = 0
SPECIFICATION Spec
PROPERTIES DisabledStaysDisabled
