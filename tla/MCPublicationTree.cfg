SPECIFICATION Spec
CONSTANTS
  Publishers = {p1}
  Revisions = {"r1", "r2"}
  Files <- MCFiles
  MaxLineage = 2
  MaxRuns = 2
  MaxTouches = 1
  MaxFaults = 0
CHECK_DEADLOCK FALSE
INVARIANTS
  DraftTreeIsExact
