SPECIFICATION Spec
CONSTANTS
  Publishers = {p1}
  Revisions = {"r1", "r2"}
  Files <- MCFiles
  MaxLineage = 2
  MaxRuns = 1
  MaxTouches = 0
  MaxFaults = 0
CHECK_DEADLOCK FALSE
PROPERTIES
  UndisturbedRunPublishes
