SPECIFICATION Spec
CONSTANTS
  p1 = p1
  p2 = p2
  Processes = {p1, p2}
  Absent = Absent
  Partial = Partial
  Blank = Blank
  Kinds = {"operations"}
  MaxWrites = 2
  MaxFaults = 0
  MaxCrashes = 1
INVARIANT
  TemporariesAreRecovered
