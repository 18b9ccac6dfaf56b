SPECIFICATION Spec
CONSTANTS
  Publishers = {p1, p2}
  Revisions = {"r1", "r2"}
  Files <- MCFiles
  MaxLineage = 2
  MaxRuns = 3
  MaxTouches = 1
  MaxFaults = 1
CHECK_DEADLOCK FALSE
INVARIANTS
  MachineChainIsPure
  RecordsAreExact
  NothingIsWrittenTwice
PROPERTIES
  QuietRunPublishesUnlessListed
\* Also hold: TypeOK, PeoplesCommitsStay.
