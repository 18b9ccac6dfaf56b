SPECIFICATION Spec
CONSTANTS
  p1 = p1
  p2 = p2
  Processes = {p1, p2}
  Absent = Absent
  Partial = Partial
  Blank = Blank
  Kinds = {"pipeline", "operations", "publication"}
  MaxWrites = 3
  MaxFaults = 2
  MaxCrashes = 3
SYMMETRY Symmetry
INVARIANTS
  OpenStoreIsCurrent
  RefusedWriteIsUndone
  PipelineIsNeverBlocked
PROPERTIES
  ImplementsRegister
\* Also hold: TypeOK, FileSurvives.
