\* Two jobs of any kind on one machine, blank or with the files of an older release,
\* the second with or without what the first left, among commits of jobs elsewhere.
SPECIFICATION FairSpec
CONSTANTS
  Modes = {"discovery", "acceptance", "pinned"}
  MaxJobs = 2
  MaxBundles = 2
CHECK_DEADLOCK FALSE
INVARIANTS
  PublishedHistoryGrows
  WorksOnWhatItObserved
PROPERTIES
  RestoreCompletes
