SPECIFICATION FairSpec
CONSTANTS
  Compositions = {"discovery", "campaign", "local"}
  Providers = {"openai", "deepseek"}
  MaxAttempts = 3
  RequestBudget = 2
  MaxRuns = 2
  MaxStarts <- Processes
  MaxFaults = 1
CHECK_DEADLOCK FALSE
INVARIANTS
  RequestsAreAuthorised
  TerminalIsTruthful
PROPERTIES
  ImplementsLedger
  UndisturbedRunIsDecided
\* Also hold: TypeOK, AmbiguityIsNeverReplayed, RequestsAreBounded, StoresAgree.
