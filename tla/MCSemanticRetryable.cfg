SPECIFICATION Spec
CONSTANTS
  Compositions = {"discovery"}
  Providers = {"openai"}
  MaxAttempts = 3
  RequestBudget = 3
  MaxRuns = 2
  MaxStarts <- TwoProcesses
  MaxFaults = 0
CHECK_DEADLOCK FALSE
INVARIANTS
  RetryableIsNoConflict
