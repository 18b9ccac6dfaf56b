SPECIFICATION Spec
CONSTANTS
  Compositions = {"local", "campaign"}
  Providers = {"deepseek"}
  MaxAttempts = 3
  RequestBudget = 3
  MaxRuns = 2
  MaxStarts <- TwoProcesses
  MaxFaults = 0
CHECK_DEADLOCK FALSE
INVARIANTS
  StoredChainVerifies
