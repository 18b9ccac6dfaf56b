SPECIFICATION Spec
CONSTANTS
  Entries = 1
  MaxAttempts = 3
  RequestBudget = 4
  Answers <- MCAnswers
  MaxStops = 0
  MaxForeign = 0
INVARIANTS
  EveryCheckpointOwnsItsFact
