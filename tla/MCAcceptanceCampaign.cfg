SPECIFICATION FairSpec
CONSTANTS
  Entries = 2
  MaxAttempts = 2
  RequestBudget = 4
  Answers <- MCAnswers
  MaxStops = 2
  MaxForeign = 1
INVARIANTS
  OnlyOwnLineageIsExtended
  ScenarioIsBacked
PROPERTIES
  ImplementsRecord
  BenchmarkIsDecided
\* Also hold: TypeOK, RequestsAreAuthorised, ReportIsTruthful, FactsAreKept.
