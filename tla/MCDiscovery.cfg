SPECIFICATION FairSpec
CONSTANTS
  a = a
  b = b
  c = c
  d = d
  Repositories = {a, b, c, d}
  Corpora <- MCCorpora
  Limit = 3
  MaxPages = 2
  MaxWorkflows = 2
  BeforeExtractor = {"filter_rejected", "state_integrity_conflict"}
  ExtractorOutcomes = {"no_workflow", "semantic_outcome_unknown"}
  WorkflowOutcomes = {"eligible", "review_rejected", "semantic_outcome_unknown", "permanent_failure", "provider_exhausted"}
  MaxCrashes = 2
CHECK_DEADLOCK FALSE
INVARIANTS
  UndisturbedSelectionIsRoundRobin
  SummaryIsTruthful
PROPERTIES
  ImplementsLedger
  RunIsPublished
\* Also hold: TypeOK, NothingIsPassedOver, HandoffIsBacked.
