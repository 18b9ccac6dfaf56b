SPECIFICATION Spec
CONSTANTS
  a = a
  b = b
  c = c
  d = d
  Repositories = {a, b, c, d}
  Corpora <- MCCorpora
  Limit = 3
  MaxPages = 2
  MaxWorkflows = 1
  BeforeExtractor = {"filter_rejected"}
  ExtractorOutcomes = {"no_workflow"}
  WorkflowOutcomes = {"eligible", "review_rejected"}
  MaxCrashes = 1
CHECK_DEADLOCK FALSE
INVARIANT
  HandoffIsAccepted
