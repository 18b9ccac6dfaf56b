SPECIFICATION FairSpec
CONSTANTS
  a = a
  b = b
  c = c
  d = d
  Repositories = {a, b, c, d}
  Corpora <- MCCorpora
  Limit = 3
  MaxPages = 2
  MaxWorkflows = 2
  BeforeExtractor = {"filter_rejected"}
  ExtractorOutcomes = {"no_workflow"}
  WorkflowOutcomes = {"eligible", "provider_exhausted"}
  MaxCrashes = 0
CHECK_DEADLOCK FALSE
PROPERTY
  EveryRunIsPublished
