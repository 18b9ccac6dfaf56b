SPECIFICATION Spec
CONSTANTS
  Entries = 1
  MaxAttempts = 3
  RequestBudget = 4
  Answers <- MCDecisive
  MaxStops = 1
  MaxForeign = 0
INVARIANTS
  CampaignIsResumable
