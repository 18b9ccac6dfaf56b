SPECIFICATION FairSpec
CONSTANTS
  MaxAttempts = 1
  GeneratorOutcomes = {"parsed", "refused"}
  ReviewOutcomes = {"review_completed_no", "review_completed_low_confidence", "review_completed_eligible"}
  MaxCrashes = 1
  MaxFaults = 0
CHECK_DEADLOCK FALSE
INVARIANTS
  PendingProjectionIsRecoverable
