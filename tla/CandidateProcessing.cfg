SPECIFICATION FairSpec
CONSTANTS
  MaxAttempts = 3
  GeneratorOutcomes = {"parsed", "refused"}
  ReviewOutcomes = {"review_completed_no", "review_completed_low_confidence", "review_completed_eligible"}
  MaxCrashes = 3
  MaxFaults = 2
CHECK_DEADLOCK FALSE
INVARIANTS
  StoresAgree
  AttestedHistoryIsExact
  OutcomeIsTruthful
PROPERTIES
  ImplementsRecord
\* Also hold: TypeOK, RequestsAreAccounted, CandidateIsRecorded.
