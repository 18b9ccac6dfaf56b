SPECIFICATION Spec
CONSTANTS
  Selections = {"first", "second"}
  MaxCommits = 6
  MaxEdits = 3
  MaxTargets = 1
INVARIANTS
  CampaignIsAnchored
  NominationIsNotRepeated
  LockedSelectionIsNotLost
\* Also hold: TypeOK, ReviewedSelectionIsRun, ReportIsTruthful, AdmittedIsTheCarrier.
