CONSTANTS
  Writers = {w1, w2}
  Facts = {f1, f2}
  Dates = {d1}
  MaxInFlight = 2
  MaxCommits = 4
SYMMETRY Symmetry
SPECIFICATION Spec
CHECK_DEADLOCK FALSE
INVARIANTS
  AcknowledgedIsDurable
  ReceiptIsTruthful
  OnlyVerifiedHistoryIsExtended
PROPERTIES
  ImplementsLog
\* Also hold: TypeOK, FactsNeverLost, ProtocolInv, HeadAdvancesByOneChild.
