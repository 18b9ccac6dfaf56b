\* One benchmark entry: two nominations of which a run may lock one, one provider
\* request, one workflow and one gate, recorded by processes one after the other.
SPECIFICATION RecordsSpec
CONSTANTS
  Selections = {"first", "second"}
  Slots = {"generator"}
  Workflows = {"one"}
  Gates = {"safety"}
CHECK_DEADLOCK FALSE
PROPERTIES
  AttestedIsFrozen
  LockedSelectionIsSettled
