CONSTANTS
  Flows = {f1, f2}
  Capacity = 1
SPECIFICATION FairSpec
INVARIANTS
  DataIsAttested
PROPERTIES
  PauseEnds
CHECK_DEADLOCK FALSE
