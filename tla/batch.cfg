CONSTANTS
  Ids = {i1, i2}
  MaxRepeats = 1
SPECIFICATION Spec
SYMMETRY Symmetry
INVARIANTS
  AssignedOnce
  ConfirmedIsProved
  CleanIsComplete
CHECK_DEADLOCK FALSE
