CONSTANTS
  Flows = {f1, f2}
  Expected = 2
  TableCap = 1
  MaxConn = 2
  MaxHello = 2
  MaxInq = 1
SPECIFICATION FairSpec
INVARIANTS
  MarkedIsRecorded
  CompleteIsHonest
PROPERTIES
  CloseEnds
\* The agent exits, and the environment is bounded.
CHECK_DEADLOCK FALSE
