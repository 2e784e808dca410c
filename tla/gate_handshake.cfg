CONSTANTS
  Flows = {f1}
  ServerKeys = {k1, k2}
  NoKey = NoKey
  Workers = {w1}
  Mutual = FALSE
  Selector = TRUE
  Expected = 1
  MaxHeld = 1
  TableCap = 2
  QueueCap = 2
  PendingCap = 2
  MaxConn = 1
  MaxHello = 1
  MaxInq = 1
SPECIFICATION FairSpec
PROPERTIES
  LatchSpec
  HeldIsResolved
  SessionFinishes
\* The agent exits, and the environment is bounded.
CHECK_DEADLOCK FALSE
