CONSTANTS
  Flows = {f1}
  ServerKeys = {k1}
  NoKey = NoKey
  Workers = {w1}
  Mutual = FALSE
  Selector = TRUE
  Expected = 2
  MaxHeld = 1
  TableCap = 2
  QueueCap = 2
  PendingCap = 2
  MaxConn = 2
  MaxHello = 1
  MaxInq = 2
SPECIFICATION FlowsSpec
INVARIANTS
  MarkedIsAttested
  CompleteIsHonest
  HeldIsOwned
\* The agent exits, and the environment is bounded.
CHECK_DEADLOCK FALSE
