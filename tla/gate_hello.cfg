CONSTANTS
  Flows = {f1, f2}
  ServerKeys = {k1}
  NoKey = NoKey
  Workers = {w1}
  Mutual = TRUE
  Selector = TRUE
  Expected = 2
  MaxHeld = 1
  TableCap = 1
  QueueCap = 1
  PendingCap = 1
  MaxConn = 2
  MaxHello = 2
  MaxInq = 1
SPECIFICATION HelloSpec
SYMMETRY FlowSymmetry
INVARIANTS
  AdmittedIsAttested
  VerdictIsHonest
  DeniedIsQuarantined
  SessionIsOwned
\* The agent exits, and the environment is bounded.
CHECK_DEADLOCK FALSE
