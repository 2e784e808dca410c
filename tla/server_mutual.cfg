CONSTANTS
  Flows = {f1}
  Slots = {s1, s2}
  Nil = Nil
  Controls = {c1, c2}
  Nonces = {n1, n2}
  Mutual = TRUE
  Expected = 1
  IndexCap = 2
  JobCap = 1
  Prompt = TRUE
  MaxConn = 2
  MaxHello = 1
  MaxPackets = 4
SPECIFICATION Spec
SYMMETRY ServerSymmetry
INVARIANTS
  ServedOnce
  ResponseIsBound
  PairIsOfOneConnection
  HellosAreKept
  CompleteIsClean
PROPERTIES
  AbandonedStays
\* The server exits.
CHECK_DEADLOCK FALSE
