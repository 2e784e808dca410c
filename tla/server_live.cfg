CONSTANTS
  Flows = {f1}
  Slots = {s1, s2}
  Nil = Nil
  Controls = {c1}
  Nonces = {n1}
  Mutual = FALSE
  Expected = 1
  IndexCap = 2
  JobCap = 1
  Prompt = FALSE
  MaxConn = 2
  MaxHello = 1
  MaxPackets = 3
SPECIFICATION FairSpec
INVARIANTS
  JobOwnsSlot
PROPERTIES
  ReportEnds
  WaitEnds
  StopEnds
\* The server exits.
CHECK_DEADLOCK FALSE
