CONSTANTS
  Flows = {1, 2, 3}
  Conns <- MCConns
  Length <- MCLength
  Lookalike <- MCLookalike
  Slots = 2
  RecordMax = 3
  TTL = 2
  MaxClock = 5
SPECIFICATION Spec
INVARIANTS
  ObservedIsHello
PROPERTIES
  HelloIsKept
CHECK_DEADLOCK FALSE
