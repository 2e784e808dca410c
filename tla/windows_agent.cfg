CONSTANTS
  Flows = {f1, f2}
  Discovery = Discovery
  Nil = Nil
  FlowWorkers = {w1}
  ControlWorkers = {v1}
  QueueCap = 1
  HeldCap = 1
  GuardCap = 3
  DivertCap = 1
  MaxCrash = 1
SPECIFICATION FairSpec
INVARIANTS
  DataIsAttested
  OpenIsSafe
  DeniedIsBlocked
  CleanIsHonest
PROPERTIES
  SessionIsDecided
  EndIsBlocked
CHECK_DEADLOCK FALSE
