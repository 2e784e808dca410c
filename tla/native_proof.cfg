CONSTANTS
  Bits <- MCBits
  Platforms <- MCPlatforms
  Bindings <- MCBindings
  Nonces <- MCNonces
  Sm2Curve <- MCSm2
  LongUid <- MCLong
  Text <- MCText
  Broken = Broken
  Self <- Own
  Anchors <- OwnAnchors
  MaxCalls = 2
SPECIFICATION FairSpec
INVARIANTS
  VerifiedIsGenuine
  GeneratedVerifies
  StopIsClean
PROPERTIES
  StopEnds
CHECK_DEADLOCK FALSE
