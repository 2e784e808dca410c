CONSTANTS
  Bits <- MCBits
  Platforms <- MCPlatforms
  Bindings <- MCBindings
  Nonces <- MCNonces
  Sm2Curve <- MCSm2
  LongUid <- MCLong
  Text <- MCText
  Broken = Broken
  Self <- Own
  Anchors <- PeerAnchors
  MaxCalls = 1
SPECIFICATION FairSpec
INVARIANT GeneratesWhenSound
CHECK_DEADLOCK FALSE
