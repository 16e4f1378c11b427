SPECIFICATION WideSpec
CONSTANTS
  HostRangeSize = 5
  MaxElements = 17
  PeerBandCount = 3
  MaxNickLen = 4
  MaxArrivals = 2
  MaxDrops = 1
  Seeds = 0
  EarlyDrops = FALSE
  RawNicks <- MCRawNicks
INVARIANTS
  NoIdMintedTwice
CHECK_DEADLOCK FALSE
