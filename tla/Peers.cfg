SPECIFICATION MCSpec
CONSTANTS
  HostRangeSize = 5
  MaxElements = 17
  PeerBandCount = 3
  MaxNickLen = 4
  MaxArrivals = 3
  MaxDrops = 1
  Seeds = 0
  EarlyDrops = TRUE
  RawNicks <- MCRawNicks
INVARIANTS
  Acquainted
  OneIdOnePlayer
CHECK_DEADLOCK FALSE
