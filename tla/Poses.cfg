SPECIFICATION PosesSpec
CONSTANTS
  Origins = {c1, c2}
  Nobody = Nobody
  Streams = {"PoseSnapshot"}
  Modulus = 5
  MaxSends = 6
  MaxPos = 2
  SnapLimit = 1
  Window = 2
  FlashTime = 2
  MaxHealth = 1
  MaxHits = 1
  MaxLevels = 1
  MaxHolders = 2
INVARIANTS
  ViewerBehindHost
  ShownIsPosed
  RedIsHit
  LabelOfPuppet
PROPERTIES
  HostShowsLatest
  ViewerShowsLatest
  HostNeverStale
  RedHeals
CHECK_DEADLOCK FALSE
