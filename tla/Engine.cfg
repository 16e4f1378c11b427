SPECIFICATION EngineSpec
CONSTANTS
  f1 = f1
  f2 = f2
  a = a
  b = b
  Functions = {f1, f2}
  Callbacks = {a, b}
  None = None
  Observers <- MCObservers
  MaxObservers = 3
  GameThread = gt
  Workers = {w1}
  MaxOps = 5
  MaxActs = 3
  Addrs = {x, y}
  NoAddr = NoAddr
  MaxEid = 4
  NoEid = NoEid
  EvictCap = 1
  ReseedPurge = 1
  MinPurge = 2
  Stalls = FALSE
INVARIANTS
  FiresAllDue
  MapOwned
PROPERTIES
  LiveTracked
  DeadReaped
CHECK_DEADLOCK FALSE
