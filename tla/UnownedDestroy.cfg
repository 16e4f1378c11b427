SPECIFICATION SyncSpec
CONSTANTS
  SyncClients = {1, 2}
  Keys = {k1, k2}
  Seeded = {k1}
  Litter = {}
  TempKey = TempKey
  MaxWire = 2
  OwnedOnly = FALSE
  DropsBeforeJoin = FALSE
INVARIANTS
  PropsAreOnce
CHECK_DEADLOCK FALSE
