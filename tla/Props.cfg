SPECIFICATION PropsSpec
CONSTANTS
  Slots = {1}
  Props = {p, q}
  NoProp = NoProp
  MaxFlight = 1
  SyncClients = {1, 2}
  Keys = {k1, k2}
  Seeded = {k1}
  Litter = {k2}
  TempKey = TempKey
  MaxWire = 3
  OwnedOnly = TRUE
  DropsBeforeJoin = FALSE
INVARIANTS
  LimpIsDriven
  SyncedAgree
  PropsAreOnce
PROPERTIES
  LetGoFalls
CHECK_DEADLOCK FALSE
