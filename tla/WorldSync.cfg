SPECIFICATION WorldSpec
CONSTANTS
  Clients = {c1}
  Skies = {w1, w2}
  NoSky = NoSky
  MaxWire = 2
  LampClients = {1, 2}
  Beams = {lit}
  Dark = Dark
  NoLamp = NoLamp
  LampUsers = {0, 1}
  MaxLampWire = 2
  Npcs = {n1, n2}
  Eids = {e1, e2}
  NoNpc = NoNpc
  NoEid = NoEid
  MaxNpcWire = 2
INVARIANTS
  LatestWinsUndisturbed
  ObserversComeBack
  LampsAgree
  MapPointsHome
  NoGhostNpcs
CHECK_DEADLOCK FALSE
