SPECIFICATION ProcessSpec
CONSTANTS
  HostRangeSize = 3
  MaxElements = 7
  PeerBandCount = 3
  Elements = {e1, e2, e3}
  Null = Null
  Prop = Prop
  Npc = Npc
  EngineGameThread = 1
  EngineWorkers = {2}
  WorkersFirst = FALSE
  MaxDepth = 3
  MaxWorkerDepth = 1
  MaxTasks = 2
  MaxBoots = 2
  Rooms <- BuildRooms
  Missings <- BuildsMissing
  Loadable = {"prop", "trash", "npcA", "container"}
  MaxAttempts = 2
INVARIANTS
  FreeIdsUnused
  NoIdLeak
  OneAfterAnother
PROPERTIES
  QueuedEventuallyDestroyed
  ImplementsIdTable
  NoMirrorOutlivesDrain
  PostedIsRun
  InstallsHooked
CHECK_DEADLOCK FALSE
