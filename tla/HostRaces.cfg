CONSTANTS
    Clients = {c1, c2}
    Nobody = Nobody
    MaxPeers = 2
    Kinds = {"Pose", "Join", "PropSpawn"}
    InboxCap = 2
    Props = {}
    Permanent = {}
    ChunkSize = 1
    Overlap = TRUE
    MissedEdges = TRUE
    MaxReseeds = 0
SPECIFICATION Spec
CHECK_DEADLOCK FALSE
SYMMETRY ClientSymmetry
INVARIANTS
    RemoteFromOccupant
    InboxFromOccupant
    IdentityKept
