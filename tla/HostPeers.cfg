CONSTANTS
    Clients = {c1, c2}
    Nobody = Nobody
    MaxPeers = 3
    Kinds = {"Pose", "Join", "PropSpawn"}
    InboxCap = 2
    Props = {}
    Permanent = {}
    ChunkSize = 1
    Overlap = FALSE
    MissedEdges = FALSE
    MaxReseeds = 0
SPECIFICATION Spec
CHECK_DEADLOCK FALSE
SYMMETRY ClientSymmetry
INVARIANTS
    NoGhosts
    JoinLatchIsOccupants
    IntroducedBothWays
