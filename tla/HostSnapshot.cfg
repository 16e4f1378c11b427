CONSTANTS
    Clients = {c1, c2}
    Nobody = Nobody
    MaxPeers = 3
    Kinds = {}
    InboxCap = 0
    Props = {p, q}
    Permanent = {q}
    ChunkSize = 1
    Overlap = FALSE
    MissedEdges = FALSE
    MaxReseeds = 1
SPECIFICATION FairSpec
CHECK_DEADLOCK FALSE
INVARIANTS
    CaughtUpKnowTracked
PROPERTIES
    SnapshotsEnd
    NoNewPhantoms
