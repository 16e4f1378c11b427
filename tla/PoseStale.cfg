CONSTANTS
    Origins = {c1, c2}
    Nobody = Nobody
    Streams = {"PoseSnapshot"}
    Modulus = 6
    MaxSends = 7
SPECIFICATION Spec
CHECK_DEADLOCK FALSE
PROPERTY ViewerNeverStale
