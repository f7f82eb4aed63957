SPECIFICATION FairSpec
CONSTANTS
    Addresses = {a, b}
    ConnLimit = 1
    MaxId = 2
    MaxPackets = 3
    MaxReplies = 1
INVARIANTS
    TypeOK
    MapsAgree
    DataFindsTarget
    SilenceIsNoticed
PROPERTIES
    PipeSpec
    EndsClose
CHECK_DEADLOCK FALSE
