SPECIFICATION Spec
CONSTANTS
    Addresses = {a, b, c}
    Timeout = 2
    Backlog = 3
    ConnLimit = 2
    MaxId = 3
    MaxAccepts = 3
    MaxPackets = 4
SYMMETRY Symmetry
INVARIANTS
    TypeOK
    MapsAgree
    OneRoutePerAddress
    LimitsHold
    EndsAgree
    CompletedInOrder
    EachPacketOnce
