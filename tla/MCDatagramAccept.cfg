SPECIFICATION FairSpec
CONSTANTS
    Addresses = {a, b}
    Timeout = 1
    Backlog = 1
    ConnLimit = 1
    MaxId = 2
    MaxPackets = 2
INVARIANTS
    AcceptsPending
PROPERTIES
    SilentSocketCloses
    ForwarderTakesAll
CHECK_DEADLOCK FALSE
