SPECIFICATION Spec
CONSTANTS
    Modulus = 256
    IdMax = 15
    Milli = 10
    BacklogDefault = 10
    TimeoutDefault = 6
    LimitDefault = 12
    ListenerId = 3
    SocketId = 7
    Errors = {12}
    Forwarders <- MCForwarders
    Requests <- MCRequests
INVARIANTS
    DefaultsInEffect
CHECK_DEADLOCK FALSE
