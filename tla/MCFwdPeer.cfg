SPECIFICATION FairSpec
CONSTANTS
    Kinds <- MCKinds
    IdMask = 3
    MaxSockets = 3
    MaxNesting = 2
INVARIANTS
    TypeOK
    SignalsMatchTable
    StartedOnce
    StoppedWithTransport
PROPERTIES
    StopIsFinal
    ForwardersGetStarted
