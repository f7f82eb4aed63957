SPECIFICATION FairSpec
CONSTANTS
    MaxAccepts = 5
    MaxClients = 3
INVARIANTS
    CompletedInOrder
    FlagAgrees
PROPERTIES
    ClientAccepted
CHECK_DEADLOCK FALSE
