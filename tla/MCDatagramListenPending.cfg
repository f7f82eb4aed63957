SPECIFICATION FairSpec
CONSTANTS
    Addresses = {a}
    Timeout = 1
    Backlog = 1
    ConnLimit = 1
    MaxId = 1
    MaxAccepts = 1
    MaxPackets = 1
PROPERTIES
    PendingExpire
