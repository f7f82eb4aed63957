SPECIFICATION MCSpec
CONSTANTS
    MaxConn = 1
    MaxBytes = 1
    FirstId <- MCFirstId
INVARIANTS
    AllDataForwarded
CHECK_DEADLOCK FALSE
