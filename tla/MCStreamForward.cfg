SPECIFICATION MCSpec
CONSTANTS
    MaxConn = 2
    MaxBytes = 2
    FirstId <- MCFirstId
INVARIANTS
    TypeOK
    DataFindsIo
    CounterpartsAgree
PROPERTIES
    PipeSpec
    ClosePropagates
CHECK_DEADLOCK FALSE
