CONSTANTS
    CallsFail = TRUE
    BatchSize = 2
    MaxRounds = 2
    MaxAlerts = 2

SPECIFICATION Spec

INVARIANTS
    TypeOK
    NothingAfterClose

PROPERTIES
    ClosedIsUnhealthy
    ShutdownEnds

CHECK_DEADLOCK FALSE
