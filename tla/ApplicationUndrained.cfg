CONSTANTS
    CallsFail = FALSE
    BatchSize = 2
    MaxRounds = 1
    MaxAlerts = 1

SPECIFICATION Spec

INVARIANT
    QueueDrained

CHECK_DEADLOCK FALSE
