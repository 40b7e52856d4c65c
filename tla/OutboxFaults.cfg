CONSTANTS
    e1 = e1
    e2 = e2
    c1 = c1
    NoEvent = NoEvent
    NoDelivery = NoDelivery
    Event = {e1, e2}
    Channel = {c1}
    MaxEventAttempts = 2
    BatchSize = 2
    StorageFails = TRUE
    Reconfigures = TRUE
    MaxRestarts = 2

SPECIFICATION Spec

SYMMETRY OutboxSymmetry

INVARIANTS
    TypeOK
    HeldIsInFlight
    DeliveredWasReceived
    DeadHasCause
    SendsBounded

PROPERTIES
    TerminalIsFinal
    KeepsPromise

CHECK_DEADLOCK FALSE
