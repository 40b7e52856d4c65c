CONSTANTS
    e1 = e1
    c1 = c1
    c2 = c2
    NoEvent = NoEvent
    NoDelivery = NoDelivery
    Event = {e1}
    Channel = {c1, c2}
    MaxEventAttempts = 2
    BatchSize = 1
    StorageFails = FALSE
    Reconfigures = FALSE
    MaxRestarts = 1

SPECIFICATION Spec

INVARIANT
    AllChannelsQueued

CHECK_DEADLOCK FALSE
