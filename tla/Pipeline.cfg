CONSTANTS
    h1 = h1
    c1 = c1
    NoDelivery = NoDelivery
    Host = {h1}
    Removable = {h1}
    MassMin = 2
    RatioNum = 1
    RatioDen = 1
    DownAfter = 1
    UpAfter = 1
    MaxAlerts = 3
    Channel = {c1}
    MaxEventAttempts = 1
    BatchSize = 1
    Reconfigures = TRUE
    MaxRestarts = 1
    MaxEvents = 3

SPECIFICATION FairSpec

INVARIANTS
    RecoveryFollowsDown
    HeldIncidentIsQueued
    OneEventPerAlert
    InFlightIsHeld

PROPERTIES
    EveryDeliveryEnds
    IncidentIsHeard

CHECK_DEADLOCK FALSE
