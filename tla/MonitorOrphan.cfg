CONSTANTS
    h1 = h1
    DownAfter = 1
    UpAfter = 1
    Host = {h1}
    Removable = {}
    MassMin = 2
    RatioNum = 1
    RatioDen = 2
    WebhookEnabled = TRUE
    GraceExpires = FALSE
    StoreFails = TRUE
    Crashes = FALSE
    MaxAlerts = 4

SPECIFICATION Spec

INVARIANT
    RecoveredHasStoredDown
