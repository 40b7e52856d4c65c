CONSTANTS
    h1 = h1
    h2 = h2
    h3 = h3
    DownAfter = 1
    UpAfter = 2
    Host = {h1, h2, h3}
    Removable = {h3}
    MassMin = 2
    RatioNum = 1
    RatioDen = 2
    WebhookEnabled = TRUE
    GraceExpires = FALSE
    StoreFails = FALSE
    Crashes = FALSE
    MaxAlerts = 4

SPECIFICATION ServiceSpec

INVARIANTS
    NoSilentDown
    OpenIncidentKept

PROPERTIES
    KeepsLedger
    NoDownWhileMassFailure
    EventuallyAnnounced
