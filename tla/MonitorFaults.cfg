CONSTANTS
    h1 = h1
    h2 = h2
    DownAfter = 1
    UpAfter = 1
    Host = {h1, h2}
    Removable = {h1, h2}
    MassMin = 2
    RatioNum = 1
    RatioDen = 2
    WebhookEnabled = TRUE
    GraceExpires = TRUE
    StoreFails = TRUE
    Crashes = TRUE
    MaxAlerts = 3
    NoSample = NoSample

SPECIFICATION TSpec

SYMMETRY HostSymmetry

INVARIANTS
    TypeOK
    UniqueAlerts
    RecoveredAfterDown
    OpenIncidentAnnounced
    HostUpAgrees
    AlertsAgreeWithGauges
    LoadedIsMonitored

PROPERTIES
    AlertMatchesStatus
