CONSTANTS
    h1 = h1
    h2 = h2
    h3 = h3
    h4 = h4
    h5 = h5
    DownAfter = 1
    UpAfter = 1
    Host = {h1, h2, h3, h4, h5}
    Removable = {h5}
    MassMin = 5
    RatioNum = 1
    RatioDen = 2
    WebhookEnabled = TRUE
    GraceExpires = FALSE
    StoreFails = FALSE
    Crashes = FALSE
    MaxAlerts = 4

SPECIFICATION Spec

INVARIANT
    NoSilentDownEver
