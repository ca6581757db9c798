\* Lazy mode with back-off; the path breaks, checks get lost, the operator overrides and
\* marks the backend and switches to the active mode and back.
SPECIFICATION Spec
CONSTANTS
    c1 = c1
    c2 = c2
    Clients = {c1}
    Health = Health
    NoThread = NoThread
    StartMode = "Lazy"
    MinRise = 2
    MaxCheckFailures = 2
    CheckInterval = 1
    CheckTimeout = 1
    FailedInterval = 1
    MaxBackOff = 3
    UseBackOff = TRUE
    SampleSize = 2
    MinSampleCount = 2
    Threshold = 50
    CountServFail = TRUE
    ReconnectOnUp = FALSE
    RiseWidth = 3
    AdminOps = {"down", "auto", "autoUp", "autoDown", "active", "lazy"}
    Flaky = TRUE
    Lossy = TRUE
    MaxActs = 2
    MaxInFlight = 1
    FailBound = 3
INVARIANT TypeOK
INVARIANT FailedMeansDown
PROPERTY ProbesOnSchedule
PROPERTY DownOnlyAfterFall
PROPERTY UpOnlyAfterRise
