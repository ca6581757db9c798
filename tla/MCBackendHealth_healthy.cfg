\* Lazy mode; the socket cannot be connected when the checks succeed again.
SPECIFICATION Spec
CONSTANTS
    c1 = c1
    c2 = c2
    Clients = {c1}
    Health = Health
    NoThread = NoThread
    StartMode = "Lazy"
    MinRise = 2
    MaxCheckFailures = 2
    CheckInterval = 2
    CheckTimeout = 1
    FailedInterval = 1
    MaxBackOff = 4
    UseBackOff = TRUE
    SampleSize = 2
    MinSampleCount = 2
    Threshold = 50
    CountServFail = TRUE
    ReconnectOnUp = FALSE
    RiseWidth = 4
    AdminOps = {}
    Flaky = TRUE
    Lossy = FALSE
    MaxActs = 1
    MaxInFlight = 1
    FailBound = 4
INVARIANT HealthyMeansUp
