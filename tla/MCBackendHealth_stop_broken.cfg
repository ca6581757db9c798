\* The backend is removed while its path is broken.
SPECIFICATION FairSpec
CONSTANTS
    c1 = c1
    c2 = c2
    Clients = {c1}
    Health = Health
    NoThread = NoThread
    StartMode = "Active"
    MinRise = 1
    MaxCheckFailures = 2
    CheckInterval = 2
    CheckTimeout = 0
    FailedInterval = 1
    MaxBackOff = 1
    UseBackOff = TRUE
    SampleSize = 2
    MinSampleCount = 2
    Threshold = 50
    CountServFail = TRUE
    ReconnectOnUp = TRUE
    RiseWidth = 2
    AdminOps = {"stop"}
    Flaky = TRUE
    Lossy = FALSE
    MaxActs = 1
    MaxInFlight = 1
    FailBound = 4
PROPERTY ResponderEnds
