\* The operator changes the mode of the checks and marks the backend up; the path may break,
\* the backend may be removed.
SPECIFICATION FairSpec
CONSTANTS
    c1 = c1
    c2 = c2
    Clients = {c1}
    Health = Health
    NoThread = NoThread
    StartMode = "Active"
    MinRise = 1
    MaxCheckFailures = 2
    CheckInterval = 1
    CheckTimeout = 0
    FailedInterval = 1
    MaxBackOff = 1
    UseBackOff = TRUE
    SampleSize = 2
    MinSampleCount = 2
    Threshold = 50
    CountServFail = TRUE
    ReconnectOnUp = TRUE
    RiseWidth = 2
    AdminOps = {"up", "down", "auto", "autoUp", "autoDown", "active", "lazy", "stop"}
    Flaky = TRUE
    Lossy = FALSE
    MaxActs = 1
    MaxInFlight = 1
    FailBound = 3
PROPERTY RisesAgain
PROPERTY EventuallyMarkedDown
PROPERTY ResponderEndsIfRoutable
