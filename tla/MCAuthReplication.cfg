\* A zone that changes once, and one event: a packet lost, a transfer or a check that
\* fails, a crash, a restart of the primary, a zone signed anew, or a transfer the
\* operator asks for.
SPECIFICATION FairSpec
CONSTANTS
    z1 = z1
    p1 = p1
    t1 = t1
    t2 = t2
    NoPrimary = NoPrimary
    NoRequest = NoRequest
    Zones = {z1}
    Primaries = {p1}
    Retrievers = {t1, t2}
    FirstPrimary = p1
    IXFR = TRUE
    AXFRLowerSerial = FALSE
    CheckSignatures = TRUE
    MaxSerial = 2
    MaxEvents = 1
    MaxAttempts = 2
INVARIANTS
    SystemTypeOK
    OneTransferPerZone
    WakeupsMatch
PROPERTIES
    ImplementsReplicatedZone
    NeverGoesBack
    EventuallyInSync
    NotifyHonoured
