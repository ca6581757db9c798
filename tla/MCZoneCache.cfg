\* The main thread refreshes alone. Three operations, so that two of them can meet on a
\* zone that a third one changed,
\* and one attempt to list the zones that fails.
SPECIFICATION FairSpec
CONSTANTS
    z1 = z1
    z2 = z2
    w1 = w1
    w2 = w2
    control = control
    NoZone = NoZone
    Main = Main
    Rediscoverers = {}
    Zones = {z1, z2}
    Writers = {w1, w2}
    MaxOps = 3
    MaxFailures = 1
INVARIANTS
    Coherent
    SizeExact
PROPERTY EventuallyCoherent
