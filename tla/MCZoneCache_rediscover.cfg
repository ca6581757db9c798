\* A rediscover meets the refresh of the main thread.
SPECIFICATION Spec
CONSTANTS
    z1 = z1
    z2 = z2
    w1 = w1
    w2 = w2
    control = control
    NoZone = NoZone
    Main = Main
    Rediscoverers = {control}
    Zones = {z1, z2}
    Writers = {w1, w2}
    MaxOps = 1
    MaxFailures = 0
INVARIANT AssertionHolds
