\* One change of the zone; purges and cleaning overlap with two questions.
SPECIFICATION FairSpec
CONSTANTS
    n1 = n1
    n2 = n2
    w1 = w1
    w2 = w2
    u1 = u1
    Names = {n1, n2}
    Workers = {w1, w2}
    Purgers = {u1}
    MaxEntries = 1
    Width = 4
    MaxVersion = 2
    NoName = NoName
INVARIANTS
    TypeOK
    SizeExact
    PurgeEffective
PROPERTY EventuallyFresh
