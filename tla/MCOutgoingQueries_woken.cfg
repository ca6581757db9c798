\* Responses may never come; mthreads that are woken ask again, and IDs may coincide.
SPECIFICATION FairSpec
CONSTANTS
    m1 = m1
    m2 = m2
    m3 = m3
    m4 = m4
    q1 = q1
    q2 = q2
    noECS = noECS
    subnet = subnet
    Kernel = Kernel
    Nothing = Nothing
    MThreads = {m1, m2, m3}
    Questions = {q1}
    Subnets = {noECS}
    Ids = {1, 2}
    MaxFd = 1
    NetworkTimeout = 1
    MaxChainLength = 0
    MaxQueries = 6
PROPERTY EveryoneWoken
