\* A question with and without a client subnet: limited chains are joined, closed, resent
\* and abandoned; members that are woken ask again; IDs may coincide.
SPECIFICATION Spec
CONSTANTS
    m1 = m1
    m2 = m2
    m3 = m3
    m4 = m4
    q1 = q1
    q2 = q2
    noECS = noECS
    subnet = subnet
    Kernel = Kernel
    Nothing = Nothing
    MThreads = {m1, m2, m3}
    Questions = {q1}
    Subnets = {noECS, subnet}
    Ids = {1, 2, 3, 4}
    MaxFd = 1
    NetworkTimeout = 1
    MaxChainLength = 2
    MaxQueries = 5
INVARIANT TypeOK
INVARIANT NobodyLeftBehind
INVARIANT OneOpenHead
INVARIANT SocketsAccounted
INVARIANT ChainNumbered
INVARIANT AnswersWhatWasAsked
SYMMETRY Symmetry
