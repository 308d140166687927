SPECIFICATION Spec
CONSTANTS
    r1 = r1
    r2 = r2
    r3 = r3
    repoA = repoA
    repoB = repoB
    Reviews = {r1, r2, r3}
    Repos = {repoA, repoB}
    RepoOf <- MCRepoOf
    NoTask = NoTask
    SignalCap = 1
    Workers = {w1, w2}
    QueueSize = 1
    Slots = {k1}
    MaxRetryCount = 2
    RetryBound = 0
    MaxCrashes = 0
    MaxFaults = 0
    Unsettled = TRUE
INVARIANTS
    TypeOK
    RepoSerialized
PROPERTIES
    ServesInOrder
    CancelledWhileWaitingStays
SYMMETRY MCSymmetry
CHECK_DEADLOCK FALSE
