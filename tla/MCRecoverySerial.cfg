SPECIFICATION Spec
CONSTANTS
    r1 = r1
    r2 = r2
    r3 = r3
    repoA = repoA
    repoB = repoB
    Reviews = {r1, r2}
    Repos = {repoA}
    RepoOf <- MCRepoOf2
    NoTask = NoTask
    SignalCap = 1
    Workers = {w1, w2}
    QueueSize = 1
    Slots = {k1}
    MaxRetryCount = 2
    RetryBound = 1
    MaxCrashes = 1
    MaxFaults = 0
    Unsettled = FALSE
INVARIANTS
    RepoSerialized
CHECK_DEADLOCK FALSE
