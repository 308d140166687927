SPECIFICATION FairSpec
CONSTANTS
    r1 = r1
    r2 = r2
    r3 = r3
    repoA = repoA
    repoB = repoB
    Reviews = {r1, r2}
    Repos = {repoA}
    RepoOf <- MCRepoOf2
    NoTask = NoTask
    SignalCap = 1
    Workers = {w1, w2}
    QueueSize = 1
    Slots = {k1}
    MaxRetryCount = 2
    RetryBound = 1
    MaxCrashes = 0
    MaxFaults = 1
    Unsettled = FALSE
PROPERTIES
    CompletedIsFinal
    ReviewSettles
    ServesAll
CHECK_DEADLOCK FALSE
