SPECIFICATION ServicesSpec
CONSTANTS
    r1 = r1
    r2 = r2
    r3 = r3
    repoA = repoA
    repoB = repoB
    NoTask = NoTask
    Reviews = {r1, r2, r3}
    Repos = {repoA, repoB}
    RepoOf <- MCRepoOf
    SignalCap = 1
    Workers = {w1, w2}
    QueueSize = 1
    rev = rev
    rep = rep
    Lines = 5
    TaskOf <- MCTaskOf
    Scripts <- MCScripts
    Configs <- MCConfigs
    Events <- MCEvents
    bufferSize = 2
    DefaultSize = 1
    MaxSize = 2
    Retention = 3
    ReadTask = rev
    AskedSize = 3
    here = here
    there = there
    OutCap = 1
    PipeCap = 1
    None = None
    Senders = {s1, s2}
    MaxCalls = 2
    MaxChanges = 1
    MaxFaults = 1
    Nowhere = Nowhere
INVARIANTS
    StopWaitsForWorkers
CHECK_DEADLOCK FALSE
