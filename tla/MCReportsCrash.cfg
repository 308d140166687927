SPECIFICATION Spec
CONSTANTS
    r1 = r1
    r2 = r2
    repo = repo
    main = main
    release = release
    Reports = {r1, r2}
    Repos = {repo}
    Refs = {main, release}
    RepoOf <- OneRepo
    RefOf <- TwoRefs
    Clients = {c1}
    Workers = {w1}
    Leaves = 2
    QueueCap = 1
    MaxRetryCount = 1
    AgentChoices = {TRUE, FALSE}
    Patient = TRUE
    RetryBound = 1
    MaxCrashes = 1
    NoTask = NoTask
    NoRef = NoRef
INVARIANTS
    TypeOK
    PendingHeld
    CompletedIsWhole
    RightRef
CHECK_DEADLOCK FALSE
