SPECIFICATION Spec
CONSTANTS
    r1 = r1
    r2 = r2
    repo = repo
    main = main
    release = release
    Reports = {r1, r2}
    Repos = {repo}
    Refs = {main, release}
    RepoOf <- OneRepo
    RefOf <- TwoRefs
    Clients = {c1}
    Workers = {w1}
    Leaves = 1
    QueueCap = 2
    MaxRetryCount = 1
    AgentChoices = {TRUE}
    Patient = TRUE
    RetryBound = 0
    MaxCrashes = 1
    NoTask = NoTask
    NoRef = NoRef
INVARIANTS
    SectionsMatch
CHECK_DEADLOCK FALSE
