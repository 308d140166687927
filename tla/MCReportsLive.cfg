SPECIFICATION FairSpec
CONSTANTS
    r1 = r1
    r2 = r2
    repo = repo
    main = main
    release = release
    Reports = {r1, r2}
    Repos = {repo}
    Refs = {main, release}
    RepoOf <- OneRepo
    RefOf <- TwoRefs
    Clients = {c1, c2}
    Workers = {w1, w2}
    Leaves = 2
    QueueCap = 2
    MaxRetryCount = 2
    AgentChoices = {TRUE}
    Patient = TRUE
    RetryBound = 2
    MaxCrashes = 0
    NoTask = NoTask
    NoRef = NoRef
INVARIANTS
    OneExecution
PROPERTIES
    CompletedIsFinal
    ReportSettles
CHECK_DEADLOCK FALSE
