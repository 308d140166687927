SPECIFICATION IntakeSpec
CONSTANTS
    repoA = repoA
    repoB = repoB
    c1 = c1
    c2 = c2
    None = None
    Slots = {s1, s2}
    Events <- MCEvents
    MaxRows = 3
    MaxRequests = 3
    MaxFaults = 1
    PRs = {p1, p2}
    Pushes = {q}
    MaxHeads = 2
    MaxAttempts = 3
    MaxRetries = 1
    MaxCrashes = 1
    Admins = {a1, a2}
    hub = hub
    lab = lab
    cursor = cursor
    github = github
    gitlab = gitlab
    k1 = k1
    k2 = k2
    k3 = k3
    Secrets = {k1, k2}
    Short = {k3, typed}
    Typed = typed
    Malformed = malformed
    Gone = Gone
    Files = {f, d}
    Default = d
    Repos = {repoA}
    Contents = {v1, v2, bad}
    Valid = {v1, v2}
    Written = {v2, bad}
    Empty = Empty
    MaxEdits = 2
    MaxLoads = 1
    MaxViews = 2
    Rows = {x, y}
    Twins = {x, y}
    Pages = 2
    MaxChanges = 1
    MaxTries = 1
    CategoryOf <- MCCategoryOf
    TypeOf <- MCTypeOf
    Initial <- MCInitial
    Left <- MCLeft
    Public <- MCPublic
    Like <- MCLike
    Naming <- MCNaming
    Ending <- MCEnding
    Dotted <- MCDotted
    Longer <- MCLonger
    Configurations <- MCConfigurations
    Asked <- MCAsked
    Sent <- MCSent
    Addresses <- MCAddresses
    x = x
    y = y
    hubcom = hubcom
    labcom = labcom
    teacom = teacom
    ghe = ghe
    corp = corp
    corpeu = corpeu
    own = own
    sub = sub
    prj = prj
    ghio = ghio
    ghub = ghub
    tree = tree
    Port = Port
INVARIANTS
    RetryReadsItsPR
CHECK_DEADLOCK FALSE
