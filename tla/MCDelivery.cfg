SPECIFICATION DeliverySpec
CONSTANTS
    a = a
    b = b
    c = c
    m1 = m1
    m2 = m2
    k1 = k1
    t1 = t1
    t2 = t2
    a1 = a1
    a2 = a2
    None = None
    Default = Default
    Torn = Torn
    NoPR = NoPR
    Foreign = Foreign
    Pubs = {a, b, c}
    Plans <- MCPlans
    Services = {"github", "gitlab"}
    maxRetries = 2
    PageSize = 3
    MaxForeign = 1
    MaxFaults = 1
    MaxParallel = 2
    Calls = {a1, a2}
    Settings <- MCSettings
    ModelOf <- MCModelOf
    maxRepeats = 1
    MaxUpsets = 1
INVARIANTS
    DeliveryTypeOK
    CommentsKept
    LogTellsTruth
    CallsAsMeant
PROPERTIES
    DeliveryEnds
CHECK_DEADLOCK FALSE
