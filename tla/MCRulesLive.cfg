SPECIFICATION FairSpec
CONSTANTS
    ruleA = ruleA
    ruleB = ruleB
    Rules = {ruleA, ruleB}
    PreCreated = {ruleA, ruleB}
    Config <- ConfigAB
    Runs <- SingleRuns
    Worker = w
    Retriers = {a, b}
    NoRule = NoRule
    Exclusive = FALSE
    RuleRetryBound = 2
    ReviewRetryBound = 0
    MaxCrashes = 0
INVARIANTS
    TypeOK
PROPERTIES
    WorkEnds
CHECK_DEADLOCK FALSE
