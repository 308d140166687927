SPECIFICATION Spec
CONSTANTS
    ruleA = ruleA
    ruleB = ruleB
    Rules = {ruleA, ruleB}
    PreCreated = {ruleA}
    Config <- ConfigAB
    Runs <- TwoRunsOfA
    Worker = w
    Retriers = {a}
    NoRule = NoRule
    Exclusive = TRUE
    RuleRetryBound = 2
    ReviewRetryBound = 1
    MaxCrashes = 1
INVARIANTS
    OneResult
    StatusFollowsRules
    RuleFollowsRuns
PROPERTIES
    CompletedKept
CHECK_DEADLOCK FALSE
