SPECIFICATION CallSpec
CONSTANTS
    c1 = c1
    c2 = c2
    p1 = p1
    p2 = p2
    Callers <- TwoCallers
    Providers <- TwoProviders
    Plan <- OneFallsBack
    MaxConcurrency = 1
    FailureThreshold = 2
    Deployments <- OnOneStore
    StoreFaults = TRUE
    LongCalls = FALSE
    Crashes = TRUE
INVARIANTS
    LeasesReturned
    CallsWithinBudget
    RecordsWellFormed
    OpenNeedsFailures
PROPERTIES
    EveryCallAnswers
    FollowsCircuitMachine
