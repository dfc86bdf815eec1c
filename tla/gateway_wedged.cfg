SPECIFICATION BusySpec
CONSTANTS
    c1 = c1
    c2 = c2
    p1 = p1
    p2 = p2
    Callers <- TwoCallers
    Providers <- OneProvider
    Plan <- StrictPlans
    MaxConcurrency = 2
    FailureThreshold = 1
    Deployments <- OnPostgres
    StoreFaults = FALSE
    LongCalls = FALSE
    Crashes = FALSE
PROPERTIES
    OpenIsProbed
