SPECIFICATION MCSpec
CONSTANTS
    t1 = t1
    t2 = t2
    w1 = w1
    w2 = w2
    c1 = c1
    Tasks <- TwoTasks
    Workers <- TwoWorkers
    Clients <- OneClient
    MaxActiveRuns = 1
    MaxAttempts = 2
    MaxGeneration = 4
    MaxRetries = 1
    MaxCrashes = 1
INVARIANTS
    TypeOK
    RunningIsLeased
    OneExecutorPerGeneration
    ResultIsLatest
    SuccessIsVisible
    ClaimsBounded
    ActiveWithinCap
PROPERTIES
    PublishesUnderToken
    SucceededRunStays
    EverythingSettles
