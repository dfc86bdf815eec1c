SPECIFICATION FairSpec
CONSTANTS
    t1 = t1
    w1 = w1
    w2 = w2
    c1 = c1
    c2 = c2
    Tasks <- OneTask
    Workers <- TwoWorkers
    Clients <- TwoClients
    MaxAttempts = 2
    MaxRetries = 1
    MaxCrashes = 1
    Executors = {"injected", "agent", "legacy"}
    StoreFaults = TRUE
INVARIANTS
    TypeOK
    AttemptsBounded
    WorkNotRepeated
    AttemptsAreClosed
    TaskEndsRun
PROPERTIES
    FollowsRunLifecycle
    EverythingRests
CHECK_DEADLOCK FALSE
