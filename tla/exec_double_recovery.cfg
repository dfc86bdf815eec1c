SPECIFICATION Spec
CONSTANTS
    t1 = t1
    t2 = t2
    w1 = w1
    w2 = w2
    c1 = c1
    Tasks <- OneTask
    Workers <- TwoWorkers
    Clients <- OneClient
    MaxActiveRuns = 1
    MaxAttempts = 2
    MaxGeneration = 3
    MaxRetries = 0
    MaxCrashes = 1
PROPERTY
    RecoversOnlyTheExpired
