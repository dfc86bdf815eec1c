SPECIFICATION Spec
CONSTANTS
    t1 = t1
    w1 = w1
    w2 = w2
    c1 = c1
    c2 = c2
    Tasks <- OneTask
    Workers <- OneWorker
    Clients <- NoClient
    MaxAttempts = 2
    MaxRetries = 0
    MaxCrashes = 0
    Executors = {"injected"}
    StoreFaults = FALSE
INVARIANTS
    RunTellsSuccess
CHECK_DEADLOCK FALSE
