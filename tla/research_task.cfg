SPECIFICATION MCSpec
CONSTANTS
    e1 = e1
    e2 = e2
    Creator = creator
    Canceller = canceller
    Executions <- TwoExecutions
    MaxFaults = 1
    MaxCrashes = 1
SYMMETRY Alike
INVARIANTS
    TypeOK
    TimelineIsWhole
    CancelIsHeeded
    OutcomesTellWork
CHECK_DEADLOCK FALSE
