SPECIFICATION Spec
CONSTANTS
    i1 = i1
    i2 = i2
    i3 = i3
    Ingestions <- Two
    Count <- Uneven
    Schemas = {"models"}
    MaxCrashes = 0
INVARIANT
    FailureRecordsFailedRun
CHECK_DEADLOCK FALSE
