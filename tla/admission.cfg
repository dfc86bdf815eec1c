SPECIFICATION Spec
CONSTANTS
    c1 = c1
    c2 = c2
    c3 = c3
    k1 = k1
    b1 = b1
    b2 = b2
    NoKey = NoKey
    Callers <- ThreeCallers
    Paths <- BothPaths
    Keys <- OneKey
    Bodies <- TwoBodies
    Capacity = 1
    Crashes = TRUE
INVARIANTS
    TypeOK
    QueueWithinCap
    DuplicatesReplay
PROPERTIES
    SubmissionsAreAtomic
CHECK_DEADLOCK FALSE
