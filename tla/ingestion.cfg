SPECIFICATION Spec
CONSTANTS
    i1 = i1
    i2 = i2
    i3 = i3
    Ingestions <- Three
    Count <- Uneven
    Schemas = {"models", "migrations"}
    MaxCrashes = 1
INVARIANT
    ChunksAreWhole
PROPERTY
    EveryIngestionEnds
CHECK_DEADLOCK FALSE
