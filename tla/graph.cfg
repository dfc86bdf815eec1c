SPECIFICATION Spec
CONSTANTS
    i1 = i1
    i2 = i2
    Invocations <- TwoInvocations
    LoopCounts = {0, 3}
    Strategies = {"shadow", "provider_backed"}
    Actions = {"approve", "add_evidence", "rewrite", "reject", "override_p0"}
    GraphRounds = 2
    MaxResumes = 2
    MaxAccidents = 1
INVARIANTS
    TypeOK
    RoundsBounded
    TasksAreClosed
PROPERTIES
    ReportsAreEarned
    FollowsResearchFlow
CHECK_DEADLOCK FALSE
