CONSTANTS
    Objects = 2
    MaxIndex = 3
    MaxTerm = 2
    MaxFaults = 1
    MaxInstalls = 1
    Faults = {"timeout", "read", "lost", "orphan", "late", "crash", "decline"}
    Late = {"snapshot"}
    None = None
SPECIFICATION FairSpec
INVARIANT
    AppliedComplete
PROPERTY
    CatchesUp
CHECK_DEADLOCK FALSE
