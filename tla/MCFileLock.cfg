SPECIFICATION FairSpec
CONSTANTS
    p1 = p1
    p2 = p2
    p3 = p3
    NoInfo = NoInfo
    Proc <- MCProc
    Retries = 2
    MaxCrash = 1
INVARIANTS
    ExclusiveWhileAllLive
PROPERTY OrphanReclaimed
CHECK_DEADLOCK FALSE
