SPECIFICATION FairSpec
CONSTANTS
    c1 = c1
    c2 = c2
    c3 = c3
    p0 = p0
    p1 = p1
    p2 = p2
    Contender <- MCContender
    Process <- MCProcess
    ProcOf <- MCProcOf
    LegacyPid = p0
    Retries = 2
INVARIANT MutualExclusion
PROPERTY TokenRemoval
PROPERTY StaleLockRecovered
PROPERTY ImplementsMutex
CHECK_DEADLOCK FALSE
