SPECIFICATION DeliveryFairSpec
CONSTANTS
    j1 = j1
    j2 = j2
    t2 = t2
    t1 = t1
    NoJob = NoJob
    Job <- MCTwoJobs
    Draining <- MCTwoJobs
    Tool <- MCOneTool
    MaxQueue = 2
    MaxAttempts = 3
CHECK_DEADLOCK FALSE
\* What a doc, a comment or a test says and the code does not do: keep one of these.
PROPERTY DisposeEnds
\* PROPERTY RetriesBackOff
