SPECIFICATION OutcomeFairSpec
CONSTANTS
    j1 = j1
    j2 = j2
    t1 = t1
    NoJob = NoJob
    Job <- MCJob
    Draining <- MCMine
    Tool <- MCTool
    MaxQueue = 1
    MaxAttempts = 2
INVARIANT NothingLost
PROPERTIES
    LearnsOnce
    KeepsToQueue
    QueueServed
CHECK_DEADLOCK FALSE
\* What a comment says and the code does not do:
\* PROPERTY NeverRepeated
