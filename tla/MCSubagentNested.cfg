SPECIFICATION FairSpec
CONSTANTS
    Main = Main
    s1 = s1
    s2 = s2
    s3 = s3
    Subagent <- MCSubagent
    Spawner <- MCNested
    MaxRuns <- MCSecondTwice
    MaxRunning = 1
INVARIANTS
    RunningLimit
    OneRunAtATime
    QueueIsExact
    NoIdleSlot
    RecordFollowsRun
PROPERTY QueuedIsServed
CHECK_DEADLOCK FALSE
