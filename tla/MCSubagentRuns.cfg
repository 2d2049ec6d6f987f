SPECIFICATION Spec
CONSTANTS
    Main = Main
    s1 = s1
    s2 = s2
    s3 = s3
    Subagent <- MCSubagent
    Spawner <- MCFlat
    MaxRuns <- MCTwoTwoOne
    MaxRunning = 1
INVARIANTS
    RunningLimit
    OneRunAtATime
    QueueIsExact
    NoIdleSlot
SYMMETRY Interchangeable
CHECK_DEADLOCK FALSE
