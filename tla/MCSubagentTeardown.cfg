SPECIFICATION Spec
CONSTANTS
    Main = Main
    s1 = s1
    s2 = s2
    s3 = s3
    Subagent <- MCSubagent
    Spawner <- MCNested
    MaxRuns <- MCSecondTwice
    MaxRunning = 2
PROPERTY TeardownSparesOthers
CHECK_DEADLOCK FALSE
