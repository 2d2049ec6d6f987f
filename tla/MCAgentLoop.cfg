SPECIFICATION FairSpec
CONSTANTS
    Tools = 3
    Exclusive = {3}
    OneAtATime = TRUE
    Interrupts = TRUE
    MaxRuns = 2
    MaxMessages = 2
    MaxCalls = 1
INVARIANTS DeliveredOnce Paired OneActiveRun
CHECK_DEADLOCK FALSE
PROPERTIES RunsEnd WaitersResume
