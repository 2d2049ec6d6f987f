SPECIFICATION FairSpec
CONSTANTS
    Tools = 3
    Exclusive = {3}
    OneAtATime = TRUE
    Interrupts = TRUE
    MaxRuns = 2
    MaxMessages = 2
    MaxCalls = 1
CHECK_DEADLOCK FALSE
\* What a doc, a comment or a test says and the code does not do: keep one of these.
INVARIANT NoMessageLost
\* INVARIANT AlwaysPaired
\* PROPERTY AllWaitersResume
