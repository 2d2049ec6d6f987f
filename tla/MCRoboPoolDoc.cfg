SPECIFICATION FairSpec
CONSTANTS
    Events = 3
    Issue <- MCIssue
    Slot = {s1, s2}
    NoSlot = NoSlot
    MaxIncidents = 2
CHECK_DEADLOCK FALSE
\* What a doc, a comment or a test says and the code does not do: keep one of these.
INVARIANT CancelHeard
\* PROPERTY StopIsFinal
\* PROPERTY CancelSurvives
\* PROPERTY DispatcherLives
\* INVARIANT NoStraggler
