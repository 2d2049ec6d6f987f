SPECIFICATION FairSpec
CONSTANTS
    o1 = o1
    o2 = o2
    o3 = o3
    Outcome <- MCOutcome
CHECK_DEADLOCK FALSE
\* What a doc, a comment or a test says and the code does not do: keep one of these.
PROPERTY DeliveredAutomatically
\* INVARIANT FlagMeansScheduled
\* PROPERTY QuietAfterDispose
