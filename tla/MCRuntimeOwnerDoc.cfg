SPECIFICATION FairSpec
CONSTANTS
    Owner = {1, 2}
    Request = {r1, r2}
    Nobody = Nobody
    NoLease = NoLease
    r1 = r1
    r2 = r2
    Asks <- MCAnything
    MaxIncidents = 1
CHECK_DEADLOCK FALSE
\* What a doc, a comment or a test says and the code does not do: keep one of these.
INVARIANT SingleWriter
\* INVARIANT CursorsIncrease
\* INVARIANT AcceptedIsRun
\* PROPERTY RetiredStays
\* PROPERTY RequestsAnswered
