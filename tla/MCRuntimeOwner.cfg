SPECIFICATION FairSpec
CONSTANTS
    Owner = {1, 2}
    Request = {r1, r2}
    Nobody = Nobody
    NoLease = NoLease
    r1 = r1
    r2 = r2
    Asks <- MCAsks
    MaxIncidents = 1
INVARIANTS FramesLogged OwnCursors
PROPERTIES RetireReleases
CHECK_DEADLOCK FALSE
