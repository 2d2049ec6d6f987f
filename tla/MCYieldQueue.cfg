SPECIFICATION FairSpec
CONSTANTS
    o1 = o1
    o2 = o2
    o3 = o3
    Outcome <- MCOutcome
PROPERTY ToldOnce
PROPERTY NoneDropped
PROPERTY YieldsServe
CHECK_DEADLOCK FALSE
