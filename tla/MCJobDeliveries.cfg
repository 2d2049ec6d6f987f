SPECIFICATION DeliveryFairSpec
CONSTANTS
    j1 = j1
    j2 = j2
    t1 = t1
    t2 = t2
    NoJob = NoJob
    Job <- MCTwoJobs
    Draining <- MCOneJob
    Tool <- MCTwoTools
    MaxQueue = 1
    MaxAttempts = 2
INVARIANTS
    OneEntry
    NoneLost
PROPERTY DeliveriesSettle
CHECK_DEADLOCK FALSE
