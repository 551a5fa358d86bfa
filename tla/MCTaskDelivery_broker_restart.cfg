SPECIFICATION FairSpec
CONSTANTS
    t1 = t1
    t2 = t2
    b1 = b1
    Tasks <- TwoTasks
    Malformed <- NoneMalformed
    MaxTasks = 1
    Prefetch = 1
    Faults <- BrokerFault
    Failing <- NoneFailing
    MaxFaults = 1
PROPERTY TasksSucceedAfterFaults
CHECK_DEADLOCK FALSE
