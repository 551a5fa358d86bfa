SPECIFICATION FairSpec
CONSTANTS
    t1 = t1
    t2 = t2
    b1 = b1
    Tasks <- TwoTasks
    Malformed <- NoneMalformed
    MaxTasks = 1
    Prefetch = 2
    Faults <- ConnectionsAndSignal
    Failing <- NoneFailing
    MaxFaults = 2
PROPERTIES
    EventuallySettled
    ShutdownCompletes
    TasksSucceed
CHECK_DEADLOCK FALSE
