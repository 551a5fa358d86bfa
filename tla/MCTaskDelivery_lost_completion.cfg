SPECIFICATION Spec
CONSTANTS
    t1 = t1
    t2 = t2
    b1 = b1
    Tasks <- OneTask
    Malformed <- NoneMalformed
    MaxTasks = 1
    Prefetch = 1
    Faults <- ProducerFault
    Failing <- NoneFailing
    MaxFaults = 1
INVARIANT AckedIsAnnounced
CHECK_DEADLOCK FALSE
