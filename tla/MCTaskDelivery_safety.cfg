SPECIFICATION Spec
CONSTANTS
    t1 = t1
    t2 = t2
    b1 = b1
    Tasks <- AllMessages
    Malformed <- OneMalformed
    MaxTasks = 2
    Prefetch = 2
    Faults <- AllFaults
    Failing <- AllFailing
    MaxFaults = 1
SYMMETRY TaskSymmetry
INVARIANTS
    IInv
    AckedWorkIsDone
    ExclusiveAttempt
    RedeliveryNeedsLoss
    PermitsAccounted
PROPERTY KeepsPromise
CHECK_DEADLOCK FALSE
