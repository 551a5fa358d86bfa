SPECIFICATION Spec
CONSTANTS
    a = a
    w1 = w1
    w2 = w2
    Nobody = Nobody
    Clients <- OneClient
    Workers <- TwoWorkers
    Capacity = 2
    Unit = 2
    Refill = 1
    Second = 2
    MaxIdle = 4
    Period = 2
    Lag = 1
    MaxTime = 10
SYMMETRY WorkerSymmetry
INVARIANTS
    AdmissionsBounded
    IdleForgotten
PROPERTY RetryAfterHonest
CHECK_DEADLOCK FALSE
