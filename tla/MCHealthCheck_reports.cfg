SPECIFICATION FairSpec
CONSTANTS
    r1 = r1
    r2 = r2
    queue = queue
    mysql = mysql
    Requests <- TwoRequests
    Dependencies <- TwoDependencies
    Downstream = queue
    Timeout = 1
    QueueMayGo = TRUE
INVARIANTS
    OkIsTrue
    SteadyIsOkWhileOpen
PROPERTY CheckEnds
CHECK_DEADLOCK FALSE
