SPECIFICATION FairSpec
CONSTANTS
    c1 = c1
    c2 = c2
    c3 = c3
    Calls <- ThreeCalls
    MaxLlm = 2
    MaxRetries = 2
INVARIANTS
    TypeOK
    PermitsHeldThroughout
    RetriesReported
    GivesUpOnlyWhenDue
PROPERTY CallsReturn
CHECK_DEADLOCK FALSE
