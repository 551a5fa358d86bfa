SPECIFICATION FairSpec
CONSTANTS
    InitialDelay = 3
    MaxDelay = 90000
    U32Max = 20
    U64Max = 98303
INVARIANT WaitsInRange
PROPERTIES
    DelaysDouble
    NoSignalMissed
CHECK_DEADLOCK FALSE
