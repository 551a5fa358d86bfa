SPECIFICATION FairSpec
CONSTANTS
    Scripts <- SmallScripts
    ChunkSize = 3
INVARIANTS
    TypeOK
    StoredIsComplete
    AnnouncedIsStored
    QuotesAvailable
    FailuresCounted
PROPERTIES
    RunEnds
    RunIsAttempt
CHECK_DEADLOCK FALSE
