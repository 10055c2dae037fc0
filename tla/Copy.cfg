SPECIFICATION FairSpec
CONSTANTS
    Rows = {r1, r2, r3}
    Modes = {TRUE, FALSE}
    batch_size = 3
    STATE_UPDATE_PERIOD = 2
    FirstXid = 10
    MaxXid = 12
    MaxVersions = 2
    MaxCrashes = 1
INVARIANTS
    TypeOK
    WatermarkBacked
PROPERTIES
    CompleteWhenActivated
    ActivationDiscardsOnlyStale
    ImplementsVersionedCopy
    CopyCompletes
CHECK_DEADLOCK FALSE
