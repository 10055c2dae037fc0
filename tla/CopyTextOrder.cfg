SPECIFICATION FairSpec
CONSTANTS
    Rows = {r1, r2, r3}
    Modes = {FALSE}
    batch_size = 3
    STATE_UPDATE_PERIOD = 1
    FirstXid = 8
    MaxXid = 10
    MaxVersions = 2
    MaxCrashes = 1
PROPERTIES
    CompleteWhenActivated
CHECK_DEADLOCK FALSE
