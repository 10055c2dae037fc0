SPECIFICATION FairSpec
CONSTANTS
    Streams = {s1}
    NoStream = none
    UPDATE_BOOKMARK_PERIOD = 2
    break_at_end = TRUE
    InitialEnd = 2
    MaxLsn = 5
    MaxRows = 2
    MaxChanges = 3
    MaxInterruptions = 1
PROPERTIES
    EventuallyDurable
    EveryRunEnds
