SPECIFICATION Spec
CONSTANTS
    Streams = {s1, s2}
    NoStream = none
    UPDATE_BOOKMARK_PERIOD = 1
    break_at_end = FALSE
    InitialEnd = 2
    MaxLsn = 6
    MaxRows = 2
    MaxChanges = 3
    MaxInterruptions = 1
INVARIANTS
    TypeOK
    NoLoss
    StateIsBacked
PROPERTIES
    FlushOnlyCommitted
    ImplementsFeed
SYMMETRY StreamSymmetry
