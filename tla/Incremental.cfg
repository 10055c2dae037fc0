SPECIFICATION Spec
CONSTANTS
    Rows = {r1, r2, r3}
    MaxKey = 5
    converted <- MCConverted
    MaxTies = 2
    Limits = {0, 2}
    Modes = {TRUE, FALSE}
    batch_size = 2
    STATE_UPDATE_PERIOD = 2
    MaxWrites = 3
    MaxCrashes = 2
INVARIANTS
    TypeOK
    NoGaps
PROPERTIES
    BookmarkOnlyAdvances
    ActivationDiscardsNothing
    ImplementsKeyedFeed
SYMMETRY RowSymmetry
