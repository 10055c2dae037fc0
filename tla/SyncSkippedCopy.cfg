SPECIFICATION Spec
CONSTANTS
    StreamCount = 2
    Methods = {"LOG_BASED"}
    Keys = {}
    break_at_end = TRUE
    use_secondary = FALSE
    MaxLsn = 2
    MaxEdits = 0
    MaxFailures = 1
    MaxPipe = 3
INVARIANTS
    StreamsOnlyAfterCopy
CHECK_DEADLOCK FALSE
