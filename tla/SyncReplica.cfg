SPECIFICATION Spec
CONSTANTS
    StreamCount = 2
    Methods = {"LOG_BASED"}
    Keys = {}
    break_at_end = TRUE
    use_secondary = TRUE
    MaxLsn = 2
    MaxEdits = 0
    MaxFailures = 0
    MaxPipe = 3
INVARIANTS
    NothingForgotten
CHECK_DEADLOCK FALSE
