SPECIFICATION Spec
CONSTANTS
    StreamCount = 2
    Methods = {"LOG_BASED"}
    Keys = {}
    break_at_end = FALSE
    use_secondary = FALSE
    MaxLsn = 3
    MaxEdits = 1
    MaxFailures = 0
    MaxPipe = 3
INVARIANTS
    NothingForgotten
CHECK_DEADLOCK FALSE
