SPECIFICATION Spec
CONSTANTS
    StreamCount = 2
    Methods = {"FULL_TABLE", "INCREMENTAL", "LOG_BASED"}
    Keys = {k1, k2}
    k1 = k1
    k2 = k2
    break_at_end = TRUE
    use_secondary = FALSE
    MaxLsn = 2
    MaxEdits = 2
    MaxFailures = 1
    MaxPipe = 2
INVARIANTS
    TypeOK
    StateUsable
    NothingForgotten
PROPERTIES
    CopiedOnce
SYMMETRY KeySymmetry
CHECK_DEADLOCK FALSE
