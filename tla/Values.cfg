SPECIFICATION Spec
CONSTANTS
    MaxDepth = 3
    NotRecorded = NotRecorded
INVARIANTS
    ValuesFitSchema
    PathsAgree
CHECK_DEADLOCK FALSE
