SPECIFICATION Spec
CONSTANTS
    Columns = {"id", "size", "blob"}
    KeyColumns = {"id"}
    ColumnTypes <- MCColumnTypes
    FirstShapes <- MCFirstShapes
    Deselections = {{}, {"id", "size"}}
    Databases = {"shop", "crm"}
    ConfigDatabase = "shop"
    CatalogDatabase = "crm"
    break_at_end = FALSE
    MaxChanges = 2
    MaxDdl = 2
    MaxFailures = 0
INVARIANTS
    OwnDatabase
CHECK_DEADLOCK FALSE
