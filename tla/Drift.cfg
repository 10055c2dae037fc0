SPECIFICATION FairSpec
CONSTANTS
    Columns = {"id", "size", "blob"}
    KeyColumns = {"id"}
    ColumnTypes <- MCColumnTypes
    FirstShapes <- MCFirstShapes
    Deselections = {{}, {"id", "size"}}
    Databases = {"shop"}
    ConfigDatabase = "shop"
    CatalogDatabase = "shop"
    break_at_end = FALSE
    MaxChanges = 2
    MaxDdl = 2
    MaxFailures = 1
INVARIANTS
    TypeOK
    RecordFitsSchema
    EveryValueDelivered
    DeselectedStaysOut
PROPERTIES
    EveryChangeDelivered
CHECK_DEADLOCK FALSE
