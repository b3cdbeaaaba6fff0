SPECIFICATION WarehouseSpec
CONSTANTS
    o1 = o1
    o2 = o2
    c1 = c1
    c2 = c2
    None = None
    Orders <- MCOrders
    Customers <- MCCustomers
    Rows <- MCRows
    MaxRows = 2
    MaxRuns = 3
INVARIANTS
    WarehouseTypeOK
    IncrementalEqualsBulk
    LoopKeepsFirstNewest
    FactsMirrorStaging
    DimensionCoversFacts
    ChecksRejectNoBatch
    LinesAccountedFor
PROPERTIES
    ReplayChangesNothing
CHECK_DEADLOCK FALSE
