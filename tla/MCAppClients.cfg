CONSTANTS
    Requests = {r1, r2, r3}
    x1 = x1
    x2 = x2
    o1 = o1
    o2 = o2
    Configs <- MCConfigs
    Origins <- MCOrigins
    OriginsOf <- MCOriginsOf
    Kinds = {"create", "update", "delete", "lookup"}
    None = None
SPECIFICATION Spec
SYMMETRY Symmetry
CHECK_DEADLOCK FALSE
INVARIANTS
    TypeOK
    UndisturbedStoresAgree
    CacheWasCommitted
    RowsHaveHydraClients
PROPERTIES
    DeletedStaysDeleted
