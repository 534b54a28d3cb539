CONSTANTS
    Requests = {r1, r2, r3}
    Seed = seed
    Names = {default, other}
    Default = default
    Contents = {v0, v1}
    Seeded = v0
    Bodies <- OneField
    Kinds = {"create", "get", "update", "delete"}
    None = None
SPECIFICATION Spec
SYMMETRY Symmetry
CHECK_DEADLOCK FALSE
INVARIANTS
    TypeOK
    UndisturbedCacheIsFresh
    NoDanglingReference
PROPERTIES
    LostUpdateNeedsOverlap
