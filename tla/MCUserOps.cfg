CONSTANTS
    Requests = {r1, r2, r3}
    Wallets = {w1, w2}
    None = None
SPECIFICATION Spec
SYMMETRY Symmetry
CHECK_DEADLOCK FALSE
INVARIANTS
    TypeOK
    LossesHaveCauses
    WalletsCountOperations
    PoolHasNoGaps
    IInv
PROPERTIES
    ImplementsLedger
