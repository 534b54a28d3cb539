CONSTANTS
    Requests = {r1, r2, r3}
    Wallets = {w1}
    Registrations = {k1}
    Nonces = {n1, n2}
    Kinds = {"verify", "adminUnlink"}
    None = None
SPECIFICATION Spec
SYMMETRY Symmetry
CHECK_DEADLOCK FALSE
INVARIANTS
    ConflictIsRetryable
