CONSTANTS
    Requests = {r1, r2, r3, r4}
    Wallets = {w1}
    Registrations = {k1}
    Nonces = {n1}
    Kinds = {"link", "unlink", "webhook"}
    None = None
SPECIFICATION Spec
SYMMETRY Symmetry
CHECK_DEADLOCK FALSE
INVARIANTS
    AccountKeepsIdentity
