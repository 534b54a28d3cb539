CONSTANTS
    Apps = {a1, a2}
    Wallets = {w}
    Emails = {e}
    None = None
SPECIFICATION FairSpec
CHECK_DEADLOCK FALSE
INVARIANTS
    TypeOK
    LoggedOutStaysOut
    IInv
PROPERTIES
    RedirectsEnd
