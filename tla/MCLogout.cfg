CONSTANTS
    Apps = {a1, a2}
    Wallets = {w}
    Emails = {e}
    None = None
SPECIFICATION Spec
CHECK_DEADLOCK FALSE
PROPERTIES
    LogoutPreventsRelogin
