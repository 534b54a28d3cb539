CONSTANTS
    Attempts = {a1, a2, a3}
    Owner = owner
    Last = 1
    None = None
SPECIFICATION FairSpec
CHECK_DEADLOCK FALSE
INVARIANTS
    TypeOK
    TokensShowTheirMint
    GuessesNeverSkip
    IInv
PROPERTIES
    AttemptsEnd
