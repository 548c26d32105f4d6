SPECIFICATION AccessSpec
CONSTANTS
    Accounts = {a1, a2}
    JwtTtl = 1
    SessionTtl = 1
    JwtLeeway = 1
    MaxSkew = 1
    MaxTime = 4
    Names = 4
    MaxCodes = 2
    MaxFaults = 1
    None = None
INVARIANTS AccessFades OnlyWhoMay OneWizardServes
PROPERTY OwnerGetsIn
CHECK_DEADLOCK FALSE
