SPECIFICATION KeepingSpec
CONSTANTS
    Backups = {timer, operator}
    Resident = TRUE
    MaxWrites = 2
    Nothing = Nothing
    N = 3
    MaxRestores = 2
    Env = {"reconcile", "crash"}
    None = None
    Part = Part
    Events = {e1, e2}
    Flushers = {f1, f2}
    NL = NL
INVARIANTS BackupsAreTrue ThawedAfter OriginalsKept ReportsAreTrue NothingLost
PROPERTIES UnitComesBack
CHECK_DEADLOCK FALSE
