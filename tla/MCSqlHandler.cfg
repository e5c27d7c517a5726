SPECIFICATION FairSpec
CONSTANTS
    None = None
    Threads = {fmk, worker}
    Fmk = fmk
    Askers = {fmk}
    MaxStmts = 4
    MayFail = TRUE
INVARIANTS
    GuessedIdsAreRows
PROPERTIES
    ImplementsService
    CallersGoOn
