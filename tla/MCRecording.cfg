SPECIFICATION Spec
CONSTANTS
    a = a
    b = b
    Targets = {a, b}
    Lists <- MCLists
    Burst = 2
    MaxData = 3
    MaxFbk = 2
    MaxAsync = 1
INVARIANTS
    RowsAreRight
    CallbacksSeeFresh
