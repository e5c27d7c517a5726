CONSTANTS
    p1 = p1
    p2 = p2
    d1 = d1
    d2 = d2
    None = None
    Unknown = Unknown
    Projects = {p1, p2}
    DMs = {d1, d2}
    Highest <- MCHighest
    IdSets <- MCIdSets
    MaxReloads <- MCReloads
    MaxFaults = 1
SPECIFICATION Spec
SYMMETRY MCSymmetry
INVARIANTS
    ReadyToSend
    NothingLeftRunning
    RunsWhatWasAsked
CHECK_DEADLOCK FALSE
