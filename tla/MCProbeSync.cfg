SPECIFICATION FairSpec
CONSTANTS
    Probes = {p1, p2}
    AfterFbk = {p2}
    Stopped = {p2}
    Hanging = {p1}
    NTargets = 1
    EarlyTimeout = FALSE
INVARIANTS
    InStep
PROPERTIES
    StuckMethodIsRight
    RoundEnds
