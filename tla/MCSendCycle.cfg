SPECIFICATION FairSpec
CONSTANTS
    t1 = t1
    t2 = t2
    Order <- MCOrder
    Silent = {t2}
    Recoverable = {t1, t2}
    Bursts = {1, 3}
    MaxSince = 4
INVARIANTS
    BurstIsBounded
    NothingLeftPending
    VerdictsAreKept
PROPERTIES
    RoundEnds
