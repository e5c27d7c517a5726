SPECIFICATION FairSpec
CONSTANTS
    c1 = c1
    c2 = c2
    s1 = s1
    s2 = s2
    r1 = r1
    Orders <- MCOrders
    Streams = {s1, s2}
    Raws = {r1}
    Hold = {s2, r1}
    KeepFirst = {}
    MaxRounds = 2
    MaxConns = 2
    MaxLives = 2
    Main = Main
    None = None
INVARIANTS
    AssertFailsOnlyIfLost
    NotReadyIsExplained
PROPERTIES
    SendReturns
CHECK_DEADLOCK FALSE
