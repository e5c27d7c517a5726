SPECIFICATION FairSpec
CONSTANTS
    a = a
    b = b
    c = c
    Targets = {a, b, c}
    Setups <- MCSetups
    MaxConsumer = 2
    MaxMapped = 3
    Fmk = Fmk
    None = None
INVARIANTS
    ReadOnceNoticed
    NoUseAfterClose
PROPERTIES
    SentIsRead
    StopReturns
CHECK_DEADLOCK FALSE
