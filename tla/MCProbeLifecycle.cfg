CONSTANTS
    MaxStarts = 3
    HangingThreads = {2}
SPECIFICATION LifeSpec
INVARIANTS OwedStopIsPossible
PROPERTIES StoppedEnds
