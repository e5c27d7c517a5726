SPECIFICATION PoolSpec
CONSTANTS
    TaskIds = {once, cyclic}
    Periodic = {cyclic}
    MaxTasks = 3
    NoTask = NoTask
INVARIANTS
    NoOrphan
PROPERTIES
    StoppedTaskEnds
