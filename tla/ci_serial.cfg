SPECIFICATION Spec
CONSTANTS
    Tools = {tool}
    Monitors = {}
    MaxActive = 1
    QueueHolds = FALSE
    Faults = {"unreachable"}
    MaxLaunches = 3
    MaxOthers = 1
    MaxQueries = 2
INVARIANTS   NoRunForgotten
CHECK_DEADLOCK FALSE
