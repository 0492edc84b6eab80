SPECIFICATION FairSpec
CONSTANTS
    Tools = {tool}
    Monitors = {monitor}
    MaxActive = 1
    QueueHolds = TRUE
    Faults = {"lost"}
    MaxLaunches = 2
    MaxOthers = 0
    MaxQueries = 0
INVARIANT TypeOK
PROPERTY Settles
CHECK_DEADLOCK FALSE
