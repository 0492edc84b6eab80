SPECIFICATION Spec
CONSTANTS
    Procs = {g}
    Sessions = {s1, s2}
    Legacy = 1
    Gone = Gone
    Header = Header
    Faults = {"crash"}
    MaxCalls = 4
INVARIANTS ChainVerifies AlterationDetected TimelineKeepsEntries EveryAttemptRecorded
CHECK_DEADLOCK FALSE
