SPECIFICATION Spec
CONSTANTS
    Procs = {g, h}
    Sessions = {s1}
    Legacy = 1
    Gone = Gone
    Header = Header
    Faults = {"crash", "torn"}
    MaxCalls = 3
INVARIANTS LinksBack RecordsKept
SYMMETRY Symmetry
CHECK_DEADLOCK FALSE
