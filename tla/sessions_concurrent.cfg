SPECIFICATION Spec
CONSTANTS
    Procs = {g, h}
    Sessions = {s1}
    Hub = Hub
    Ports = {4100, 4101, 4102}
    HubPort = 4096
    MaxConcurrent = 0
    Faults = {"run", "timeout", "rm", "exit", "crash"}
    MaxOps = 3
INVARIANTS TypeOK TokenInv OneActiveToken
CHECK_DEADLOCK FALSE
SYMMETRY Symmetry
