SPECIFICATION Spec
CONSTANTS
    Procs = {g}
    Sessions = {s1, s2}
    Hub = Hub
    Ports = {4100, 4101, 4102}
    HubPort = 4096
    MaxConcurrent = 1
    Faults = {"run", "timeout", "exit"}
    MaxOps = 4
INVARIANTS RunningReachable StopRevokes WithinLimit PortsDistinct
PROPERTY RevokedForGood
CHECK_DEADLOCK FALSE
