SPECIFICATION Spec
CONSTANTS
    Tickets = {t1, t2, t3}
    Sessions = {s1, s2}
    Targets = {x}
    NoTicket = NoTicket
    NoSession = NoSession
    TTL = 0
    Procs = {g}
    ActionsUsed = {"git_push", "launch_jenkins_ci"}
    Faults = {"lost"}
    MaxCalls = 3
    MaxDecisions = 2
    MaxClock = 1
INVARIANTS ExecutionAuthorized SerialInv NoReplay EveryEffectRecorded
PROPERTY ImplementsLedger
CHECK_DEADLOCK FALSE
SYMMETRY TicketSymmetry
