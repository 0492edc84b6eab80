SPECIFICATION Spec
CONSTANTS
    Tickets = {t1, t2}
    Sessions = {s1, NoSession}
    Targets = {x}
    NoTicket = NoTicket
    NoSession = NoSession
    TTL = 0
    Procs = {g, h}
    ActionsUsed <- AllActions
    Faults = {"crash", "lost", "raised"}
    MaxCalls = 2
    MaxDecisions = 1
    MaxClock = 1
INVARIANTS AuthInv ExecutionAuthorized
CHECK_DEADLOCK FALSE
SYMMETRY Symmetry
