SPECIFICATION Spec
CONSTANTS
    Commands = {c1, c2}
    Keys = {github, llm}
    None = None
    StateDirSet = TRUE
    MaxPid = 2
    MaxRuns = 3
    MaxCrashes = 1
INVARIANTS ServiceManaged CredentialsKept
PROPERTY StopEnds
CHECK_DEADLOCK FALSE
