SPECIFICATION Spec
CONSTANTS
    Commands = {c1, c2}
    Keys = {github, llm}
    None = None
    StateDirSet = FALSE
    MaxPid = 2
    MaxRuns = 3
    MaxCrashes = 0
INVARIANT CredentialsExported
CHECK_DEADLOCK FALSE
