SPECIFICATION Spec
CONSTANTS
    Procs = {p, q}
    PRs = {pr1, pr2}
    None = None
    MaxCalls = 3
    MaxCrashes = 1
SYMMETRY Symmetry
INVARIANTS WorkKept SessionRemembered  
CHECK_DEADLOCK FALSE
