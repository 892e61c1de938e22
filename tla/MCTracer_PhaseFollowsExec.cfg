CONSTANTS
    Task = {r}
    Root = r
    DenyRules = TRUE
    MaxProcesses = 0
SPECIFICATION Spec
CHECK_DEADLOCK FALSE
INVARIANT
    PhaseFollowsExec
