CONSTANTS
    Task = {r, a}
    Root = r
    DenyRules = TRUE
    MaxProcesses = 0
SPECIFICATION FairSpec
CHECK_DEADLOCK FALSE
INVARIANTS
    TypeOK
    NoTaskLeftStopped
    PhaseAgrees
    OffenderKilled
    RootStatusFaithful
PROPERTIES
    
    RootDeathEndsTrace
