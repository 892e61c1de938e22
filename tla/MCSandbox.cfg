CONSTANT
    Offered <- Representative
SPECIFICATION RunFairSpec
CHECK_DEADLOCK FALSE
INVARIANTS
    RunTypeOK
    TargetConfined
    NoOrphanTarget
    StatusOwned
PROPERTY
    Finishes
