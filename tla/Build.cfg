CONSTANTS
    File = {f, g}
    Repetitions = 2
SPECIFICATION FairSpec
CHECK_DEADLOCK FALSE
INVARIANTS
    TypeOK
    NotRemovedInUse
    SessionGone
    SuccessVouches
PROPERTY
    GuardedSessionRemoved
