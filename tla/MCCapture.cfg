CONSTANTS
    Worker = {w}
    Fd = {0, 1, 2, 3}
    OutputLimit = 2
    PipeSize = 2
SPECIFICATION FairSpec
CHECK_DEADLOCK FALSE
INVARIANTS
    TypeOK
    OutputComplete
    NoDescriptorLeak
PROPERTY
    Returns
