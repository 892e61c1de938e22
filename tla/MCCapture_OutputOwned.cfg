CONSTANTS
    Worker = {v, w}
    Fd = {0, 1, 2, 3, 4, 5, 6, 7}
    OutputLimit = 2
    PipeSize = 1
SPECIFICATION Spec
CHECK_DEADLOCK FALSE
INVARIANT
    OutputOwned
