CONSTANTS
    NumTasks = 3
    MaxWorkers = 2
    UseCgroups = TRUE
SPECIFICATION FairSpec
CHECK_DEADLOCK FALSE
INVARIANTS
    TypeOK
    TasksIsolated
PROPERTIES
    ImplementsPool
    Terminates
