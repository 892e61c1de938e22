CONSTANTS
    NumTasks = 2
    MaxWorkers = 1
    UseCgroups = FALSE
SPECIFICATION Spec
CHECK_DEADLOCK FALSE
INVARIANT
    EveryTaskTaken
