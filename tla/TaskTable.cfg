SPECIFICATION TableSpec
CONSTANTS
    MaxTasks = 5
    Recreations = 1
    AsksFinished = FALSE
INVARIANTS
    RingOfLiveTasks
    UniquePid
