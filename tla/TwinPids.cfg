SPECIFICATION TableSpec
CONSTANTS
    MaxTasks = 5
    Recreations = 2
    AsksFinished = FALSE
INVARIANTS
    UniquePid
