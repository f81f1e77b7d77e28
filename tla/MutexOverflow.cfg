SPECIFICATION MutexSpec
CONSTANTS
    N = 3
    MEAN = 4
    Prio <- Prio3
    Sem = {}
    InitCnt <- InitZero
    MaxLine = 4
    MaxCnt = 1
    Times = {1}
    Waits <- None
    TimedWaits <- None
    Signals <- None
    Sleeps <- None
    Finishers = {}
    IsrSems = {}
    NoSem = "none"
    MAX_MUTEX_NUM = 2
    MAX_PROCCESS_NUM = 2
    BITS = 2
    Creators = {1}
    Users = {1, 2, 3}
    SharedHandle = FALSE
    NoMutex = NoMutex
INVARIANTS
    RowFits
