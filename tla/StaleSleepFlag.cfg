SPECIFICATION Spec
CONSTANTS
    N = 2
    MEAN = 4
    Prio <- Prio2
    Sem = {"a", "b"}
    InitCnt <- InitZero
    MaxLine = 4
    MaxCnt = 1
    Times = {1, 2}
    Waits <- Waits2
    TimedWaits <- None
    Signals <- Signals2
    Sleeps <- Sleeps2
    Finishers = {}
    IsrSems = {"a", "b"}
    NoSem = "none"
PROPERTIES
    HighRunsAtOnce
