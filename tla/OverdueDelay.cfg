SPECIFICATION FairSpec
CONSTANTS
    N = 3
    MEAN = 4
    Prio <- PrioBelow
    Sem = {"a"}
    InitCnt <- InitZero
    MaxLine = 4
    MaxCnt = 1
    Times = {1}
    Waits <- None
    TimedWaits <- None
    Signals <- None
    Sleeps <- AllSleep
    Finishers = {}
    IsrSems = {}
    NoSem = "none"
PROPERTIES
    DelayEnds
