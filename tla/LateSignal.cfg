SPECIFICATION Spec
CONSTANTS
    N = 2
    MEAN = 4
    Prio <- PrioBelow
    Sem = {"a", "b"}
    InitCnt <- InitZero
    MaxLine = 2
    MaxCnt = 1
    Times = {1, 2}
    Waits <- None
    TimedWaits <- TimedSecond
    Signals <- SignalsFirst
    Sleeps <- None
    Finishers = {}
    IsrSems = {"b"}
    NoSem = "none"
INVARIANTS
    WalkMeetsEntry
