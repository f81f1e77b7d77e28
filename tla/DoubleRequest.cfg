SPECIFICATION Spec
CONSTANTS
    N = 3
    MEAN = 4
    Prio <- PrioHigh3
    Sem = {"a", "b"}
    InitCnt <- InitZero
    MaxLine = 4
    MaxCnt = 1
    Times = {1, 2}
    Waits <- Waits3
    TimedWaits <- None
    Signals <- Signals3
    Sleeps <- Sleeps3
    Finishers = {}
    IsrSems = {"a", "b"}
    NoSem = "none"
INVARIANTS
    SwitchFromRunning
