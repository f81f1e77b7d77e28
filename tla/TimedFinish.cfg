SPECIFICATION FairSpec
CONSTANTS
    N = 3
    MEAN = 4
    Prio <- PrioBelow
    Sem = {"a", "b"}
    InitCnt <- InitZero
    MaxLine = 3
    MaxCnt = 1
    Times = {2, 5}
    Waits <- WaitsThird
    TimedWaits <- TimedSecond
    Signals <- SignalsFirst
    Sleeps <- SleepsThird
    Finishers = {3}
    IsrSems = {"b"}
    NoSem = "none"
INVARIANTS
    TimeoutLeavesNoTrace
    FinishedStaysOff
PROPERTIES
    TimedWaitEnds
