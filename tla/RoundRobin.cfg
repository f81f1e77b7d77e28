SPECIFICATION FairSpec
CONSTANTS
    N = 3
    MEAN = 4
    Prio <- PrioBelow
    Sem = {"a", "b"}
    InitCnt <- InitZero
    MaxLine = 4
    MaxCnt = 2
    Times = {1, 2}
    Waits <- Waits3
    TimedWaits <- None
    Signals <- Signals3
    Sleeps <- Sleeps3
    Finishers = {}
    IsrSems = {"a", "b"}
    NoSem = "none"
INVARIANTS
    TypeOK
    SwitchFromRunning
    CurrentIsRunning
    ActiveIsCurrent
    BlockedDoesNotRun
    SleepsOnlyWhenBlocked
    ChargedToRunner
    SliceBounded
    CountMatchesQueue
    QueuedIffWaiting
    DelayedIffListed
PROPERTIES
    KeepsPromise
    ReadyTaskRuns
    DelayEnds
