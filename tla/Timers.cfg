SPECIFICATION FairTimerSpec
CONSTANTS
    Caller = {1, 2}
    Times = {1, 2}
    TIMER_MAX_VALUE = 1
    ARR_MAX = 2
    MaxTimers = 2
INVARIANTS
    OwnId
    CounterBelowReload
    OffWithoutTimers
    LeftCoversTime
PROPERTIES
    InterruptEnds
    RunningFires
