SPECIFICATION FairIpcSpec
CONSTANTS
    N = 2
    MEAN = 4
    Prio <- PrioHigh2
    Sem = {1, 2}
    InitCnt <- InitOne
    MaxLine = 2
    MaxCnt = 3
    Times = {1}
    Waits <- None
    TimedWaits <- None
    Signals <- None
    Sleeps <- FirstSleeps
    Finishers = {}
    IsrSems = {}
    NoSem = NoSem
    MAX_PROCCESS_NUM = 2
    MAX_IPC_MESSAGES_NUM = 2
    Mails <- Ping
    IsrMails = {1, 2}
INVARIANTS
    CountMatchesMail
    SwitchFromRunning
PROPERTIES
    KeepsMailPromise
    MailWakes
