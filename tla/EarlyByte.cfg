SPECIFICATION FairConsoleSpec
CONSTANTS
    MapBytes = 4
    Sizes = {30}
    AskSize = FALSE
    Printer = {p}
    TextLen <- Texts4
    Careful = TRUE
    EarlyBytes = TRUE
    MaxApp = 1
    Null = Null
PROPERTIES
    TextsSent
CHECK_DEADLOCK FALSE
