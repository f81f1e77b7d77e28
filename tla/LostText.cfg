SPECIFICATION FairConsoleSpec
CONSTANTS
    MapBytes = 4
    Sizes = {30}
    AskSize = FALSE
    Printer = {p}
    TextLen <- Texts3
    Careful = FALSE
    EarlyBytes = FALSE
    MaxApp = 0
    Null = Null
PROPERTIES
    TextsSent
