SPECIFICATION FairConsoleSpec
CONSTANTS
    MapBytes = 4
    Sizes = {30}
    AskSize = FALSE
    Printer = {p, q}
    TextLen <- Texts4
    Careful = TRUE
    EarlyBytes = FALSE
    MaxApp = 1
    Null = Null
INVARIANTS
    TextsInOrder
