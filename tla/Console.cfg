SPECIFICATION FairConsoleSpec
CONSTANTS
    MapBytes = 4
    Sizes = {30}
    AskSize = FALSE
    Printer = {p}
    TextLen <- Texts4
    Careful = TRUE
    EarlyBytes = FALSE
    MaxApp = 1
    Null = Null
INVARIANTS
    HeapExact
    UsedIsAllocated
    HeapOwned
    TextsInOrder
PROPERTIES
    TextsSent
