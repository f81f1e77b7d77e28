SPECIFICATION MemorySpec
CONSTANTS
    MapBytes = 24
    Sizes = {100, 508}
    AskSize = FALSE
INVARIANTS
    UsedIsAllocated
