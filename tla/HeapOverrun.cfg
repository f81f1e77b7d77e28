SPECIFICATION MemorySpec
CONSTANTS
    MapBytes = 4
    Sizes = {21, 30, 40}
    AskSize = TRUE
INVARIANTS
    HeapExact
