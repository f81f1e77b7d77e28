SPECIFICATION FairExtIntSpec
CONSTANTS
    Line = {0, 1, 4}
    Port <- TwoHandlers
    Adder = {t, u}
    POS_MAX_EXT_INT_PINS = 2
    Together = FALSE
INVARIANTS
    EntryFound
