SPECIFICATION FairExtIntSpec
CONSTANTS
    Line = {0}
    Port <- WithPortF
    Adder = {t}
    POS_MAX_EXT_INT_PINS = 2
    Together = FALSE
INVARIANTS
    EntryFound
