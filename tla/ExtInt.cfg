SPECIFICATION FairExtIntSpec
CONSTANTS
    Line = {0, 1, 4}
    Port <- TwoHandlers
    Adder = {t}
    POS_MAX_EXT_INT_PINS = 2
    Together = FALSE
INVARIANTS
    EntryFound
    ActiveHasMessage
PROPERTIES
    EdgeDelivered
