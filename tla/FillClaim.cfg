SPECIFICATION Spec
CONSTANTS
    tranche_count = 3
    enabled = FALSE
    EntryQty = 2
    InParts = TRUE
    MaxOpenings = 2
INVARIANT AlignedWithExchange
CHECK_DEADLOCK FALSE
