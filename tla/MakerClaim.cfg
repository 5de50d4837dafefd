SPECIFICATION Spec
CONSTANTS
    max_attempts = 2
    Qty = 2
    use_limit = TRUE
    fallback = FALSE
    CallErrors = FALSE
INVARIANTS BuysOnlyQty
CHECK_DEADLOCK FALSE
