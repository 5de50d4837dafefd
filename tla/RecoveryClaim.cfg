SPECIFICATION Spec
CONSTANTS
    s1 = s1
    s2 = s2
    Symbols <- OneSymbol
    Live = FALSE
    CallErrors = FALSE
    DbErrors = FALSE
    FeedGaps = FALSE
    MaxEntries = 1
    MaxCrashes = 0
INVARIANTS ClosedOnDisk
CHECK_DEADLOCK FALSE
