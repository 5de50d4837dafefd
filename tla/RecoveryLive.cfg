SPECIFICATION Spec
CONSTANTS
    s1 = s1
    s2 = s2
    Symbols <- TwoSymbols
    Live = TRUE
    CallErrors = TRUE
    DbErrors = TRUE
    FeedGaps = TRUE
    MaxEntries = 2
    MaxCrashes = 2
SYMMETRY SymbolSymmetry
INVARIANTS TypeOK NoSilentOrphan NeverOvercounted
PROPERTIES BootSparesHeld
CHECK_DEADLOCK FALSE
