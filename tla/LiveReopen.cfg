SPECIFICATION Spec
CONSTANTS
    g1 = g1
    g2 = g2
    b1 = b1
    Ws = Ws
    Psync = Psync
    Generic <- OneGeneric
    Book <- NoSymbol
    Delistable <- NoSymbol
    CapLong = 1
    CapShort = 1
    ReentryCooldown = FALSE
    Spot = FALSE
    Signals <- OnlyLong
    BlockCooldown = FALSE
    ExchangeErrors = TRUE
    Tracks = 1
    MaxOpens = 2
INVARIANTS LedgerBalanced RefsOwned
PROPERTIES ImplementsLedger
