SPECIFICATION Spec
CONSTANTS
    g1 = g1
    g2 = g2
    b1 = b1
    Ws = Ws
    Psync = Psync
    Generic <- OneGeneric
    Book <- NoSymbol
    Delistable <- NoSymbol
    CapLong = 1
    CapShort = 1
    ReentryCooldown = FALSE
    Spot = TRUE
    Signals <- OnlyLong
    BlockCooldown = FALSE
    ExchangeErrors = FALSE
    Tracks = 1
    MaxOpens = 1
INVARIANTS ClosedPositionSold
