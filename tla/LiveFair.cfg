SPECIFICATION FairSpec
CONSTANTS
    g1 = g1
    g2 = g2
    b1 = b1
    Ws = Ws
    Psync = Psync
    Generic <- OneGeneric
    Book <- NoSymbol
    Delistable <- OneGeneric
    CapLong = 1
    CapShort = 1
    ReentryCooldown = TRUE
    Spot = FALSE
    Signals <- AnySignal
    BlockCooldown = TRUE
    ExchangeErrors = TRUE
    Tracks = 2
    MaxOpens = 1
PROPERTIES SyncBacksUpStream CycleReturns
