SPECIFICATION Spec
CONSTANTS
    g1 = g1
    g2 = g2
    b1 = b1
    Ws = Ws
    Psync = Psync
    Generic <- TwoGenerics
    Book <- OneBasket
    Delistable <- NoSymbol
    CapLong = 1
    CapShort = 1
    ReentryCooldown = FALSE
    Spot = TRUE
    Signals <- AnySignal
    BlockCooldown = FALSE
    ExchangeErrors = FALSE
    Tracks = 1
    MaxOpens = 1
SYMMETRY GenericSymmetry
INVARIANTS TypeOK CapRespected PendingExact
