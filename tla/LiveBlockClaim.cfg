SPECIFICATION Spec
CONSTANTS
    g1 = g1
    g2 = g2
    b1 = b1
    Ws = Ws
    Psync = Psync
    Generic <- TwoGenerics
    Book <- NoSymbol
    Delistable <- NoSymbol
    CapLong = 0
    CapShort = 0
    ReentryCooldown = FALSE
    Spot = FALSE
    Signals <- OnlyLong
    BlockCooldown = TRUE
    ExchangeErrors = FALSE
    Tracks = 1
    MaxOpens = 1
SYMMETRY GenericSymmetry
PROPERTIES BlockLastsItsCooldown
