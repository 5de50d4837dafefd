SPECIFICATION SpecParts
CONSTANTS
    max_attempts = 3
    Qty = 3
    use_limit = TRUE
    fallback = TRUE
    CallErrors = TRUE
    tranche_count = 2
    enabled = TRUE
    EntryQty = 2
    InParts = TRUE
    MaxOpenings = 2
    capital = 20
    acct_Prices = {2, 4}
    Fills <- MCFills
    trailing_stop <- MCTrailingStop
    acct_commission = 1
    acct_Qty = 2
    autofix_after_n = 2
    Misread = TRUE
    BookSymbols = {"a", "b", "c", "d"}
    top_k = 1
    exit_buffer = 1
    rebalance_min_bars = 2
    MaxBar = 3
    path_Prices = {1, 2, 3, 4, 5}
    path_Sl = 1
    path_Tp = 2
    path_Trails = {0, 1, 2}
    breakeven_rr = 1
    min_hold_bars = 2
    commission_rate = 1
    path_Bars = 4
    engine_Prices = {3, 4, 5, 6}
    engine_Sl = 1
    engine_Tp = 2
    engine_Trails = {0, 1, 2}
    breakeven_at_rr = 1
    engine_Qty = 2
    PartialQty = 1
    engine_commission = 1
    Slips = {0, 1}
    engine_Bars = 3
    Page = 3
    base = 3
    Buffer = 2
    max_requests = 2
    backfill_enabled = TRUE
    Unusable = {4}
    candles_Jobs = {"x", "y"}
    Starts = {2}
    candles_Horizon = 6
    MaxFaults = 1
    threshold = 3
    Downloads = {"x", "y"}
    MaxFails = 5
    screen_Candidates = {"a", "b", "c", "d"}
    Pinned <- MCPinned
    screen_Boot = {"a", "b", "c"}
    top_n = 2
    max_workers = 3
    screen_Jobs = {"x", "y"}
    screen_Rounds = 3
    tuning_Strategies = {"ma", "rsi"}
    tuning_Fallback = "ma"
    Slots = {"x", "y"}
    tuning_Rounds = 3
    Frames = {"h1", "d1"}
    plan_Candidates = {"h1", "d1"}
    ConfigFrame = "h1"
    plan_Strategies = {"ma", "rsi"}
    Seeds <- MCSeeds
    MIN_SCORE = 1
    STRAT_MARGIN = 0
    MaxScore = 2
    plan_Jobs = {"x", "y"}
    Symbols = {"x", "y"}
    Regimes = {"up", "flat"}
    HasDefault = {"flat"}
    DRIFT_CONFIRMATION_TURNS = 2
    DRIFT_COOLDOWN_SECS = 1
    WINDOW = 1
    regime_Horizon = 2
    backtest_interval = 1
    paper_duration = 2
    max_consecutive_losses = 2
    sched_Horizon = 12
    Versions = {"v1", "v2"}
    max_history = 2
    reload_Strategies = {"ma", "rsi"}
    max_strategies = 2
    Bound = 3
    failure_count_threshold = 2
    failure_percent = 50
    success_count_to_close = 3
    MaxRequests = 7
    max_consecutive_failures = 3
    max_checks_to_recover = 3
    max_checks_to_critical = 2
    Values = {2, 6, 10}
    MaxChecks = 4
    Callers = {"x", "y"}
    Requests = 3
    Links = 3
INVARIANTS
    RecordedIsBought
    StrayNeedsFailure
    TypesCorrect
    OwnTranchesInOrder
    StateHasOwner
    EquityIsWallet
    TargetIsStable
    ChurnNeedsBars
    FlatButStale
    LossIsBounded
    ArmedNeverLoses
    SoldOnce
    BreakevenHolds
    HolesNeedFailure
    PartialOnlyAtSeams
    PurgeNeedsWord
    SelectionInForce
    TunedForStrategy
    SealedIsWhole
    EdgeIsProven
    JobPatchKept
    ExecutedInOrder
PROPERTIES
    EntryAlwaysReturns
    PositionsMoveOn
    PaperFirst
    ClosesOnlyTested
    GivenUpForItsOwn
    ServesRequests
CHECK_DEADLOCK FALSE
