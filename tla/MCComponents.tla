----------------------------- MODULE MCComponents -----------------------------
(* Small instances of the single components, checked in one run: `part` is  *)
(* the component whose steps are taken, the others stay in their initial    *)
(* state.  The state space is the sum of theirs, not their product.         *)
EXTENDS MakerEntry, PositionParts, ExitParts, JobParts,
        ManagerParts

MCFills == {-1, 1}
MCTrailingStop == -1
MCPinned == <<"a">>
MCSeeds == {<<<<"d1", "ma">>>>, <<<<"d1", "rsi">>, <<"h1", "ma">>>>}

Parts == {"maker", "size", "acct", "book", "path", "engine", "candles", "delist",
         "screen", "tuning", "plan", "regime", "sched", "reload", "breaker",
         "health", "mt5"}

VARIABLE part

sizeVars == <<size_position, graded, size_stage, size_read, partial, size_closing, removed,
              archived, size_opened, size_delisted, exchange, size_stream>>
acctVars == <<acct_equity, acct_position, opening, acct_closing, acct_read, sync,
              consecutive_mismatch, acct_delisted, acct_opened, wallet, held,
              acct_order, acct_stream, disturbed>>
bookVars == <<legs, ranking, longs, shorts, close, book_open, last_bar, cooldown, book_bar,
              opened_at>>
pathVars == <<candle, path_open, path_equity, last_trade>>
engineVars == <<engine_bar, engine_pos, engine_balance, max_balance, max_drawdown, traded,
                engine_last>>
candlesVars == <<candles_now, stored, candles_job, faults, seeded, blind, lost, seams, stale>>
delistVars == <<skipped, fails, poll, download, unknown, evidence>>
screenVars == <<workers, screener, screen_rounds, selected, refused, gone, overlap>>
tuningVars == <<live_strategy, params, tuning_job, temp, disk, crossed, raced, tuning_rounds>>
planVars == <<symbol_interval, symbol_strategy, symbol_tracks, booted, plan_job, proven, pieced>>
regimeVars == <<overrides, feedback, last_observed_regime, pending_regime, last_drift_at,
                regime_now, cycle, decided>>
schedVars == <<sched_now, mode, mode_switch_time, last_backtest, losses, paper_since>>
reloadVars == <<reload_state, updates, cancelled, history, current_version, releases,
                loaded_strategies, total_loaded, total_unloaded>>
breakerVars == <<breaker_state, total_requests, failed_requests, half_open_success_count, expired,
                 streak>>
healthVars == <<current_executor, failover, failure_count, failures, current_state,
                consecutive_healthy_checks, consecutive_critical_checks>>
mt5Vars == <<request, conn, backlog, wire, replies, dropped, closed, sock, buf, written,
             executed, answer, asked, linked>>

allVars == <<part, vars, sizeVars, acctVars, bookVars, pathVars, engineVars, candlesVars,
              delistVars, screenVars, tuningVars, planVars, regimeVars, schedVars,
              reloadVars, breakerVars, healthVars, mt5Vars>>

InitParts ==
    /\ part \in Parts
    /\ Init
    /\ Size!Init
    /\ Books!Init
    /\ Book!Init
    /\ Path!Init
    /\ Bt!Init
    /\ Candles!Init
    /\ Delist!Init
    /\ Screen!Init
    /\ Tuning!Init
    /\ Plan!Init
    /\ Regime!Init
    /\ Sched!Init
    /\ Reload!Init
    /\ Breaker!Init
    /\ Health!Init
    /\ Mt5!Init

Only(p) ==
    /\ part = p /\ UNCHANGED part
    /\ IF p = "maker" THEN TRUE ELSE UNCHANGED vars
    /\ IF p = "size" THEN TRUE ELSE UNCHANGED sizeVars
    /\ IF p = "acct" THEN TRUE ELSE UNCHANGED acctVars
    /\ IF p = "book" THEN TRUE ELSE UNCHANGED bookVars
    /\ IF p = "path" THEN TRUE ELSE UNCHANGED pathVars
    /\ IF p = "engine" THEN TRUE ELSE UNCHANGED engineVars
    /\ IF p = "candles" THEN TRUE ELSE UNCHANGED candlesVars
    /\ IF p = "delist" THEN TRUE ELSE UNCHANGED delistVars
    /\ IF p = "screen" THEN TRUE ELSE UNCHANGED screenVars
    /\ IF p = "tuning" THEN TRUE ELSE UNCHANGED tuningVars
    /\ IF p = "plan" THEN TRUE ELSE UNCHANGED planVars
    /\ IF p = "regime" THEN TRUE ELSE UNCHANGED regimeVars
    /\ IF p = "sched" THEN TRUE ELSE UNCHANGED schedVars
    /\ IF p = "reload" THEN TRUE ELSE UNCHANGED reloadVars
    /\ IF p = "breaker" THEN TRUE ELSE UNCHANGED breakerVars
    /\ IF p = "health" THEN TRUE ELSE UNCHANGED healthVars
    /\ IF p = "mt5" THEN TRUE ELSE UNCHANGED mt5Vars

NextMaker == Only("maker") /\ Next
NextSize == Only("size") /\ Size!Next
NextBooks == Only("acct") /\ Books!Next
NextBook == Only("book") /\ Book!Next
NextPath == Only("path") /\ Path!Next
NextBt == Only("engine") /\ Bt!Next
NextCandles == Only("candles") /\ Candles!Next
NextDelist == Only("delist") /\ Delist!Next
NextScreen == Only("screen") /\ Screen!Next
NextTuning == Only("tuning") /\ Tuning!Next
NextPlan == Only("plan") /\ Plan!Next
NextRegime == Only("regime") /\ Regime!Next
NextSched == Only("sched") /\ Sched!Next
NextReload == Only("reload") /\ Reload!Next
NextBreaker == Only("breaker") /\ Breaker!Next
NextHealth == Only("health") /\ Health!Next
NextMt5 == Only("mt5") /\ Mt5!Next

NextParts ==
    \/ NextMaker
    \/ NextSize
    \/ NextBooks
    \/ NextBook
    \/ NextPath
    \/ NextBt
    \/ NextCandles
    \/ NextDelist
    \/ NextScreen
    \/ NextTuning
    \/ NextPlan
    \/ NextRegime
    \/ NextSched
    \/ NextReload
    \/ NextBreaker
    \/ NextHealth
    \/ NextMt5

SpecParts ==
    /\ InitParts /\ [][NextParts]_allVars
    /\ WF_allVars(NextMaker /\ Entry)
    /\ WF_allVars(NextMaker /\ DeadlinePasses)

(* The opener is always told something: a resting order that neither fills *)
(* nor goes away is given up at the deadline (binance_executor.rs 219-223).*)
EntryAlwaysReturns == part = "maker" => EntryReturns

\* Type correctness of every part.
TypesCorrect ==
    /\ TypeOK
    /\ Size!TypeOK
    /\ Books!TypeOK
    /\ Book!TypeOK
    /\ Path!TypeOK
    /\ Bt!TypeOK
    /\ Candles!TypeOK
    /\ Delist!TypeOK
    /\ Screen!TypeOK
    /\ Tuning!TypeOK
    /\ Plan!TypeOK
    /\ Regime!TypeOK
    /\ Sched!TypeOK
    /\ Reload!TypeOK
    /\ Breaker!TypeOK
    /\ Health!TypeOK
    /\ Mt5!TypeOK

=============================================================================
