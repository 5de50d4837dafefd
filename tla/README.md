# Verification of the trading robot

TLA+ models, TLC checks and TLAPS proofs for `memos_trading_core`: how the live
engine opens, sizes, closes, records and recovers positions while several tasks,
a WebSocket handler and a background sync work on the same state and on the same
exchange account, and how the jobs, books, managers and simulators around it
keep what they decide consistent with what they read. Paths below are relative
to `src/memos_trading_core/src/robot/` unless they say otherwise.

    tlc -workers 2 -config LiveCaps.cfg MCLiveTrading.tla     # one run
    tlc -workers 2 -config Components.cfg MCComponents.tla    # the smaller components
    tlapm LiveTrading_proofs.tla                              # one proof module

## 1. The system and its parts

The repository is a trading robot: fetchers and screeners choose symbols and
fill a candle database, jobs back-test and tune strategies, and the *master
engine* (`engines/master/`) trades, on paper or through the Binance client. All
state lives in one `AppState` behind `Arc<Mutex<_>>`; its maps have locks of
their own. No lock is held across an `.await`, so each function that talks to
the exchange is a sequence of critical sections with calls in between. That is
where everything hard in this program happens.

| Part | State it keeps | Operations | Interacts with | Hard because |
|---|---|---|---|---|
| position lifecycle (`master/positions.rs`, `positions_close.rs`) | `live_positions`, `live_orders`, `pending_open_long/short`, closed trades, `last_close_at`, `live_block_until` | `open_paper_position`, `close_paper_position`, breaker | exchange client, persistence | map read before an await and written after it; several closers; a counter with a dozen exits |
| trade cycle (`master/loop_core.rs`) | join handles, tuning snapshot | `execute_trade_cycle`, `process_symbol_cycle` | spawns one task per symbol, after the baskets | tasks run in parallel and are all joined |
| user-data stream (`master/userdata.rs`, `fleet_sync.rs`) | listen key, socket | `process_user_fill_status`, reconnect | closes positions | events lost on reconnect, early or late fills |
| protection sync (`master/infra_fleet.rs`, task 6) | snapshot of open positions | every 30 s: compare open orders | closes positions | acts on a snapshot, infers "triggered" from a count |
| persistence (`master/persistence.rs`, `../persistence/writer.rs`, `reader.rs`) | SQLite rows `open_positions_snapshot`, `account_state` | detached writes, hydrate, reconcile, delisting purge | boot, lifecycle | crash between steps, writes out of order, ignored errors |
| exchange client (`engines/binance_executor.rs`) | none beyond filters | orders, cancel, close, maker entry loop | exchange | errors after effect, partial fills, ignored results |
| basket books (`master/book_core.rs`, `xs_live.rs`, `carry_live.rs`, `blend_live.rs`, `backtester/xs_momentum.rs`) | last rebalance bar, breaker time, the legs in `live_positions` | choose, force flat, rebalance | opens and closes legs | several steps per rebalance, leg failures, hysteresis at the edges |
| balance sync (`master/fleet_sync.rs`) | mismatch counter, `equity` | compare, repair | everything that books | the balance is as old as its answer |
| graded entry (`master/graded_entry.rs`) | `graded_tranches`, quantity in the position | decide and add a tranche | closers, partial fills, purge | decided in one critical section, done in another |
| exit rules (`master/positions_close.rs`, `backtester/live_path.rs`, `backtest_engine.rs`) | stop, trail, break-even of a position | judge one candle | cycle, replay, simulation | order of the rules on one candle; two implementations |
| candle download (`master/jobs_download.rs`, `data_fetcher/binance.rs`, `../persistence/writer.rs`) | stored candles | latest, backfill, write | every reader of candles | paths meeting at a page, overlapping jobs, failed writes |
| delisting watch (`master/infra_fleet.rs`, `jobs_download.rs`) | failure counters | poll, count, purge | screener, positions | one counter, several pollers |
| screener (`master/jobs_screener.rs`, `../screener/score.rs`, `state/symbol_orchestrator.rs`) | the pool of workers | select, apply | cycle, purge | minutes between reading and writing |
| tuning jobs (`master/jobs.rs`, `jobs_backtest.rs`) | strategy, parameters, sealed file | search, apply, seal | cycle | no mutual exclusion, one temporary file |
| plan and patches (`parameters/store.rs`, `master/edge_regime.rs`, `backtester/walk_forward.rs`) | interval and strategy per symbol, patch per regime | seed, evaluate, observe, tighten | cycle, jobs | look and install in two locks; a score that is outlived |
| MetaTrader bridge (`venue/mt5/`, `../../../scripts/mt5/`) | one connection | request, accept | terminal | late answers, cut lines, restarts |
| scheduler (`backtester/backtest_scheduler.rs`) | mode and its time | result, trade outcome | caller | paper time counted anew |
| hot reload (`hot_reload/`) | update, versions, loaded strategies | start, test, switch, complete, roll back, cancel | caller | calls in any order |
| error recovery (`error_recovery/`) | breaker, failover, health state | report success or failure, check | callers | counts carried across states |
| risk, safety, strategies, indicators, ML, portfolio, reports, UI | own data | pure or I/O | feed or show the cycle | not concurrent |

For each part, the properties that make it correct:

* lifecycle: parallel openings respect the cap; reservations are never leaked
  or dropped twice; no record overwrites another; each recorded position is
  archived exactly once whoever closes it; order ids do not outlive their
  position; what a close sells is what it removed.
* cycle: all tasks come to rest, again and again.
* stream and sync: a position whose protection has triggered is closed even if
  every stream event is lost; nothing else is closed by the sync.
* persistence: after any crash the engine records, or at least reports, every
  position the exchange holds, counts no trade twice and drops no record on a
  failed query; the last snapshot is the last state.
* exchange client: an entry told "filled" was bought, once; it leaves no order
  behind; it always returns.
* size: a position is made of its own tranches, each once; nobody who read it
  before a close puts it back.
* accounting: at rest the equity is the exchange's wallet, whoever booked what in
  between.
* books: unchanged ranks trade nothing; no churn inside the cadence; a brake
  leaves no leg but one without candles.
* exits: no trade gives up more than its first stop; a position at break-even
  does not lose; a simulated position is sold once.
* jobs: no hole in the candles without a failure; no purge without the
  exchange's word; a selection, a tuning, a patch or a plan in force is the one
  that was made for what is in force beside it, or two jobs overlapped.
* managers: an executor, breaker, update or paper period is judged by its own
  events and not by those of the one before.
* bridge: an answer is the answer to its own request, and the terminal executes
  requests in the order they were made, late ones included.

`PROJECT.json` lists every component with its status and, under `hazards`,
each place in the code where something of this can go wrong and the property
that watches it.

## 2. Modules

| Module | Models | Checked by | Proved in |
|---|---|---|---|
| `PositionLedger` | abstract specification: recording below the cap, taking, settling | (refined by `LiveTrading`) | `LiveTrading_proofs` |
| `PositionLife` | abstract specification: where the position of each opening is, from the map to the archive | (refined by `PositionSize`) | `PositionParts_proofs` |
| `RequestService` | abstract specification: requests sent, carried out and answered | (refined by `Mt5Bridge`) | `ManagerParts_proofs` |
| `LiveTrading` | lifecycle, cycle, stream handler, sync, purge, breaker | `live_*` runs | `LiveTrading_proofs` |
| `Recovery` | snapshots, account row, detached writers, boot, reconciliation, crashes | `recovery_*` runs | `Recovery_proofs` |
| `MakerEntry` | maker entry loop, its dispatch and market fallback | `maker_*` runs | `MakerEntry_proofs` |
| `PositionSize` | quantity of a position: opener, tranches, partial fills, closers, purge | `maker_entry` (part `size`), `fill_claim` | `PositionParts_proofs` |
| `BookCore` | one evaluation of a basket book and its legs | part `book` | `ExitParts_proofs` |
| `LivePath` | the exit rules on candles, live and in the replay | part `path` | `ExitParts_proofs` |
| `BacktestEngine` | the simulated engine's position | part `engine` | `ExitParts_proofs` |
| `BacktestScheduler` | paper, live, disabled | part `sched` | `ManagerParts_proofs` |
| `CircuitBreaker`, `FailoverManager` | error recovery | parts `breaker`, `health` | `ManagerParts_proofs` |
| `CandleDownload` | stored candles of one series | part `candles` | `JobParts_proofs` |
| `DelistWatch` | failure counter and purge decision | part `delist` | `JobParts_proofs` |
| `Screener` | pool of symbols | part `screen` | `JobParts_proofs` |
| `TuningJobs` | strategy, parameters and the sealed file | part `tuning` | `JobParts_proofs` |
| `SymbolPlan` | interval and strategy of a symbol | part `plan` | `ManagerParts_proofs` |
| `RegimePatches` | regime patches, drift, trade feedback | part `regime` | `ManagerParts_proofs` |
| `EquityBook` | equity and wallet through fills, closes, purge and balance sync | part `acct` | `PositionParts_proofs` |
| `HotReload` | update, versions, loaded strategies | part `reload` | `ManagerParts_proofs` |
| `Mt5Bridge` | line protocol and both its ends | part `mt5` | `ManagerParts_proofs` |
| `PositionParts`, `ExitParts`, `JobParts`, `ManagerParts` | the components of each kind, with constants and variables of their own, and their properties | `maker_entry` | their `_proofs` |
| `MCLiveTrading`, `MCRecovery`, `MCMakerEntry`, `MCComponents` | instances: sets of symbols, symmetry, parts | | `Components_proofs` (of `MCComponents`) |

`LiveTrading`, `PositionSize`, `MakerEntry` and `Recovery` look at the same
functions at different depths. `LiveTrading` interleaves the *actors* and takes
the entry order as one step and every position as one unit; `MakerEntry` opens
the entry up for one actor; `PositionSize` follows the quantity of one symbol;
`Recovery` keeps one actor per symbol and cuts its handlers where a crash can
fall. `PROJECT.json` maps every definition to its lines.

`MCComponents` checks the components that interact with the engine only through
what they leave behind. Four modules instantiate them, with parameters and
variables that carry the part's name where two parts use the same one:
`PositionParts` (`PositionSize`, `EquityBook`), `ExitParts` (`BookCore`,
`LivePath`, `BacktestEngine`), `JobParts` (the four jobs) and `ManagerParts`
(`SymbolPlan`, `RegimePatches`, `BacktestScheduler`, `HotReload`, `CircuitBreaker`,
`FailoverManager`, `Mt5Bridge`). They leave every
parameter open and assume of it what its component does; they name the
components' properties, so the theorems of their `_proofs` modules and the run
`maker_entry` state the same definitions. `MCComponents` extends the four, and a
variable `part`, chosen initially, says whose steps a behaviour takes; the variables of the
others stay as they began. Its state space is thus the sum of the parts', and
an invariant of a part is checked in the states of that part. The components
are not composed by it: where one reads what another wrote, the reader's module
takes any value the writer may have left.

### LiveTrading

`pc[a]` names the next stretch of code, between two releases of the state lock,
that actor `a` will run. The actors are the engine's task for each symbol, `Ws`
(the stream task) and `Psync` (the sync task). `open_paper_position` is

    OpenAttempt -> GateAdmit/GateRefuse -> PassBlock -> EntryFilled/EntryBlocked
      -> Protect -> SealRefs -> Insert -> OpenReturns        (GiveUp on the way)

and `close_paper_position`, for any of the three kinds of actor,

    Remove -> ReadRefs -> Cancel -> Unref -> Query -> MarketClose -> Archive

`OpenSlotGuard::drop` is `Release`, conjoined to every action in which the
opener returns. `purge_delisted_symbol` is one critical section and one action,
`Delist`. The exchange is three variables: the signed position, the open
protection orders, and the fill events not yet delivered; it triggers orders
(`Trigger`), loses events (`LoseFills`) and refuses calls.

Abstractions, each of them an over-approximation of the code unless noted:
positions have unit quantity, and prices, sizing, commissions and PnL are left
out; signals, filters, risk decisions and exit conditions are nondeterministic;
`claim_signal_bar` (one action per bar and symbol) is not modelled, so the
model may try more often than the code; SL and TP are placed in one step (the
code makes two calls, and the model's position between them is the one before
both); basket symbols may open and close in any order between two rounds of
tasks; the maker loop is one step; tranches of graded entries and partial fills
are in `PositionSize` instead (here a position has one size).

### Recovery

`phase` walks through the boot order of `run_autonomous_loop`: `Hydrate`,
`QueryAnswered`/`QueryFails`, `Reconcile`, `HydrateAccount`, then "run".
Handlers are `Enter, Insert` and `Take, Sell, Archive`, both followed by
`PersistPositions, PersistAccount`. A persist call only hands a copy of the
data to a detached task (`position_writes`, `account_writes`);
`WritePositions` and `WriteAccount` write *some* pending copy, as
`DB_PERSIST_LOCK` gives no order, and may fail without anyone noticing.
`Crash` may come between any two steps and takes the pending writes with it.
`ExchangeReduces` is a protection order or the operator, at any time, also
while the engine is down.

Left out: several closers of one symbol (that is `LiveTrading`), direction and
entry price in `mismatched`, the delisting purge, symbol statuses.

### MakerEntry

One entry. `stage` is the next call; each action is one call with its answer.
A failed call may or may not have taken effect (`PlaceFails`, `MarketFails`),
`PollFails` is the `?` on `get_order_status`, and `Cancel` ignores its answer.
The exchange fills resting orders unit by unit, cancels them, or leaves them.
Left out: prices and spread (a quote may be missing at any attempt), a response
without `orderId`, an immediate FILLED answer to a post-only order (the model's
order may be filled before the first poll instead).

### PositionSize

One generic symbol. `position` is its record, with the opening it belongs to and
the list of its tranches; `graded` is the second map, `graded_tranches`, which
only the end of a close clears. The task opens (`BeginOpening`, `EntryFills`,
`Insert`), decides a tranche (`Decide`, which reads both maps and lets go) and
adds it (`AddTranche`, which looks only whether the symbol is there and on the
same side). The stream handler reads a partial fill and applies it in two
critical sections (`ReadPartial`, `ApplyPartial`); two closers take the record
out, sell, and archive. The exchange reports an order at once or in parts.

### BookCore

`Evaluate` is `process_book` up to its plan: candles that are too old are not
ranked (`Fresh`), the ranking is any order, `SelectBooks` keeps and fills both
sides as `select_books` does, then breaker, take-profit, cooldown and regime
gate may empty the target, then the cadence gate. `CloseLeg` and `OpenLeg`
perform the plan one leg at a time and may fail; `OtherCloses` is anybody else.

### LivePath and BacktestEngine

The two sets of exit rules of the repository, each on all candles over a few
prices. `CheckExit` of `LivePath` is `check_exit_conditions_ohlc` with its four
rules in their order, and `Bar` the replay's loop around it; the live engine
calls the same function with one price. `Manage` of `BacktestEngine` is the body
of `Backtester::run`, with the half position sold on the way.

### CandleDownload, DelistWatch, Screener, TuningJobs

Each is one kind of background job, several of which may run at once because the
fleet starts them by flags and does not wait (`infra_fleet.rs:326`). A job's
record holds what it has read; every stretch under a lock, every request and
every write is an action, and `Stop`/`Restart` loses the jobs and keeps what is
on disk. `CandleDownload` counts time in bars and abstracts a page of 1000 to
`Page`; its base limit is at least three bars (the code's floor is fifty,
`jobs_download.rs:60`) and its overlap at least two (five in the code); `DelistWatch` the answers of the exchange to four kinds; `Screener`
scores to an order; `TuningJobs` the search to any result for the strategy read.

### SymbolPlan and RegimePatches

`SymbolPlan` follows one symbol's interval and strategy from the seed at boot
(`Boot`) through back-test jobs that read (`Begin`), score (`Evaluate`, any
scores) and write (`Write`); `Traded` is what the cycle reads. A job reads the
candles of each candidate frame and then, anew, those of the frame it scores the
strategies on: the second read may fail whatever the first gave, the strategy is
then kept and the frame written. `proven` and `pieced` are history, for the
property: what passed where when last scored, and whether the plan in force is
other than one job's whole decision. `RegimePatches` is the regime half of the
parameter store: the check and the installation of the default patch are two actions (`EnsureCheck`, `EnsureInstall`), drift
confirmation counts sightings and waits out its cooldown, losing trades tighten.

### EquityBook

One position bought, sold in part, closed and archived beside what the same
sales do to the wallet. `ReadPartial` and `ApplyPartial` are the two locks of
`process_partial_fill`; a closer is the sequence `Taken`, `Cancel`,
`MarketClose`, `Archive`; `BalanceAnswered`, `Compare` and `Autofix` are the
balance sync between its await and its second lock. The history variable
`disturbed` records what the books cannot see.

### Mt5Bridge

Both ends of one text protocol: callers queue for the connection lock, write a
line and read a line with a timeout each; the expert advisor connects anew on
each timer tick, reads what the socket has, executes whole lines and answers.
Lines may be cut by the socket and read in two pieces; either end may drop.

### Error recovery, BacktestScheduler, HotReload

Sequential objects driven by calls in any order; each public operation that
changes state is an action, except adding metrics and changing limits.

## 3. Runs

| Run | Instance | Properties | States | Shows |
|---|---|---|---|---|
| `live_caps` | 2 task symbols, 1 basket symbol, cap 1, long-only spot | `TypeOK CapRespected PendingExact` | 2.4 million | the race for the cap with a basket position counting against it |
| `live_reopen` | 1 symbol, 2 openings, calls may fail | `LedgerBalanced RefsOwned ImplementsLedger` | 1.7 million | closers racing each other and a reopening; refinement |
| `live_fair` | 1 symbol, both directions, 2 tracks, delisting, cooldown, breaker | `SyncBacksUpStream CycleReturns` | 112 thousand | liveness under fairness |
| `recovery_live` | 2 symbols, 2 entries, 2 crashes, all failures on | `TypeOK NoSilentOrphan NeverOvercounted BootSparesHeld` | 490 thousand | restart and reconciliation |
| `maker_entry` | all parts of `MCComponents`; the entry with 3 attempts, 3 units, failing calls, fallback on | 28: `TypesCorrect` and those below | 628 thousand | the components one by one |

Why the bounds are enough. The cap race needs two openers and one slot; the
basket adds the symbol that is counted but not bound. A stale close needs one
position closed and one opened after it, hence two openings of one symbol; ids
carry the number of the opening, so a leak would show. Three closers (task,
stream, sync) exist in every instance. In `Recovery`, a stale snapshot needs two
writes of one symbol, a double count two boots, and the second symbol gives
snapshots that are right about one position and wrong about the other. In
`MakerEntry`, three attempts give a first, a middle and a last one, and three
units a partial fill that is neither empty nor complete.

The parts of `maker_entry` and what they check:

| Part | Instance | Properties |
|---|---|---|
| `maker` | 3 attempts, 3 units, failing calls | `RecordedIsBought StrayNeedsFailure EntryAlwaysReturns` |
| `size` | 2 tranches, 2 openings, partial reports | `OwnTranchesInOrder PositionsMoveOn StateHasOwner` |
| `book` | 4 symbols, 1 leg a side, buffer 1, cadence 2 of 3 bars | `TargetIsStable ChurnNeedsBars FlatButStale` |
| `path` | prices 1 to 5, 4 bars, trail 0 to 2, break-even at 1 risk | `LossIsBounded ArmedNeverLoses` |
| `engine` | prices 3 to 6, 3 bars, half positions, slippage up to 1 | `SoldOnce BreakevenHolds` |
| `breaker` | opens at 2 failures and half, closes after 3 successes | `ClosesOnlyTested` |
| `health` | 3 failures, 3 and 2 checks, metrics of 0.2, 0.6 and 1 | `GivenUpForItsOwn` |
| `candles` | page of 3 bars, first job at bar 2, 6 bars of time, 2 jobs, 1 fault, bar 4 unusable | `HolesNeedFailure PartialOnlyAtSeams` |
| `delist` | threshold 3, poll and 2 downloads | `PurgeNeedsWord` |
| `screen` | 4 candidates, 1 pinned, 2 to select, pool of 3, 2 jobs | `SelectionInForce` |
| `tuning` | 2 strategies, 2 jobs of either kind | `TunedForStrategy SealedIsWhole` |
| `plan` | 2 frames, 2 strategies, 2 jobs, scores to 2, 2 seeds | `EdgeIsProven` |
| `regime` | 2 symbols, 2 regimes, one with a default | `JobPatchKept` |
| `reload` | 2 versions, 3 releases, history of 2, 2 strategies | its counters, in `TypesCorrect` |
| `acct` | 1 position of 2 units, prices 2 and 4, fills 1 beside the entry, repair at the 2nd mismatch, balances misread | `EquityIsWallet` |
| `sched` | paper time 2, 2 losses, 12 ticks | `PaperFirst` |
| `mt5` | 2 callers, 3 requests, 3 connections | `ServesRequests ExecutedInOrder` |

Two jobs are the fewest that can overlap and two callers the fewest that can
cross answers; three requests let a third one meet the late answer of a first
that a second has already outlived. Four symbols with one leg a side and a buffer
of one give the buffer a symbol that is neither kept nor chosen. A page of three
bars has a gap below, at and above it within six bars. The prices leave the stop,
the break-even, the trail and the target room on either side of the entry.

Where a property has an exception, it is what the code does not
prevent, and the property confines it: `SelectionInForce`, `TunedForStrategy`, `SealedIsWhole` and
`EdgeIsProven` except runs in which two jobs overlapped, the last also a
time frame whose candles could not be read a second time (until the next job that
scores), `EquityIsWallet` those in which a fill overtook a close, an entry was reported in parts, a protection order
filled beside the trailing stop, a position was purged, or a repair came in
between, `HolesNeedFailure` (with the backfill enabled,
and from the bar recorded first) and
`PartialOnlyAtSeams` a failed read or write and gaps of exactly a page. That the
exceptions do happen was seen by dropping them, each of which TLC then violates.

Deadlock is checked in the `live_*` runs that hold. The `recovery_*` runs stop when the bound
on entries and crashes is used up, and a maker entry and most parts end by
themselves or at their bound; there it is switched off.

Symmetry is used over task symbols in the runs without temporal properties (an
action property is checked state by state, and `recovery_live` has only that).

### Runs that show a disagreement

Each checks one sentence of the repository that the code does not keep;
the findings in `PROJECT.json` quote the line.

| Run | Sentence | What happens |
|---|---|---|
| `live_sync_claim` | fewer than two open orders means SL or TP has triggered | an SL refused at opening leaves one order; the next sync closes a healthy position |
| `live_reopen_claim` | removing the record first keeps close-then-reopen sound | the reopened position is sold by the older close |
| `live_spot_claim` | the bot-side exit really sells | on spot `close_position` finds no amount and the coins stay |
| `live_block_claim` | an order that passes *after* the block expired lifts it | an order sent before the block was set lifts it at once |
| `recovery_claim` | after a close the snapshot says so | the writer of the opening runs last |
| `fill_claim` | a partial fill of an entry aligns the quantity with what is held | the whole quantity is recorded first; the partial report sets it back and the last report is dropped |
| `maker_claim` | an order not filled in time is cancelled and quoted again | one filled in part, or while being cancelled, is quoted again in full |

## 4. Fairness

`live_fair`: tokio runs every task that is ready, so each actor's own steps are
weakly fair, as is the start of the next round of tasks. Openings, exits the
engine may or may not decide on, triggers, failures, delistings and the passing
of time are not fair. Two strong fairness conditions stand for the environment:
`Psync`'s query is answered, and the candles a closer needs are readable,
infinitely often if asked for infinitely often; without them an exchange or a
database down for good falsifies anything. A weakly fair call also means that
it returns. The HTTP client is built without a timeout
(`binance_executor.rs:42`), so this is an assumption on the network, which the
code makes too ("timeout yok — her biri kısa", `loop_core.rs:286`).

`maker_entry`, part `maker` (no other part states fairness or a liveness
property): calls are answered or fail, and the deadline passes; no fairness
is asked of the exchange's matching, and no poll has to fail (`PollFails` is
outside the fair action), so it is the deadline that ends a resting order.

## 5. Proofs

All proofs are for arbitrary sets of symbols, jobs, regimes, tuning values and
bounds, from named assumptions on constants that TLC evaluates in the runs:
`SymbolAssumption`, `TuningAssumption`, `RecoveryAssumption` and `MakerAssumption` in
the modules that declare the constants, and for the parts the `...Assumption` of
each component, assumed of the part's constants in the module that instantiates
it. Every safety property of the passing runs, every action property and every
refinement has a theorem; what is left to TLC is liveness.

**Cap and reservations** (`LiveTrading_proofs`). `CapRespected` is not inductive:
the gate compares the cap with a *counter*, while the property counts symbols.
The inductive invariant is

    IInv == TypeOK /\ StageDiscipline /\ PendingExact /\ CapRespected /\ LedgerBalanced

`StageDiscipline` says what a stage implies for the opener's guard, direction
and order ids and for a closer's removed position; `PendingExact` makes the
counter the number of guards; with it, `GateAdmit` sees at least as many
positions as `Exposure` counts, and `Insert` only moves a symbol from one side
of the union to the other. `LedgerBalanced` needs from `StageDiscipline` that a
task's `Insert` finds no record of its own symbol, that is, that the gate's
look at the map is still right several awaits later: nobody else opens that
symbol.

**Order ids** (`LiveTrading_proofs`). `RefsOwned` is inductive over `TypeOK`: ids
are recorded by an opener whose next stretch inserts the position, and whoever
takes the position out still has `Unref` before it.

**Refinement** (`LiveTrading_proofs`). Under `held <- live_positions`,
`unsettled <- number of closers holding a removed position`, `archived <-
closed_trades`, the engine implements `PositionLedger`: initial states map to
initial states, and each step to recording below the cap, taking, settling, the
purge's take-and-settle, or a stutter.

**Restart** (`Recovery_proofs`). `RInv` says where an exchange position is
accounted for in each phase of the boot and each stage of a handler;
`NoSilentOrphan` and `BootSparesHeld` follow. `NeverOvercounted` needs more: for
*every* total the next boot could read (the counter, the row, any pending
write), that total plus the symbols that may still be counted stays within the
entries (`Counted`). It assumes `Live`: on paper nothing is reconciled, and a
stale snapshot does count a trade twice.

**Maker entry** (`MakerEntry_proofs`). The invariant adds that an order's state
matches its fills and that attempts to come have no order.

**Size** (`PositionParts_proofs`). `OwnTranchesInOrder` speaks of the record alone, but
a tranche is decided on two maps and added later. `IInv` adds `Fresh` (an opening's number
is new when it is inserted), `Decided` (a graded state, and the copy a decision
has taken, counts the tranches of the record beside it, whichever that is by
then) and `Separate` (no two of record, closers and archive hold one opening).
`Decided` is what makes the missing re-check in `AddTranche` harmless: between
decision and addition only the same task could open anew.

**One life** (`PositionParts_proofs`). `PositionSize` also implements `PositionLife`.
The mapping reads the places of an opening off the detailed state (`Where`): the
map, a closer's hands, the archive, each if it holds a record of that opening.
Four steps move an opening, each by a lemma of its own: `Insert` records
(`InsertRecords`; by `Fresh` the number is above every number in use),
a removal takes (`RemovalTakes`), `Archive` settles and the purge writes off.
All others are stutters: an addition and a partial fill replace a record by one
of the same id. `Separate` gives that a record that moves is nowhere else, and
the invariant added for the refinement, `EmptyHands` (a closer that is not closing
holds nothing), that a removal overwrites nobody's record. `RecordedOnce`
(`TradedOnce`) is weaker: it would allow a position to go back from a closer to
the map.

**Delisting** (`JobParts_proofs`). `CountedHeard`: the shared counter exceeds the
unknown-symbol answers heard since candles last came by at most the one that the
poll had heard before a success and counts after it, and not at all while such an
answer is still to be counted.

**Patches** (`ManagerParts_proofs`). `NoneAboutToInstall`: no cycle is about to
install a default for a regime the job has decided on. A cycle decides to install only where
there is no patch, and a decision written while a cycle is about to overwrite
it is not counted, which is the exception the property names.

**Plan** (`ManagerParts_proofs`). What each job in flight is going to write is sound
against the scores it made, given what is in force, and so is what is in force
against the scores it came from. A writer that was overtaken, or that brings a
time frame on which it scored no strategy, sets `pieced`, and the theorem says
nothing until a job that scored, and that nobody overtook, has written.

**Scheduler** (`ManagerParts_proofs`). The time stored with the paper mode is that of
the last switch to it.

**Equity** (`PositionParts_proofs`). `EquityIsWallet` only speaks of moments at which
nothing is in flight; the invariant has to say what is in flight. `Leads` reads
the queue of fill events as a path: handling them one after the other takes the
books from what they are to what the wallet and the exchange already have. Each
exchange step appends one event to that path, each critical section of the
stream handler takes one off its front (the event it has read and not applied
still counts), and a closer's record (`ClosingBooks`) stands for the booking to
come. `Apart` (opening, held or in one closer's hands, never two) and `InTurn`
(a fill of the whole order is the last event) make that path well defined. All
of it is conditional on `~disturbed`, whose setters are the exceptions.

**Basket** (`ExitParts_proofs`). `TargetIsStable` is a fact about one operator: a
symbol kept was among the first `k + buffer`, the places left are filled from
the same end, so choosing again keeps exactly what was chosen (`FirstBy` takes
the first by rank, and the lemmas count them). `ChurnNeedsBars` needs `Dated`: a
leg was opened no later than the last bar the book was evaluated on.
`FlatButStale` needs `Emptied`: a book that is to be empty has no leg to open,
and each leg it can judge is closed or about to be.

**Exits** (`ExitParts_proofs`). `SoundStop` says that a position's stop is positive,
no further away than it was placed, and at the entry once break-even is armed.
Every way out of `CheckExit`, and the close of a candle with no exit, is at a
price no worse than the stop, since the stop is looked at first. In the
simulated engine, `Owned` ties the quantity left and the quantity sold to the
partial flag, so a second partial sale would be seen.

**Candles** (`JobParts_proofs`). `Reaches` says of every job in flight that what it
will fetch, or has still to write, begins no higher than the first bar not
accounted for; `Renews` says the same of bars recorded while they were forming;
`InTime` that at most one bar closes while a job is in flight, so two first
downloads begin a bar apart at most. The proof attempt corrected the model
twice. `HolesNeedFailure` used to speak of every bar below the newest, which
held by the bounds of the run only: a first download that is stopped after one
bar, and a later one that reaches its overlap below that bar, leave a hole at
the foot, as does any gap beyond a page with the backfill switched off. It now
begins at the bar recorded first (`seeded`) and supposes the backfill. And a bar
that an earlier job sets back to partial stays `stale` until it is written as
final, not until it is written.

**Screener and tuning** (`JobParts_proofs`). `Paired`: of two jobs in flight both
know that they are not alone. A screener that is alone finds the pool it read
without what was purged since (`UnseenIsPurged`), so applying its difference
leaves what it chose. A search that is alone is applied to the strategy it was
made for (`SearchHolds`); a sealer that is alone owns the temporary name and
renames it after its last write (`SealedAlone`).

**Breaker and failover** (`ManagerParts_proofs`). An open circuit has accepted
nothing and a half-open one counts exactly the successes since
(`TestsCounted`); the failover's count is the current executor's failures in a
row (`CountIsOwn`), since each switch resets both.

**Bridge** (`ManagerParts_proofs`). One caller holds the connection (`Alone`). What
is on a connection, in either direction or half read, belongs to the request
its holder waits for; a connection that is free or not yet accepted is empty
(`Clean`, `OneAtATime`), because every failure path leaves the connection. So
`AnswerIsOwn` needs no identifier in the answer. `Ordered`: what the advisor has
carried out, followed by what it can still read on its connection, is in the
order of writing, as it reads connections one after the other.

The bridge implements `RequestService` under `sent <- written`. `SInv` adds to the
invariant what a request's state says of its answer: it is written once
(`Distinct`), has no answer before it is written (`Unanswered`), one that was
written is either awaited by the caller that holds the connection or was told
its outcome (`AwaitedOrTold`), and what is to be read was carried out before
(`RepliesAfter`). `Write` then sends and finds all earlier requests settled, `HandleRequest`
executes (in order, by `Ordered`), `Read` answers, a timeout or a dropped
connection fails. Everything the advisor does to its sockets is a stutter.
The service promises that a request is carried out at most once and not that it
is not carried out after it has failed, since the bridge cannot.

**All components** (`Components_proofs`). The run `maker_entry` takes the steps of one
component and leaves the others alone. `StepsApart` says so of `NextParts` for
each component at once; with it the whole implements each component's
specification (`SizeInWhole` to `Mt5InWhole`), and the theorems of the components carry
over: `AllTypesCorrect` and `WholeIsCorrect` state what the run checks, but for
`EntryAlwaysReturns`, for all constants that meet the components' assumptions. They say nothing of how the components affect one
another, which is the subject of `LiveTrading` and `Recovery`.

**Reload** (`ManagerParts_proofs`). Every call that ends an update books it once.

| Theorem | Module |
|---|---|
| `TypeCorrect`, `PendingIsExact`, `CapIsRespected`, `BooksBalance`, `RefsAreOwned`, `EngineImplementsLedger` | `LiveTrading_proofs` |
| `RecoveryTypeCorrect`, `NoOrphanIsSilent`, `BootSpares`, `LiveNeverOvercounts` | `Recovery_proofs` |
| `EntryTypeCorrect`, `EnteredIsBought`, `NoStrayOrder` | `MakerEntry_proofs` |
| `SizeTypeCorrect`, `OwnTranches`, `TradedOnce`, `GradedStateIsOwned`, `SizeImplementsLife`; `BooksTypeCorrect`, `EquityFollowsWallet` | `PositionParts_proofs` |
| `BookTypeCorrect`, `TargetRests`, `LegsAreHeld`, `FlatIsFlat`; `PathTypeCorrect`, `StopBoundsLoss`, `BreakevenNeverLoses`; `EngineTypeCorrect`, `PartsSoldOnce`, `BreakevenIsKept` | `ExitParts_proofs` |
| `CandlesTypeCorrect`, `HolesAreExplained`, `PartialsAreExplained`; `WatchTypeCorrect`, `PurgedOnItsWord`; `PoolIsBounded`, `PoolIsSelection`; `TuningTypeCorrect`, `TunedTogether`, `SealsAreWhole` | `JobParts_proofs` |
| `PlanTypeCorrect`, `EdgeProven`; `RegimeTypeCorrect`, `JobDecides`; `SchedulerTypeCorrect`, `PaperComesFirst`; `ReloadTypeCorrect`, `HistoryIsBounded`; `BreakerTypeCorrect`, `ClosedWhenTested`; `HealthTypeCorrect`, `FailoverIsEarned`; `BridgeTypeCorrect`, `OwnAnswers`, `OrdersInOrder`, `BridgeIsService` | `ManagerParts_proofs` |
| `AllTypesCorrect`, `WholeIsCorrect` | `Components_proofs` |

Only model-checked: the liveness properties `SyncBacksUpStream`, `CycleReturns`
and `EntryAlwaysReturns`, as the prover does not treat fairness and ENABLED. The
sentences of section 3 that the code does not keep
are refuted by TLC's counterexamples.

## 6. Plan

The order is by importance: what can lose or double a position first, then what
sizes it, then what chooses it.

1. `LiveTrading` with `PositionLedger`, `Recovery`, `MakerEntry`: written,
   checked, proved.
2. `PositionSize` with `PositionLife`: written, checked, proved.
3. `BookCore`, `LivePath`, `BacktestEngine`, `EquityBook`: written, checked,
   proved.
4. Jobs, parameters and managers: written, checked, proved.
5. `Mt5Bridge` with `RequestService`: written, checked, proved.

Still wanted: the basket part of `LiveTrading` refined by `BookCore`; `MakerEntry`
against an abstract entry; liveness of the jobs, whose flags are cleared only by
the job itself; the order-book simulator and the paper executor; the scalp/swing
tuner and the trail feedback.

Seen while modelling, and not stated as properties, because no sentence of the
repository says otherwise:

* the purge of a delisted symbol leaves its `live_orders` entry, and may run
  while an opener awaits the exchange, which then records a position that no
  cycle visits any more (`persistence.rs:522`);
* an expired block admits every parallel task, not one probe (`positions.rs:971`);
* a market entry whose response is lost is taken for refused (`positions.rs:697`);
* a tranche of a graded entry is added to the record without an order and
  without its commission (`graded_entry.rs:173-212`), and the protection orders
  keep the first tranche's size;
* an `Open` circuit leaves that state only when a success is reported
  (`circuit_breaker.rs:123`), and `sliding_window_secs` is never read;
* a base limit above 1000 panics in `clamp` (`jobs_download.rs:392`), and a
  candle whose write failed is never fetched again;
* a job whose second read of the candles fails or comes back short writes the new
  time frame and keeps the strategy, which was not scored on it
  (`jobs_backtest.rs:425-427`, written at 515); `EdgeIsProven` exempts it;
* the screener adds before it removes, so a full pool refuses a better symbol
  until the next job (`jobs_screener.rs:173`);
* a request to the terminal that is dropped by its caller leaves its answer for
  the next one, since the ids of answers are not compared (`bridge.rs:101`);
* the simulated engine forgets a position still open at the last candle;
* a drift drops the direction policy and target trail of a job's patch
  (`parameters/store.rs:952`), and one pending regime serves all symbols;
* a protection order that filled is booked at the trailing stop, the take-profit
  too (`userdata.rs:345` closes with `TrailingStop`), and only the balance sync
  puts that right, which never repairs an equity of zero or below
  (`fleet_sync.rs:48`) and takes a balance it cannot parse for zero
  (`binance_executor.rs:377`);
* an entry reported in parts pays its commission twice (`userdata.rs:185`,
  `positions.rs:892`), and the net profit of a trade closed in parts counts the
  last part only;
* a step of zero never ends the walk-forward windows (`walk_forward.rs:111`);
* healthy checks counted before a degradation shorten the recovery from it
  (`recovery_state.rs:122`).

## 7. Not modelled

The map covers about a fifteenth of the repository's lines, and most of the rest
has nothing for a state machine to say:

* the previous program in one file (`_legacy_examples/main_v1.rs`, 18 thousand
  lines) and the other legacy examples, which no target builds;
* strategies, indicators, regime classification, machine learning, metrics,
  edge scans and walk-forward scoring: floating-point functions of candles,
  without state between calls. Where their result steers a component, the
  model lets it be anything;
* interfaces, reports, telemetry, logging, notification and scripts: I/O that
  observes the engine;
* SQL, HTTP signing, parsing and environment variables: what they do to the
  state that is modelled is an action's effect or failure;
* order management's simulators, `SafetyManager` and the portfolio manager:
  single-threaded arithmetic, driven by tests and the simulated engine (whose
  fills `BacktestEngine` lets slip).

Modelled parts leave out what the modules' headers name: prices and sizing in
the position models, scores in the selecting ones. `components` in
`PROJECT.json` lists each part with what is left out of it.
