---------------------------- MODULE LiveTrading ----------------------------
(***************************************************************************)
(* The position lifecycle of the live engine (robot/engines/master): the   *)
(* tasks that open and close positions, the two background closers (the    *)
(* user-data WebSocket handler and the 30-second protection sync), the     *)
(* delisting purge, and the exchange they all talk to.                     *)
(*                                                                         *)
(* open_paper_position and close_paper_position release the state lock at  *)
(* every `.await`; each stretch between two releases is one action here,   *)
(* and pc[a] names the stretch actor a is about to run.  The actors are    *)
(* the engine's task for each symbol (named by the symbol), Ws and Psync.  *)
(*                                                                         *)
(* A position is its direction and has unit quantity; prices, sizing, PnL  *)
(* and commissions are left out.  The executor is present and not dry-run. *)
(***************************************************************************)
EXTENDS Integers, FiniteSets, Sequences

CONSTANTS
    Generic,          \* symbols traded by the per-symbol tasks
    Book,             \* symbols of the dedicated baskets (XS, carry, blend)
    Delistable,       \* symbols the exchange may delist during a run
    CapLong,          \* tuning.max_concurrent_longs, 0 = unlimited
    CapShort,         \* tuning.max_concurrent_shorts, 0 = unlimited
    ReentryCooldown,  \* is tuning.reentry_cooldown_secs > 0 ?
    Spot,             \* executor.is_spot: a long-only market without positions to query
    Signals,          \* directions the strategies may signal
    BlockCooldown,    \* is tuning.live_block_cooldown_secs > 0 ?
    Ws,               \* the user-data stream task
    Psync,            \* the protection sync task
    ExchangeErrors,   \* may a call to the exchange fail while closing or syncing ?
    Tracks,           \* symbol_tracks: (interval, strategy) pairs tried in one task
    MaxOpens          \* bound on the openings of one symbol

Symbols == Generic \cup Book
Actors  == Symbols \cup {Ws, Psync}

ASSUME SymbolAssumption ==
    /\ IsFiniteSet(Generic)
    /\ IsFiniteSet(Book)
    /\ Generic \cap Book = {}
    /\ Generic \cup Book # {}
    /\ Delistable \subseteq Generic \cup Book
    /\ Ws \notin Generic \cup Book
    /\ Psync \notin Generic \cup Book
    /\ Ws # Psync

ASSUME TuningAssumption ==
    /\ CapLong \in Nat
    /\ CapShort \in Nat
    /\ ReentryCooldown \in BOOLEAN
    /\ Spot \in BOOLEAN
    /\ Signals \subseteq {"long", "short"}
    /\ BlockCooldown \in BOOLEAN
    /\ ExchangeErrors \in BOOLEAN
    /\ Tracks \in Nat \ {0}
    /\ MaxOpens \in Nat

Dirs == {"long", "short"}
Flat == "none"
Cap(d) == IF d = "long" THEN CapLong ELSE CapShort
Sign(d) == IF d = "long" THEN 1 ELSE -1

(* Exchange orders protecting the n-th position of a symbol. *)
OrderIds == [kind : {"SL", "TP"}, n : Nat, dir : Dirs]

OpenStages  == {"gate", "armed", "order", "protect", "ref", "insert", "exit"}
CloseStages == {"remove", "refs", "cancel", "unref", "query", "market", "archive"}
Stages == {"idle", "wscancel", "synccancel"} \cup OpenStages \cup CloseStages

VARIABLES
    tracks,               \* [Generic -> tracks its task of this cycle may still try]
    live_positions,       \* [Symbols -> direction of the recorded position, or Flat]
    live_orders,          \* [Symbols -> recorded SL/TP order ids]
    pending_open,         \* [Dirs -> reservations in flight]
    closed_trades,        \* [Symbols -> trades in live_closed_trades]; their sum is
                          \* closed_trades_total
    last_close_fresh,     \* [Symbols -> last_close_at younger than the cooldown]
    live_block,           \* live_block_until: "none", "active" (future), "expired"
    delisted,             \* symbols in the permanent skip set
    pc,                   \* [Actors -> next stretch of code]
    sym,                  \* [Actors -> symbol being handled]
    dir,                  \* [Symbols -> direction being opened]
    slot,                 \* [Symbols -> does the opener hold an OpenSlotGuard]
    ids,                  \* [Actors -> order ids in the actor's hands]
    target,               \* [Actors -> removed position not archived yet, or Flat]
    amount,               \* [Actors -> position amount the exchange answered]
    scan,                 \* symbols left in Psync's snapshot
    ex,                   \* [Symbols -> signed position on the exchange]
    orders,               \* [Symbols -> open protection orders on the exchange]
    fills,                \* FILLED events of protection orders, undelivered
    opened                \* [Symbols -> positions ever recorded] (history)

ledger   == <<live_positions, closed_trades, opened>>
gateVars == <<pending_open, slot, dir>>
guards   == <<last_close_fresh, live_block, delisted>>
closing  == <<target, amount>>
exchange == <<ex, orders, fills>>
vars == <<tracks, ledger, live_orders, gateVars, guards, pc, sym, ids, closing,
          scan, exchange>>

(* Local variables of a handler that returns; only the engine's tasks are  *)
(* bound to a symbol.                                                      *)
Home(a) == IF a \in Symbols THEN a ELSE CHOOSE s \in Symbols : TRUE
NoDir   == "long"

Init ==
    /\ tracks = [s \in Generic |-> 0]
    /\ live_positions = [s \in Symbols |-> Flat]
    /\ live_orders = [s \in Symbols |-> {}]
    /\ pending_open = [d \in Dirs |-> 0]
    /\ closed_trades = [s \in Symbols |-> 0]
    /\ last_close_fresh = [s \in Symbols |-> FALSE]
    /\ live_block = "none"
    /\ delisted = {}
    /\ pc = [a \in Actors |-> "idle"]
    /\ sym = [a \in Actors |-> Home(a)]
    /\ dir = [s \in Symbols |-> NoDir]
    /\ slot = [s \in Symbols |-> FALSE]
    /\ ids = [a \in Actors |-> {}]
    /\ target = [a \in Actors |-> Flat]
    /\ amount = [a \in Actors |-> 0]
    /\ scan = {}
    /\ ex = [s \in Symbols |-> 0]
    /\ orders = [s \in Symbols |-> {}]
    /\ fills = <<>>
    /\ opened = [s \in Symbols |-> 0]

Goto(a, stage) == pc' = [pc EXCEPT ![a] = stage]

-----------------------------------------------------------------------------
(* The trade cycle: baskets one symbol at a time, then a task per symbol.  *)

EngineIdle == \A s \in Symbols : pc[s] = "idle"
TasksDone  == \A s \in Generic : tracks[s] = 0

(* A basket symbol is handled alone, between two rounds of tasks; a generic *)
(* symbol only inside its own task.                                         *)
Turn(s) == /\ pc[s] = "idle"
           /\ s \notin delisted
           /\ IF s \in Book THEN TasksDone /\ EngineIdle ELSE tracks[s] > 0

(* Calls of process_symbol_cycle a task may make: one per track while the  *)
(* symbol is flat, a single one when it starts on an open position (which  *)
(* a background closer may take before the task looks).                    *)
Calls(s) == CASE s \in delisted -> {0}
              [] s \notin delisted /\ live_positions[s] = Flat -> {Tracks}
              [] OTHER -> {1, Tracks}

(* The baskets are done: spawn one task per candidate symbol. *)
StartTasks ==
    /\ TasksDone
    /\ EngineIdle
    /\ Generic \ delisted # {}
    /\ tracks' \in {calls \in [Generic -> {0, 1, Tracks}] :
                      \A s \in Generic : calls[s] \in Calls(s)}
    /\ UNCHANGED <<ledger, live_orders, gateVars, guards, pc, sym, ids, closing,
                   scan, exchange>>

(* Mutant: the task never leaves the join set. *)
TaskNeverOver(s) == UNCHANGED tracks

TaskOver(s) == tracks' = IF s \in Generic THEN [tracks EXCEPT ![s] = 0] ELSE tracks

(* A task returns: no signal, no exit condition, or its last track failed. *)
EndTask(s) ==
    /\ tracks[s] > 0
    /\ pc[s] = "idle"
    /\ TaskOver(s)
    /\ UNCHANGED <<ledger, live_orders, gateVars, guards, pc, sym, ids, closing,
                   scan, exchange>>

-----------------------------------------------------------------------------
(* open_paper_position *)

(* Mutant: the counter is decremented on returns that hold no guard. *)
ReleaseAlways(s) ==
    /\ pending_open' = [pending_open EXCEPT ![dir[s]] = @ - 1]
    /\ slot' = [slot EXCEPT ![s] = FALSE]
    /\ ids' = [ids EXCEPT ![s] = {}]
    /\ dir' = [dir EXCEPT ![s] = NoDir]
    /\ Goto(s, "idle")

(* Mutant: a refused or failed opening keeps its reservation counted. *)
ReleaseLeaks(s) ==
    /\ slot' = [slot EXCEPT ![s] = FALSE]
    /\ ids' = [ids EXCEPT ![s] = {}]
    /\ dir' = [dir EXCEPT ![s] = NoDir]
    /\ Goto(s, "idle")
    /\ UNCHANGED pending_open

(* The reservation, if any, is dropped whenever the function returns. *)
Release(s) ==
    /\ pending_open' = IF slot[s] THEN [pending_open EXCEPT ![dir[s]] = @ - 1]
                       ELSE pending_open
    /\ slot' = [slot EXCEPT ![s] = FALSE]
    /\ ids' = [ids EXCEPT ![s] = {}]
    /\ dir' = [dir EXCEPT ![s] = NoDir]
    /\ Goto(s, "idle")

(* trip_live_block; a zero cooldown disables the breaker. *)
Trip == IF BlockCooldown THEN "active" ELSE live_block

(* The opener returns at once during the re-entry cooldown, from which the *)
(* baskets are exempt, and for a short on a long-only market.              *)
MayOpen(s, d) ==
    /\ d = "short" => ~Spot
    /\ ReentryCooldown /\ s \in Generic => ~last_close_fresh[s]

(* The caller saw no position and a signal that passed its filters. *)
OpenAttempt(s, d) ==
    /\ Turn(s)
    /\ opened[s] < MaxOpens
    /\ live_positions[s] = Flat
    /\ d \in Signals
    /\ MayOpen(s, d)
    /\ dir' = [dir EXCEPT ![s] = d]
    /\ Goto(s, "gate")
    /\ tracks' = IF s \in Generic THEN [tracks EXCEPT ![s] = @ - 1] ELSE tracks
    /\ UNCHANGED <<ledger, live_orders, pending_open, slot, guards, sym, ids,
                   closing, scan, exchange>>

OpenDir(d) == {s \in Symbols : live_positions[s] = d}

(* Mutant: openings in flight are not counted. *)
CapReachedOpenOnly(d) == Cap(d) > 0 /\ Cardinality(OpenDir(d)) >= Cap(d)

CapReached(d) ==
    Cap(d) > 0 /\ Cardinality(OpenDir(d)) + pending_open[d] >= Cap(d)

(* The atomic gate admits the opening and, for a capped generic symbol,    *)
(* reserves a slot in its direction.                                       *)
GateAdmit(s) ==
    LET d == dir[s]
        reserve == s \in Generic /\ Cap(d) > 0
    IN  /\ pc[s] = "gate"
        /\ live_positions[s] = Flat
        /\ s \in Generic => ~CapReached(d)
        /\ slot' = [slot EXCEPT ![s] = reserve]
        /\ pending_open' = IF reserve THEN [pending_open EXCEPT ![d] = @ + 1]
                           ELSE pending_open
        /\ Goto(s, "armed")
        /\ UNCHANGED <<tracks, ledger, live_orders, dir, guards, sym, ids, closing,
                       scan, exchange>>

GateRefuse(s) ==
    /\ pc[s] = "gate"
    /\ live_positions[s] # Flat \/ (s \in Generic /\ CapReached(dir[s]))
    /\ Release(s)
    /\ UNCHANGED <<tracks, ledger, live_orders, guards, sym, closing, scan, exchange>>

(* Price sanity, zero quantity, an active exchange block, the notional     *)
(* ceiling, the exchange filters, the leverage call or the entry order     *)
(* itself make the opening return.                                         *)
GiveUp(s) ==
    /\ pc[s] \in {"armed", "order"}
    /\ Release(s)
    /\ UNCHANGED <<tracks, ledger, live_orders, guards, sym, closing, scan, exchange>>

(* live_block_active is read once, before the first call to the exchange. *)
PassBlock(s) ==
    /\ pc[s] = "armed"
    /\ live_block # "active"
    /\ Goto(s, "order")
    /\ UNCHANGED <<tracks, ledger, live_orders, gateVars, guards, sym, ids, closing,
                   scan, exchange>>

(* set_leverage or the entry order is refused with a systemic block. *)
EntryBlocked(s) ==
    /\ pc[s] = "order"
    /\ live_block' = Trip
    /\ Release(s)
    /\ UNCHANGED <<tracks, ledger, live_orders, last_close_fresh, delisted, sym,
                   closing, scan, exchange>>

(* The entry order fills and clear_live_block runs, whatever the flag was. *)
EntryFilled(s) ==
    /\ pc[s] = "order"
    /\ ex' = [ex EXCEPT ![s] = @ + Sign(dir[s])]
    /\ live_block' = "none"
    /\ Goto(s, IF s \in Book THEN "ref" ELSE "protect")
    /\ UNCHANGED <<tracks, ledger, live_orders, gateVars, last_close_fresh, delisted,
                   sym, ids, closing, scan, orders, fills>>

(* SL then TP; the exchange may refuse either.  Basket legs are stopless. *)
Protect(s) ==
    /\ pc[s] = "protect"
    /\ \E kinds \in SUBSET {"SL", "TP"} :
         LET new == [kind : kinds, n : {opened[s]}, dir : {dir[s]}]
         IN  /\ ids' = [ids EXCEPT ![s] = new]
             /\ orders' = [orders EXCEPT ![s] = @ \cup new]
    /\ Goto(s, "ref")
    /\ UNCHANGED <<tracks, ledger, live_orders, gateVars, guards, sym, closing, scan,
                   ex, fills>>

(* The order ids are recorded; a refused SL keeps the position and, when   *)
(* the refusal is systemic, trips the breaker.                             *)
SealRefs(s) ==
    /\ pc[s] = "ref"
    /\ live_orders' = [live_orders EXCEPT ![s] = ids[s]]
    /\ live_block' \in IF s \in Generic /\ \A o \in ids[s] : o.kind # "SL"
                       THEN {live_block, Trip} ELSE {live_block}
    /\ Goto(s, "insert")
    /\ UNCHANGED <<tracks, ledger, gateVars, last_close_fresh, delisted, sym, ids,
                   closing, scan, exchange>>

(* live_positions.insert, with no second look at the map. *)
Insert(s) ==
    /\ pc[s] = "insert"
    /\ live_positions' = [live_positions EXCEPT ![s] = dir[s]]
    /\ opened' = [opened EXCEPT ![s] = @ + 1]
    /\ Goto(s, "exit")
    /\ UNCHANGED <<tracks, closed_trades, live_orders, gateVars, guards, sym, ids,
                   closing, scan, exchange>>

(* The function returns and drops its guard.  The task stops at the first  *)
(* track that leaves a position open; one closed meanwhile does not count. *)
OpenReturns(s) ==
    /\ pc[s] = "exit"
    /\ Release(s)
    /\ IF live_positions[s] # Flat THEN TaskOver(s) ELSE UNCHANGED tracks
    /\ UNCHANGED <<ledger, live_orders, guards, sym, closing, scan, exchange>>

Opening(s) ==
    \/ \E d \in Dirs : OpenAttempt(s, d)
    \/ GateAdmit(s) \/ GateRefuse(s) \/ GiveUp(s) \/ PassBlock(s)
    \/ EntryBlocked(s) \/ EntryFilled(s) \/ Protect(s) \/ SealRefs(s)
    \/ Insert(s) \/ OpenReturns(s)

-----------------------------------------------------------------------------
(* close_paper_position, run by the symbol's task, by Ws or by Psync *)

(* The task finds an exit condition, an opposite signal or, for a basket,  *)
(* a leg to close.                                                         *)
EngineClose(s) ==
    /\ Turn(s)
    /\ live_positions[s] # Flat
    /\ Goto(s, "remove")
    /\ TaskOver(s)
    /\ UNCHANGED <<ledger, live_orders, gateVars, guards, sym, ids, closing, scan,
                   exchange>>

Return(a) == Goto(a, "idle") /\ sym' = [sym EXCEPT ![a] = Home(a)]

(* Mutant: the position is read, not removed, before the exchange calls. *)
RemoveReads(a) ==
    /\ pc[a] = "remove"
    /\ target' = [target EXCEPT ![a] = live_positions[sym[a]]]
    /\ Goto(a, "refs")
    /\ UNCHANGED <<tracks, ledger, live_orders, gateVars, guards, sym, ids, amount,
                   scan, exchange>>

(* The local record goes first; another closer may have taken it already. *)
Remove(a) ==
    /\ pc[a] = "remove"
    /\ target' = [target EXCEPT ![a] = live_positions[sym[a]]]
    /\ live_positions' = [live_positions EXCEPT ![sym[a]] = Flat]
    /\ Goto(a, "refs")
    /\ UNCHANGED <<tracks, closed_trades, opened, live_orders, gateVars, guards,
                   sym, ids, amount, scan, exchange>>

ReadRefs(a) ==
    /\ pc[a] = "refs"
    /\ ids' = [ids EXCEPT ![a] = live_orders[sym[a]]]
    /\ Goto(a, "cancel")
    /\ UNCHANGED <<tracks, ledger, live_orders, gateVars, guards, sym, closing, scan,
                   exchange>>

(* Recorded ids are cancelled one by one; without any, all orders of the   *)
(* symbol at once.  Errors are only logged.                                *)
Cancel(a) ==
    LET open  == orders[sym[a]]
        asked == IF ids[a] = {} THEN open ELSE ids[a] \cap open
        done  == IF ~ExchangeErrors THEN {asked}
                 ELSE IF ids[a] = {} THEN {asked, {}} ELSE SUBSET asked
    IN  /\ pc[a] = "cancel"
        /\ \E hit \in done : orders' = [orders EXCEPT ![sym[a]] = open \ hit]
        /\ Goto(a, "unref")
        /\ UNCHANGED <<tracks, ledger, live_orders, gateVars, guards, sym, ids, closing,
                       scan, ex, fills>>

(* Mutant: the recorded ids outlive the position. *)
UnrefForgets(a) ==
    /\ pc[a] = "unref"
    /\ ids' = [ids EXCEPT ![a] = {}]
    /\ Goto(a, "query")
    /\ UNCHANGED <<tracks, ledger, live_orders, gateVars, guards, sym, closing, scan,
                   exchange>>

Unref(a) ==
    /\ pc[a] = "unref"
    /\ live_orders' = [live_orders EXCEPT ![sym[a]] = {}]
    /\ ids' = [ids EXCEPT ![a] = {}]
    /\ Goto(a, "query")
    /\ UNCHANGED <<tracks, ledger, gateVars, guards, sym, closing, scan, exchange>>

(* close_position asks for the amount; zero or an error ends it there, and *)
(* on spot there is no position to ask for.                                *)
Query(a) ==
    /\ pc[a] = "query"
    /\ \/ /\ ~Spot
          /\ ex[sym[a]] # 0
          /\ amount' = [amount EXCEPT ![a] = ex[sym[a]]]
          /\ Goto(a, "market")
       \/ /\ Spot \/ ExchangeErrors \/ ex[sym[a]] = 0
          /\ Goto(a, "archive")
          /\ UNCHANGED amount
    /\ UNCHANGED <<tracks, ledger, live_orders, gateVars, guards, sym, ids, target,
                   scan, exchange>>

(* A market order of the opposite side for that amount (not reduce-only),  *)
(* or an error.                                                            *)
MarketClose(a) ==
    /\ pc[a] = "market"
    /\ \/ ex' = [ex EXCEPT ![sym[a]] = @ - amount[a]]
       \/ ExchangeErrors /\ UNCHANGED ex
    /\ amount' = [amount EXCEPT ![a] = 0]
    /\ Goto(a, "archive")
    /\ UNCHANGED <<tracks, ledger, live_orders, gateVars, guards, sym, ids, target,
                   scan, orders, fills>>

(* Mutant: a closer that found no position archives one all the same. *)
ArchiveAlways(a) ==
    /\ pc[a] = "archive"
    /\ closed_trades' = [closed_trades EXCEPT ![sym[a]] = @ + 1]
    /\ last_close_fresh' = [last_close_fresh EXCEPT ![sym[a]] = ReentryCooldown]
    /\ target' = [target EXCEPT ![a] = Flat]
    /\ Return(a)
    /\ UNCHANGED <<tracks, live_positions, opened, live_orders, gateVars, live_block,
                   delisted, ids, amount, scan, exchange>>

(* The removed position, if there was one, is archived and the cooldown is *)
(* stamped, whatever the exchange answered.                                *)
Archive(a) ==
    /\ pc[a] = "archive"
    /\ IF target[a] # Flat
       THEN /\ closed_trades' = [closed_trades EXCEPT ![sym[a]] = @ + 1]
            /\ last_close_fresh' = [last_close_fresh EXCEPT ![sym[a]] = ReentryCooldown]
       ELSE UNCHANGED <<closed_trades, last_close_fresh>>
    /\ target' = [target EXCEPT ![a] = Flat]
    /\ Return(a)
    /\ UNCHANGED <<tracks, live_positions, opened, live_orders, gateVars, live_block,
                   delisted, ids, amount, scan, exchange>>

Closing(a) ==
    \/ Remove(a) \/ ReadRefs(a) \/ Cancel(a) \/ Unref(a)
    \/ Query(a) \/ MarketClose(a) \/ Archive(a)

-----------------------------------------------------------------------------
(* The two background closers *)

(* process_user_fill_status: only the fill of a recorded protection order  *)
(* of an open position counts.                                             *)
WsFill ==
    /\ pc[Ws] = "idle"
    /\ fills # <<>>
    /\ fills' = Tail(fills)
    /\ LET f == Head(fills) IN
         IF live_positions[f.sym] # Flat /\ f.id \in live_orders[f.sym]
         THEN sym' = [sym EXCEPT ![Ws] = f.sym] /\ Goto(Ws, "wscancel")
         ELSE UNCHANGED <<sym, pc>>
    /\ UNCHANGED <<tracks, ledger, live_orders, gateVars, guards, ids, closing, scan,
                   ex, orders>>

(* cancel_all_orders, its error ignored, by the handler or by the sync. *)
CancelAll(a) ==
    /\ pc[a] \in {"wscancel", "synccancel"}
    /\ \E left \in {{}} \cup (IF ExchangeErrors THEN {orders[sym[a]]} ELSE {}) :
         orders' = [orders EXCEPT ![sym[a]] = left]
    /\ Goto(a, "remove")
    /\ UNCHANGED <<tracks, ledger, live_orders, gateVars, guards, sym, ids, closing,
                   scan, ex, fills>>

(* The symbol's candles cannot be read: the handler returns and nothing is *)
(* closed, the orders already cancelled.                                   *)
CandlesMissing(a) ==
    /\ pc[a] = "remove"
    /\ Return(a)
    /\ UNCHANGED <<tracks, ledger, live_orders, gateVars, guards, ids, closing, scan,
                   exchange>>

(* Every 30 s: the positions that should have orders on the exchange. *)
SyncSnapshot ==
    /\ pc[Psync] = "idle"
    /\ scan = {}
    /\ scan' = {s \in Generic : live_positions[s] # Flat}
    /\ UNCHANGED <<tracks, ledger, live_orders, gateVars, guards, pc, sym, ids, closing,
                   exchange>>

(* Mutant: only a symbol without any order left is taken for triggered. *)
SyncAnsweredNone(s) ==
    /\ pc[Psync] = "idle"
    /\ s \in scan
    /\ scan' = scan \ {s}
    /\ IF orders[s] = {}
       THEN sym' = [sym EXCEPT ![Psync] = s] /\ Goto(Psync, "remove")
       ELSE UNCHANGED <<sym, pc>>
    /\ UNCHANGED <<tracks, ledger, live_orders, gateVars, guards, ids, closing, exchange>>

(* Fewer than two open orders are taken for a triggered SL or TP. *)
SyncAnswered(s) ==
    LET n == Cardinality(orders[s]) IN
    /\ pc[Psync] = "idle"
    /\ s \in scan
    /\ scan' = scan \ {s}
    /\ IF n < 2
       THEN /\ sym' = [sym EXCEPT ![Psync] = s]
            /\ Goto(Psync, IF n = 1 THEN "synccancel" ELSE "remove")
       ELSE UNCHANGED <<sym, pc>>
    /\ UNCHANGED <<tracks, ledger, live_orders, gateVars, guards, ids, closing, exchange>>

(* get_open_orders fails: logged, next symbol. *)
SyncError(s) ==
    /\ ExchangeErrors
    /\ pc[Psync] = "idle"
    /\ s \in scan
    /\ scan' = scan \ {s}
    /\ UNCHANGED <<tracks, ledger, live_orders, gateVars, guards, pc, sym, ids, closing,
                   exchange>>

-----------------------------------------------------------------------------
(* Delisting, the exchange and time *)

(* purge_delisted_symbol, one critical section of the price poller. *)
Delist(s) ==
    /\ s \in Delistable \ delisted
    /\ delisted' = delisted \cup {s}
    /\ live_positions' = [live_positions EXCEPT ![s] = Flat]
    /\ closed_trades' = IF live_positions[s] # Flat
                        THEN [closed_trades EXCEPT ![s] = @ + 1] ELSE closed_trades
    /\ UNCHANGED <<tracks, opened, live_orders, gateVars, last_close_fresh, live_block,
                   pc, sym, ids, closing, scan, exchange>>

(* A protection order triggers while there is something to reduce: it is   *)
(* reduce-only on futures and needs the balance on spot.                   *)
Trigger(s) ==
    /\ \E o \in orders[s] :
         /\ ex[s] * Sign(o.dir) > 0
         /\ ex' = [ex EXCEPT ![s] = @ - Sign(o.dir)]
         /\ orders' = [orders EXCEPT ![s] = @ \ {o}]
         /\ fills' = Append(fills, [sym |-> s, id |-> o])
    /\ UNCHANGED <<tracks, ledger, live_orders, gateVars, guards, pc, sym, ids, closing,
                   scan>>

(* The stream reconnects: what was sent meanwhile is never seen. *)
LoseFills ==
    /\ fills # <<>>
    /\ fills' = <<>>
    /\ UNCHANGED <<tracks, ledger, live_orders, gateVars, guards, pc, sym, ids, closing,
                   scan, ex, orders>>

(* The re-entry cooldown of a symbol elapses. *)
CooldownElapses(s) ==
    /\ last_close_fresh[s]
    /\ last_close_fresh' = [last_close_fresh EXCEPT ![s] = FALSE]
    /\ UNCHANGED <<tracks, ledger, live_orders, gateVars, live_block, delisted, pc, sym,
                   ids, closing, scan, exchange>>

(* The exchange block's deadline passes; the flag itself stays set. *)
BlockExpires ==
    /\ live_block = "active"
    /\ live_block' = "expired"
    /\ UNCHANGED <<tracks, ledger, live_orders, gateVars, last_close_fresh, delisted, pc,
                   sym, ids, closing, scan, exchange>>

Next ==
    \/ StartTasks
    \/ \E s \in Generic : EndTask(s)
    \/ \E s \in Symbols : Opening(s) \/ EngineClose(s)
    \/ \E a \in Actors : Closing(a)
    \/ WsFill
    \/ \E a \in {Ws, Psync} : CancelAll(a) \/ CandlesMissing(a)
    \/ SyncSnapshot
    \/ \E s \in Generic : SyncAnswered(s) \/ SyncError(s)
    \/ \E s \in Symbols : Delist(s) \/ Trigger(s) \/ CooldownElapses(s)
    \/ LoseFills
    \/ BlockExpires

Spec == Init /\ [][Next]_vars

(* Tokio runs every ready task: each actor's own steps are weakly fair, and *)
(* so is the engine's loop.  Openings, closings the engine may decide on,   *)
(* the exchange's triggers, failures and delistings are not.                *)
TaskProgress(s) ==
    \/ GateAdmit(s) \/ GateRefuse(s) \/ GiveUp(s) \/ PassBlock(s)
    \/ EntryBlocked(s) \/ EntryFilled(s) \/ Protect(s) \/ SealRefs(s)
    \/ Insert(s) \/ OpenReturns(s)

(* Psync gets an answer and finds candles infinitely often when it asks     *)
(* infinitely often: the exchange and the database are not down for good.   *)
Fairness ==
    /\ WF_vars(StartTasks)
    /\ \A s \in Generic : WF_vars(EndTask(s))
    /\ \A s \in Symbols : WF_vars(TaskProgress(s))
    /\ \A a \in Actors : WF_vars(Closing(a))
    /\ WF_vars(WsFill)
    /\ \A a \in {Ws, Psync} : WF_vars(CancelAll(a)) /\ SF_vars(Remove(a))
    /\ WF_vars(SyncSnapshot)
    /\ \A s \in Generic : WF_vars(SyncAnswered(s) \/ SyncError(s)) /\ SF_vars(SyncAnswered(s))

FairSpec == Spec /\ Fairness

-----------------------------------------------------------------------------
TypeOK ==
    /\ tracks \in [Generic -> Nat]
    /\ live_positions \in [Symbols -> Dirs \cup {Flat}]
    /\ live_orders \in [Symbols -> SUBSET OrderIds]
    /\ pending_open \in [Dirs -> Nat]
    /\ closed_trades \in [Symbols -> Nat]
    /\ last_close_fresh \in [Symbols -> BOOLEAN]
    /\ live_block \in {"none", "active", "expired"}
    /\ delisted \subseteq Delistable
    /\ pc \in [Actors -> Stages]
    /\ sym \in [Actors -> Symbols]
    /\ \A s \in Symbols : sym[s] = s
    /\ dir \in [Symbols -> Dirs]
    /\ slot \in [Symbols -> BOOLEAN]
    /\ ids \in [Actors -> SUBSET OrderIds]
    /\ target \in [Actors -> Dirs \cup {Flat}]
    /\ amount \in [Actors -> Int]
    /\ scan \subseteq Generic
    /\ ex \in [Symbols -> Int]
    /\ orders \in [Symbols -> SUBSET OrderIds]
    /\ fills \in Seq([sym : Symbols, id : OrderIds])
    /\ opened \in [Symbols -> Nat]

(* Generic positions of a direction together with the openings in flight   *)
(* that hold a reservation in it.                                          *)
Exposure(d) ==
    {s \in Generic : live_positions[s] = d \/ (slot[s] /\ dir[s] = d)}

(* Parallel openings never exceed the concurrency cap, counting what is    *)
(* still in flight: the gate counts under one lock what Insert, long after *)
(* and without a second look, records (positions.rs 235-275, 850-857).     *)
CapRespected == \A d \in Dirs : Cap(d) > 0 => Cardinality(Exposure(d)) <= Cap(d)

Reserved(d) == {s \in Symbols : slot[s] /\ dir[s] = d}

(* The pending counter is the number of guards held, on every return path  *)
(* of the opener: a leak would shut a direction for good, a double drop    *)
(* would let the cap through (OpenSlotGuard, positions.rs 1033-1041).      *)
PendingExact == \A d \in Dirs : pending_open[d] = Cardinality(Reserved(d))

InHand(s) == {a \in Actors : target[a] # Flat /\ sym[a] = s}

(* Every position recorded is archived exactly once, whichever of the      *)
(* engine, the stream handler, the sync and the purge gets to it first: it *)
(* is in the map, in one closer's hands or in the archive, and no insert   *)
(* overwrites another (the orphan bug told in positions.rs 218-224).       *)
LedgerBalanced ==
    \A s \in Symbols :
        opened[s] = closed_trades[s] + (IF live_positions[s] # Flat THEN 1 ELSE 0)
                    + Cardinality(InHand(s))

(* The books behave as the abstract ledger: what tasks, closers and purge  *)
(* do to the map and the archive under separate locks is, seen from        *)
(* outside, recording below the cap, taking and settling.                  *)
Ledger == INSTANCE PositionLedger WITH
    held      <- live_positions,
    unsettled <- [s \in Symbols |-> Cardinality(InHand(s))],
    archived  <- closed_trades

ImplementsLedger == Ledger!Spec

(* Recorded order ids always have someone who will clear them: a position, *)
(* the opener about to record it, or a closer before its own removal.  A   *)
(* leaked entry would let the fill of an old order close a later position  *)
(* (positions_close.rs 199-260, userdata.rs 312-330).  The purge leaves    *)
(* its symbol's entry behind, so delisted symbols are out.                 *)
RefsOwned ==
    \A s \in Symbols \ delisted :
        live_orders[s] # {} =>
            \/ live_positions[s] # Flat
            \/ pc[s] = "insert"
            \/ \E a \in Actors : sym[a] = s /\ pc[a] \in {"refs", "cancel", "unref"}

(* The stream may lose every fill: a position missing one of its two       *)
(* protection orders is still closed in the end, by the sync               *)
(* (infra_fleet.rs 786-858; "psync (30s) yedek", userdata.rs 309).         *)
SyncBacksUpStream ==
    \A s \in Generic :
        live_positions[s] # Flat /\ Cardinality(orders[s]) < 2 ~> live_positions[s] = Flat

(* The cycle joins all its tasks before the next one and no wait has a     *)
(* timeout (loop_core.rs 286-287): all tasks come to rest again and again. *)
CycleReturns == []<>(TasksDone /\ EngineIdle)

-----------------------------------------------------------------------------
(* What the repository says of the engine and the code does not do.        *)

(* infra_fleet.rs 818 and 828-831: fewer than two orders means SL or TP    *)
(* triggered, so the sync only closes the local side of positions the      *)
(* exchange has already closed.                                            *)
SyncClosesOnlyTriggered ==
    pc[Psync] = "remove" /\ live_positions[sym[Psync]] # Flat => ex[sym[Psync]] = 0

(* positions.rs 223-224: removing the symbol from the map keeps a close    *)
(* followed by a reopening sound; the close then never sells a position    *)
(* recorded after the one it removed.                                      *)
CloseSparesLaterPosition ==
    \A a \in Actors :
        pc[a] = "market" /\ target[a] # Flat => live_positions[sym[a]] = Flat

(* positions.rs 817-818: the bot-side exit goes through a real MARKET      *)
(* order; when a close archives its position, and no call has failed, the  *)
(* exchange no longer holds it.                                            *)
ClosedPositionSold ==
    \A a \in Actors :
        pc[a] = "archive" /\ target[a] # Flat => ex[sym[a]] * Sign(target[a]) <= 0

(* positions.rs 1009-1010: an order that passes once the block has expired *)
(* lifts it; a block whose deadline lies ahead is left standing.           *)
BlockLastsItsCooldown == [][live_block = "active" => live_block' # "none"]_vars

=============================================================================
