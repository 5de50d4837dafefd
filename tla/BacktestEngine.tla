--------------------------- MODULE BacktestEngine ---------------------------
(***************************************************************************)
(* The simulation behind walk-forward, optimizer and screener              *)
(* (backtester/backtest_engine.rs Backtester::run): one position at a      *)
(* time, long or short, with break-even, trailing stop and a partial take  *)
(* profit.  It has exit rules of its own, beside those of LivePath.        *)
(*                                                                         *)
(* Prices, distances, quantities and fees are whole units; the signal and  *)
(* the gates before an entry are any choice, which includes every choice   *)
(* they make.  Fills cost up to a unit when an order book is simulated.    *)
(***************************************************************************)
EXTENDS Integers

CONSTANTS
    Prices, Sl, Tp,
    Trails,             \* trail distance of an entry; 0 for none
    breakeven_at_rr,
    Qty, PartialQty,    \* quantity entered, and sold at half the way to the target
    commission,
    Slips,              \* what a fill is worse than its price
    Bars                \* bound: candles replayed

EngineAssumption ==
    /\ Prices \cup Trails \cup Slips \subseteq Nat
    /\ Sl \in Nat \ {0} /\ Tp \in Nat \ {0} /\ Tp % 2 = 0
    /\ breakeven_at_rr \in Nat /\ commission \in Nat /\ Bars \in Nat
    /\ Qty \in Nat /\ PartialQty \in 1 .. Qty - 1

VARIABLES
    bar,               \* candles replayed
    pos,               \* position held, or Flat
    balance,           \* gain since the start
    max_balance, max_drawdown,
    traded,            \* quantity of the trades of the position held last (history)
    last               \* result before fees of the last trade, and whether the position
                       \* was at break-even before its bar (history)

engineVars == <<bar, pos, balance, max_balance, max_drawdown, traded, last>>

Flat == [qty |-> 0]
Higher(x, y) == IF x > y THEN x ELSE y

Init ==
    /\ bar = 0 /\ pos = Flat /\ balance = 0 /\ max_balance = 0 /\ max_drawdown = 0
    /\ traded = 0 /\ last = [gross |-> 0, armed |-> FALSE]

-----------------------------------------------------------------------------

Sign(p) == IF p.is_long THEN 1 ELSE -1
\* Of two stops, the one that is hit first on the way against the position.
Tighter(p, x, y) == IF Sign(p) * x > Sign(p) * y THEN x ELSE y
Favorable(p, c) == IF p.is_long THEN c.high ELSE c.low
Adverse(p, c) == IF p.is_long THEN c.low ELSE c.high

\* The trail follows the best price, this bar's included, before the bar may hit it.
\* A position without one has its trail at the stop, so that none is tighter.
Trailed(p, c) ==
    LET best == Tighter(p, p.best, Favorable(p, c))
    IN  IF p.trail = 0 THEN p
        ELSE [p EXCEPT !.best = best,
                       !.trailing_sl = Tighter(p, @, best - Sign(p) * p.trail)]

\* Mutant: the trail takes the place of the stop.
EffSlTrailOnly(p) == IF p.trail = 0 THEN p.sl_price ELSE p.trailing_sl

EffSl(p) == Tighter(p, p.sl_price, p.trailing_sl)

\* Break-even is armed by the close and counts from the next bar on.
Armed(p, c) ==
    IF ~p.breakeven_triggered /\ Sign(p) * (c.close - p.entry) >= breakeven_at_rr * Sl
    THEN [p EXCEPT !.sl_price = p.entry, !.breakeven_triggered = TRUE] ELSE p

Half(p) == p.entry + Sign(p) * (Tp \div 2)
Halved(p, c) ==
    ~p.partial_tp_triggered /\ Sign(p) * (Favorable(p, c) - Half(p)) >= 0

Net(p, price, qty, slip) ==
    LET fill == price - Sign(p) * slip
    IN  Sign(p) * (fill - p.entry) * qty - qty * (p.entry + fill) * commission

\* Mutant: the part that was sold stays in the position.
AfterPartialWhole(p) == [p EXCEPT !.partial_tp_triggered = TRUE]

AfterPartial(p) == [p EXCEPT !.qty = @ - PartialQty, !.partial_tp_triggered = TRUE]

\* The position after the bar, and what left it: a bar that reaches both counts as stopped.
Manage(p, c, slip) ==
    LET trailed == Trailed(p, c)
        stop    == EffSl(trailed)
        armed   == Armed(trailed, c)
        halved  == Halved(armed, c)
        rest    == IF halved THEN AfterPartial(armed) ELSE armed
        sl_hit  == Sign(p) * (Adverse(p, c) - stop) <= 0
        tp_hit  == Sign(p) * (Favorable(p, c) - p.tp_price) >= 0
        level   == IF sl_hit THEN stop ELSE p.tp_price
        partial == IF halved THEN Net(p, Half(p), PartialQty, slip) ELSE 0
    IN  [pos  |-> IF sl_hit \/ tp_hit THEN Flat ELSE rest,
         net  |-> partial + (IF sl_hit \/ tp_hit THEN Net(p, level, rest.qty, slip) ELSE 0),
         sold |-> (IF halved THEN PartialQty ELSE 0) + (IF sl_hit \/ tp_hit THEN rest.qty ELSE 0),
         last |-> IF sl_hit \/ tp_hit
                  THEN [gross |-> Sign(p) * (level - p.entry), armed |-> p.breakeven_triggered]
                  ELSE last]

Opened(c, is_long, trail, slip) ==
    LET s == IF is_long THEN 1 ELSE -1
        entry == c.close + s * slip
    IN  [entry_idx |-> bar, is_long |-> is_long, entry |-> entry, qty |-> Qty,
         sl_price |-> entry - s * Sl,
         tp_price |-> entry + s * Tp, best |-> entry, trail |-> trail, trailing_sl |-> entry - s * Sl,
         breakeven_triggered |-> FALSE, partial_tp_triggered |-> FALSE]

Candles == {c \in [low : Prices, high : Prices, close : Prices] : c.low <= c.close /\ c.close <= c.high}

Unrealized(p, c) == IF p = Flat THEN 0 ELSE Sign(p) * (c.close - p.entry) * p.qty

Tracked(after, p, c) ==
    /\ max_balance' = Higher(max_balance, after)
    /\ max_drawdown' = Higher(max_drawdown, max_balance' - after - Unrealized(p, c))

\* Strategy, regime gates, direction mode and edge filter may let any entry through.
EntrySignals(held) == IF held = Flat THEN {"none", "long", "short"} ELSE {"none"}

\* A candle: what is held is managed first, and a flat engine may enter at its close, also
\* right after an exit.
Candle ==
    /\ bar < Bars
    /\ bar' = bar + 1
    /\ \E c \in Candles, slip \in Slips :
         LET managed == IF pos = Flat THEN [pos |-> Flat, net |-> 0, sold |-> 0, last |-> last]
                        ELSE Manage(pos, c, slip)
         IN  \E signal \in EntrySignals(managed.pos) :
             \E trail \in IF signal = "none" THEN {0} ELSE Trails :
               LET held == IF signal = "none" THEN managed.pos
                           ELSE Opened(c, signal = "long", trail, slip)
               IN  /\ pos' = held
                   /\ balance' = balance + managed.net
                   /\ traded' = IF signal = "none" THEN traded + managed.sold ELSE 0
                   /\ last' = managed.last
                   /\ Tracked(balance + managed.net, held, c)

Next == Candle

Spec == Init /\ [][Next]_engineVars

-----------------------------------------------------------------------------

TypeOK ==
    /\ bar \in 0 .. Bars /\ {balance, max_balance, max_drawdown} \subseteq Int
    /\ pos.qty \in {0, Qty - PartialQty, Qty}
    /\ last.armed \in BOOLEAN

\* A position's trades sell what was bought, each part once, whether the half-way target and
\* the exit come in one bar or in two.
SoldOnce == traded + pos.qty \in {0, Qty}

\* A position that was at break-even does not end below its entry, before slip and fees.
BreakevenHolds == last.armed => last.gross >= 0

=============================================================================
