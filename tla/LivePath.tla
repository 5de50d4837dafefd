------------------------------ MODULE LivePath ------------------------------
(***************************************************************************)
(* The replay of the live decision path over one symbol's candles          *)
(* (backtester/live_path.rs run) and the exit rules it shares with the     *)
(* live engine (engines/master/positions_close.rs                          *)
(* check_exit_conditions_ohlc).  The live engine calls the same rules with *)
(* the last price as high, low and close, which is one of the bars here.   *)
(*                                                                         *)
(* Prices, stop distances and fees are whole units; which signals come, and *)
(* whether edge score and support/resistance filter let them through, is   *)
(* any choice.  Sizing is left out: one unit is held.                      *)
(***************************************************************************)
EXTENDS Integers

CONSTANTS
    Prices,          \* prices candles take, all positive
    Sl,              \* distances of stop and target from the entry
    Tp,
    Trails,          \* ATR * atr_trail_mult of a bar; 0 when there is no ATR
    breakeven_rr,
    min_hold_bars,
    commission_rate,
    Bars             \* bound: candles replayed

PathAssumption ==
    /\ Prices \subseteq Nat \ {0}
    /\ Sl \in Nat \ {0} /\ Tp \in Nat \ {0}
    /\ Trails \subseteq Nat
    /\ breakeven_rr \in Nat /\ min_hold_bars \in Nat /\ commission_rate \in Nat
    /\ Bars \in Nat

Flat == [is_long |-> TRUE, entry_price |-> 0]

VARIABLES
    candle,       \* number of candles replayed
    open,         \* position held, or Flat
    equity,       \* gain since the start
    last_trade    \* last trade's gross result, and whether it began its last bar at break-even

pathVars == <<candle, open, equity, last_trade>>

Init ==
    /\ candle = 0 /\ open = Flat
    /\ equity = 0
    /\ last_trade = [gross |-> 0, armed |-> FALSE]

Holding == open # Flat
Fee(price) == price * commission_rate
Levels == {p \in Prices : p > Tp /\ p > Sl}  \* entries whose levels are positive, as a percentage's are

-----------------------------------------------------------------------------
(* Exit rules.  Up is 1 for a long position and -1 for a short one: a price *)
(* x is better than y for it when Up * x > Up * y.                          *)

Up(pos) == IF pos.is_long THEN 1 ELSE -1
Better(pos, x, y) == Up(pos) * x > Up(pos) * y
Reached(pos, x, level) == level > 0 /\ Up(pos) * x >= Up(pos) * level
Lost(pos, x, level) == level > 0 /\ Up(pos) * x <= Up(pos) * level

Favorable(pos, bar) == IF pos.is_long THEN bar.high ELSE bar.low
Adverse(pos, bar) == IF pos.is_long THEN bar.low ELSE bar.high

\* The best price seen.
Watched(pos, bar) ==
    IF Better(pos, Favorable(pos, bar), pos.max_favorable_price)
    THEN [pos EXCEPT !.max_favorable_price = Favorable(pos, bar)] ELSE pos

\* Mutant: the stop stays where it was.
ArmedInName(pos, bar) ==
    LET risk == Up(pos) * (pos.entry_price - pos.stop_loss)
    IN  IF Up(pos) * (bar.close - pos.entry_price) >= risk * breakeven_rr
        THEN [pos EXCEPT !.breakeven_activated = TRUE]
        ELSE pos

\* Break-even is armed by the close alone, and moves the stop to the entry.
Armed(pos, bar) ==
    LET risk == Up(pos) * (pos.entry_price - pos.stop_loss)
    IN  IF /\ ~pos.breakeven_activated
           /\ risk # 0
           /\ Up(pos) * (bar.close - pos.entry_price) >= risk * breakeven_rr
        THEN [pos EXCEPT !.breakeven_activated = TRUE, !.stop_loss = pos.entry_price]
        ELSE pos

\* The trail follows the best price at the bar's ATR distance, never backwards.
Trailed(pos, trail) ==
    LET new_trail == pos.max_favorable_price - Up(pos) * trail
    IN  IF /\ trail > 0
           /\ \/ Better(pos, new_trail, pos.trailing_stop)
              \/ ~pos.is_long /\ pos.trailing_stop = 0
        THEN [pos EXCEPT !.trailing_stop = new_trail] ELSE pos

\* Mutant: the trail is looked at before the stop.
CheckExitTrailFirst(pos, bar, trail) ==
    LET seen    == Watched(pos, bar)
        trailed == Trailed(Armed(seen, bar), trail)
    IN  IF trail > 0 /\ Lost(trailed, Adverse(trailed, bar), trailed.trailing_stop)
        THEN [pos |-> trailed, reason |-> "TrailingStop", price |-> trailed.trailing_stop]
        ELSE IF Lost(seen, Adverse(seen, bar), seen.stop_loss)
        THEN [pos |-> seen, reason |-> "StopLoss", price |-> seen.stop_loss]
        ELSE IF Reached(seen, Favorable(seen, bar), seen.take_profit)
        THEN [pos |-> seen, reason |-> "TakeProfit", price |-> seen.take_profit]
        ELSE [pos |-> trailed, reason |-> "None", price |-> bar.close]

\* check_exit_conditions_ohlc: the position after the bar, the reason to leave it and
\* the price of that reason.  A bar that reaches stop and target counts as stopped.
CheckExit(pos, bar, trail) ==
    LET seen    == Watched(pos, bar)
        trailed == Trailed(Armed(seen, bar), trail)
    IN  IF Lost(seen, Adverse(seen, bar), seen.stop_loss)
        THEN [pos |-> seen, reason |-> "StopLoss", price |-> seen.stop_loss]
        ELSE IF Reached(seen, Favorable(seen, bar), seen.take_profit)
        THEN [pos |-> seen, reason |-> "TakeProfit", price |-> seen.take_profit]
        ELSE IF trail > 0 /\ Lost(trailed, Adverse(trailed, bar), trailed.trailing_stop)
        THEN [pos |-> trailed, reason |-> "TrailingStop", price |-> trailed.trailing_stop]
        ELSE [pos |-> trailed, reason |-> "None", price |-> bar.close]

-----------------------------------------------------------------------------
(* Replay *)

CandleOf == {b \in [high : Prices, low : Prices, close : Prices] :
               b.low <= b.close /\ b.close <= b.high}

\* Mutant: the age is counted from the candle after the entry.
EnteredNext(is_long, price, trail) ==
    LET up == IF is_long THEN 1 ELSE -1
    IN  [is_long |-> is_long, entry_price |-> price, entry_bar |-> candle + 2,
         stop_loss |-> price - up * Sl, take_profit |-> price + up * Tp,
         trailing_stop |-> price - up * trail, max_favorable_price |-> price,
         breakeven_activated |-> FALSE]

\* An entry at the close pays its fee at once.
Entered(is_long, price, trail) ==
    LET up == IF is_long THEN 1 ELSE -1
    IN  [is_long |-> is_long, entry_price |-> price, entry_bar |-> candle + 1,
         stop_loss |-> price - up * Sl, take_profit |-> price + up * Tp,
         trailing_stop |-> price - up * trail, max_favorable_price |-> price,
         breakeven_activated |-> FALSE]

\* The entry check of a bar, with no position or after the one held was left.
MayEnter(bar, trail, balance) ==
    \/ /\ bar.close \in Levels
       /\ \E is_long \in BOOLEAN : open' = Entered(is_long, bar.close, trail)
       /\ equity' = balance - Fee(bar.close)
    \/ open' = Flat /\ equity' = balance

\* Leave at a price: the entry's fee was paid before.
Leave(pos, price, bar, trail) ==
    LET gross == Up(pos) * (price - pos.entry_price)
    IN  /\ last_trade' = [gross |-> gross, armed |-> open.breakeven_activated]
        /\ MayEnter(bar, trail, equity + gross - Fee(price))

\* One candle: exit rules, then a reverse signal once the position is old enough.
HeldBar(bar, trail) ==
    LET check == CheckExit(open, bar, trail)
    IN  \/ /\ check.reason # "None"
           /\ Leave(check.pos, IF check.price > 0 THEN check.price ELSE bar.close, bar, trail)
        \/ /\ check.reason = "None"
           /\ candle + 1 - open.entry_bar >= min_hold_bars
           /\ Leave(check.pos, bar.close, bar, trail)
        \/ /\ check.reason = "None"
           /\ open' = check.pos
           /\ UNCHANGED <<equity, last_trade>>

Bar ==
    /\ candle < Bars
    /\ candle' = candle + 1
    /\ \E bar \in CandleOf, trail \in Trails :
         \/ Holding /\ HeldBar(bar, trail)
         \/ ~Holding /\ MayEnter(bar, trail, equity) /\ UNCHANGED last_trade

\* A candle without a price is passed over.
EmptyBar ==
    /\ candle < Bars
    /\ candle' = candle + 1
    /\ UNCHANGED <<open, equity, last_trade>>

Next == Bar \/ EmptyBar

Spec == Init /\ [][Next]_pathVars

-----------------------------------------------------------------------------
(* Properties *)

TypeOK ==
    /\ candle \in 0 .. Bars
    /\ equity \in Int
    /\ last_trade \in [gross : Int, armed : BOOLEAN]
    /\ Holding => /\ open.stop_loss \in Nat /\ open.take_profit \in Nat
                  /\ open.trailing_stop \in Int /\ open.entry_bar \in 1 .. candle

\* No trade gives up more than the distance of its first stop, whichever of stop,
\* trail, target and reverse signal ends it and however the ATR moves.
LossIsBounded == last_trade.gross >= -Sl

\* A position whose stop has been moved to its entry does not end at a loss.
ArmedNeverLoses == last_trade.armed => last_trade.gross >= 0

=============================================================================
