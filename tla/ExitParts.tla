------------------------------ MODULE ExitParts -------------------------------
(***************************************************************************)
(* The basket book and the exit rules, on candles and simulated.           *)
(* Each is an instance with parameters and state of its own; names that    *)
(* several components have carry the instance they belong to.              *)
(***************************************************************************)
EXTENDS Integers, Sequences, FiniteSets

-----------------------------------------------------------------------------
CONSTANTS BookSymbols, top_k, exit_buffer, rebalance_min_bars, MaxBar

VARIABLES legs, ranking, longs, shorts, close, book_open, last_bar, cooldown,
          book_bar, opened_at

Book == INSTANCE BookCore WITH
          open <- book_open, bar <- book_bar

ASSUME BookAssumed == Book!BookAssumption

\* Hysteresis has come to rest: chosen again with the same ranking, the book that is
\* the target stays the target, so unchanged ranks cause no trade.
TargetIsStable == Book!TargetIsStable

\* No churn within the cadence: a leg a rank rebalance is about to close was opened at
\* least rebalance_min_bars before it, failed and foreign closes in between or not.
ChurnNeedsBars == Book!ChurnNeedsBars

\* Breaker, take-profit, cooldown and regime gate leave no leg open but those of
\* symbols they had no fresh candles of.
FlatButStale == Book!FlatButStale

-----------------------------------------------------------------------------
CONSTANTS path_Prices, path_Sl, path_Tp, path_Trails, breakeven_rr, min_hold_bars,
          commission_rate, path_Bars

VARIABLES candle, path_open, path_equity, last_trade

Path == INSTANCE LivePath WITH
          Prices <- path_Prices, Sl <- path_Sl, Tp <- path_Tp,
          Trails <- path_Trails, Bars <- path_Bars, open <- path_open,
          equity <- path_equity

ASSUME PathAssumed == Path!PathAssumption

\* No trade gives up more than the distance of its first stop, whichever of stop,
\* trail, target and reverse signal ends it and however the ATR moves.
LossIsBounded == Path!LossIsBounded

\* A position whose stop has been moved to its entry does not end at a loss.
ArmedNeverLoses == Path!ArmedNeverLoses

-----------------------------------------------------------------------------
CONSTANTS engine_Prices, engine_Sl, engine_Tp, engine_Trails, breakeven_at_rr,
          engine_Qty, PartialQty, engine_commission, Slips, engine_Bars

VARIABLES engine_bar, engine_pos, engine_balance, max_balance, max_drawdown, traded,
          engine_last

Bt == INSTANCE BacktestEngine WITH
          Prices <- engine_Prices, Sl <- engine_Sl, Tp <- engine_Tp,
          Trails <- engine_Trails, Qty <- engine_Qty,
          commission <- engine_commission, Bars <- engine_Bars, bar <- engine_bar,
          pos <- engine_pos, balance <- engine_balance, last <- engine_last

ASSUME BtAssumed == Bt!EngineAssumption

\* A position's trades sell what was bought, each part once, whether the half-way target and
\* the exit come in one bar or in two.
SoldOnce == Bt!SoldOnce

\* A position that was at break-even does not end below its entry, before slip and fees.
BreakevenHolds == Bt!BreakevenHolds

=============================================================================
