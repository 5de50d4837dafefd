-------------------------- MODULE BacktestScheduler --------------------------
(***************************************************************************)
(* When a strategy may trade with real money                               *)
(* (backtester/backtest_scheduler.rs): paper first, live after a paper     *)
(* time that ends with a good backtest, back to paper on a bad one, and    *)
(* disabled after a row of losing trades.  A result is what its four       *)
(* thresholds make of it: ready or not.                                    *)
(***************************************************************************)
EXTENDS Integers

CONSTANTS backtest_interval, paper_duration, max_consecutive_losses,
          Horizon                           \* bound: the time looked at

SchedulerAssumption ==
    /\ backtest_interval \in Nat /\ paper_duration \in Nat /\ Horizon \in Nat
    /\ max_consecutive_losses \in Nat \ {0}

VARIABLES now, mode, mode_switch_time, last_backtest, losses,
          paper_since       \* when the current spell in paper mode began (history)

schedVars == <<now, mode, mode_switch_time, last_backtest, losses, paper_since>>

Never == -1

Init ==
    /\ now = 0 /\ mode = "Paper" /\ mode_switch_time = 0
    /\ last_backtest = Never /\ losses = 0
    /\ paper_since = 0

-----------------------------------------------------------------------------

Tick ==
    /\ now < Horizon /\ now' = now + 1
    /\ UNCHANGED <<mode, mode_switch_time, last_backtest, losses, paper_since>>

ShouldRun == last_backtest = Never \/ now - last_backtest > backtest_interval

\* Mutant: the time of the switch back is not taken.
RevertedKeepsTime == mode' = "Paper" /\ UNCHANGED mode_switch_time

Reverted == mode' = "Paper" /\ mode_switch_time' = now

SwitchedToLive ==
    IF mode = "Paper" /\ now - mode_switch_time > paper_duration
    THEN mode' = "Live" ELSE UNCHANGED mode

ProcessResult(ready) ==
    /\ ShouldRun
    /\ last_backtest' = now
    /\ IF ready THEN SwitchedToLive /\ UNCHANGED mode_switch_time
       ELSE IF mode = "Live" THEN Reverted
       ELSE UNCHANGED <<mode, mode_switch_time>>
    /\ paper_since' = IF mode' = "Paper" /\ mode # "Paper" THEN now ELSE paper_since
    /\ UNCHANGED <<now, losses>>

\* Losses count in every mode; the row is capped here, where the code goes on counting.
RecordLoss ==
    LET row == IF losses < max_consecutive_losses THEN losses + 1 ELSE losses
    IN  /\ losses' = row
        /\ mode' = IF row >= max_consecutive_losses THEN "Disabled" ELSE mode
        /\ UNCHANGED <<now, mode_switch_time, last_backtest, paper_since>>

\* A winning trade ends the row, and leaves the mode alone.
RecordWin ==
    /\ losses' = 0
    /\ UNCHANGED <<now, mode, mode_switch_time, last_backtest, paper_since>>

Next == Tick \/ (\E ready \in BOOLEAN : ProcessResult(ready)) \/ RecordLoss \/ RecordWin

Spec == Init /\ [][Next]_schedVars

-----------------------------------------------------------------------------

TypeOK ==
    /\ now \in 0 .. Horizon /\ mode \in {"Paper", "Live", "Disabled"}
    /\ {mode_switch_time, paper_since} \subseteq 0 .. Horizon
    /\ last_backtest \in Never .. Horizon
    /\ losses \in 0 .. max_consecutive_losses

\* Every spell of live trading is preceded by a full paper time of its own.
PaperFirst == [][mode # "Live" /\ mode' = "Live" => now - paper_since > paper_duration]_schedVars

=============================================================================
