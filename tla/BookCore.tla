------------------------------ MODULE BookCore ------------------------------
(***************************************************************************)
(* One market-neutral basket book (engines/master/book_core.rs             *)
(* process_book, backtester/xs_momentum.rs select_books): every cycle      *)
(* ranks the symbols it has fresh candles of, chooses top_k longs and      *)
(* top_k shorts with hysteresis, and moves the legs there one by one,      *)
(* awaiting the exchange for each.  A drawdown breaker, a take-profit, a   *)
(* cooldown and a regime gate replace the target by the empty book; a      *)
(* cadence gate keeps two rank rebalances rebalance_min_bars apart.        *)
(*                                                                         *)
(* Left out: how symbols are scored (the order is any), sizing, and PnL,   *)
(* of which only the side of the two thresholds it is on matters.  A cycle *)
(* with fewer than 2 * top_k scored symbols does nothing and is not a step.*)
(***************************************************************************)
EXTENDS Integers, Sequences, FiniteSets, SequencesExt

CONSTANTS
    BookSymbols,         \* BookConfig.symbols
    top_k,
    exit_buffer,
    rebalance_min_bars,
    MaxBar               \* bound on the bars explored

BookAssumption ==
    /\ IsFiniteSet(BookSymbols)
    /\ top_k \in Nat /\ exit_buffer \in Nat /\ MaxBar \in Nat \ {0}
    /\ rebalance_min_bars \in Nat

None == 0  \* no rebalance yet

VARIABLES
    legs,        \* [BookSymbols -> "none", "long" or "short"]: its part of live_positions
    ranking,     \* scored symbols of the last evaluation, strongest first
    longs,       \* its target book
    shorts,
    close,       \* actions of its plan not yet carried out
    open,
    last_bar,    \* last_rebalance_bar
    cooldown,    \* is now before circuit_breaker_until ?
    bar,         \* bar now forming
    opened_at    \* [BookSymbols -> last_bar when the leg held was opened] (history)

plan == <<ranking, longs, shorts, close, open>>
bookVars == <<legs, plan, last_bar, cooldown, bar, opened_at>>

Init ==
    /\ legs = [s \in BookSymbols |-> "none"]
    /\ ranking = <<>> /\ longs = {} /\ shorts = {}
    /\ close = {} /\ open = {}
    /\ last_bar = None /\ cooldown = FALSE /\ bar = 1
    /\ opened_at = [s \in BookSymbols |-> None]

Held(side) == {s \in BookSymbols : legs[s] = side}
Fresh == Range(ranking)
Rankings == {r \in SeqOf(BookSymbols, Cardinality(BookSymbols)) : IsInjective(r)}

-----------------------------------------------------------------------------
(* The target *)

\* The n members of S that come first when f counts positions upwards.
FirstBy(S, n, f) == {s \in S : Cardinality({t \in S : f[t] < f[s]}) < n}

\* Position of a symbol counted from the strong end and from the weak end.
Rank(sig) == [s \in Range(sig) |-> CHOOSE i \in 1 .. Len(sig) : sig[i] = s]
BackRank(sig) == [s \in Range(sig) |-> Len(sig) + 1 - Rank(sig)[s]]

\* At most k members of the old book are kept, those within k + buffer of their end;
\* the first of the others fill the places left.
Side(prev, f, others, k, buffer) ==
    LET kept == FirstBy({s \in prev \cap others : f[s] <= k + buffer}, k, f)
    IN  kept \cup FirstBy(others \ kept, k - Cardinality(kept), f)

\* Mutant: the places of the shorts are kept for the old longs.
SelectBooksSwapped(sig, k, buffer, prev_long, prev_short) ==
    LET long == Side(prev_long, Rank(sig), Range(sig), k, buffer)
    IN  <<long, Side(prev_long, BackRank(sig), Range(sig) \ long, k, buffer)>>

\* select_books: the longs are chosen first, the shorts among the rest.
SelectBooks(sig, k, buffer, prev_long, prev_short) ==
    LET long == Side(prev_long, Rank(sig), Range(sig), k, buffer)
    IN  <<long, Side(prev_short, BackRank(sig), Range(sig) \ long, k, buffer)>>

\* Have rebalance_min_bars whole bars passed since the last rank rebalance ?
Due(cur_bar) == last_bar = None \/ cur_bar - last_bar >= rebalance_min_bars

-----------------------------------------------------------------------------
(* One cycle *)

Idle == close = {} /\ open = {}

Closed(s) ==
    /\ legs' = [legs EXCEPT ![s] = "none"]
    /\ opened_at' = [opened_at EXCEPT ![s] = None]

\* plan_actions: legs not wanted as they are are closed, wanted ones not held opened.
Plan(long, short) ==
    /\ close' = {s \in BookSymbols : \/ legs[s] = "long" /\ s \notin long
                                     \/ legs[s] = "short" /\ s \notin short}
    /\ open' = {s \in long : legs[s] # "long"} \cup {s \in short : legs[s] # "short"}
    /\ longs' = long /\ shorts' = short

\* Mutant: the cadence holds for the empty book as well.
ForceFlatWhenDue(sig) ==
    /\ sig = SetToSeq(Range(sig)) /\ ranking' = sig
    /\ IF Due(bar) THEN Plan({}, {})
       ELSE longs' = {} /\ shorts' = {} /\ UNCHANGED <<close, open>>
    /\ UNCHANGED last_bar

\* The empty book, at once and whatever the cadence; the bar is not marked.  Of the
\* ranking it only matters who is in it, so one order stands for all.
ForceFlat(sig) ==
    /\ sig = SetToSeq(Range(sig)) /\ ranking' = sig
    /\ Plan({}, {})
    /\ UNCHANGED last_bar

\* Drawdown beyond the limit: flat, and a new cooldown.
Breaker(sig) ==
    /\ Held("long") \cup Held("short") # {}
    /\ ForceFlat(sig)
    /\ cooldown' = TRUE

\* Gain beyond the target, outside a cooldown: flat, and a cooldown.
TakeProfit(sig) ==
    /\ ~cooldown
    /\ Held("long") \cup Held("short") # {}
    /\ ForceFlat(sig)
    /\ cooldown' = TRUE

\* In a cooldown, or while the market is volatile, the book is kept flat.
HoldFlat(sig) ==
    /\ ForceFlat(sig)
    /\ UNCHANGED cooldown

\* Mutant: the bar is marked only when there is something to close.
RebalanceMarksLate(sig, cur_bar) ==
    /\ ~cooldown
    /\ Due(cur_bar)
    /\ LET book == SelectBooks(sig, top_k, exit_buffer, Held("long"), Held("short"))
       IN  Plan(book[1], book[2])
    /\ ranking' = sig
    /\ last_bar' = IF close' = {} THEN last_bar ELSE cur_bar
    /\ UNCHANGED cooldown

\* Rank rebalance: the bar is marked before any leg is moved.
Rebalance(sig, cur_bar) ==
    /\ ~cooldown
    /\ Due(cur_bar)
    /\ LET book == SelectBooks(sig, top_k, exit_buffer, Held("long"), Held("short"))
       IN  Plan(book[1], book[2])
    /\ ranking' = sig
    /\ last_bar' = cur_bar
    /\ UNCHANGED cooldown

\* The newest candle among the fresh symbols may be one bar behind.
Evaluate ==
    /\ Idle
    /\ \E sig \in Rankings :
         /\ Len(sig) >= 2 * top_k
         /\ \/ Breaker(sig) \/ TakeProfit(sig) \/ HoldFlat(sig)
            \/ \E cur_bar \in {bar - 1, bar} \ {0} : Rebalance(sig, cur_bar)
    /\ UNCHANGED <<legs, bar, opened_at>>

\* Closes come first; a leg without fresh candles is passed over.
CloseLeg(s) ==
    /\ s \in close
    /\ close' = close \ {s}
    /\ IF s \in Fresh THEN Closed(s) ELSE UNCHANGED <<legs, opened_at>>
    /\ UNCHANGED <<ranking, longs, shorts, open, last_bar, cooldown, bar>>

\* An opening that is refused, or whose symbol is not free, leaves its leg out.
OpenLeg(s) ==
    /\ close = {} /\ s \in open
    /\ open' = open \ {s}
    /\ \/ /\ legs[s] = "none"
          /\ legs' = [legs EXCEPT ![s] = IF s \in longs THEN "long" ELSE "short"]
          /\ opened_at' = [opened_at EXCEPT ![s] = last_bar]
       \/ UNCHANGED <<legs, opened_at>>
    /\ UNCHANGED <<ranking, longs, shorts, close, last_bar, cooldown, bar>>

\* purge_delisted_symbol and the protection sync may close a leg at any time.
OtherCloses(s) ==
    /\ legs[s] # "none"
    /\ Closed(s)
    /\ UNCHANGED <<plan, last_bar, cooldown, bar>>

NextBar ==
    /\ bar < MaxBar
    /\ bar' = bar + 1
    /\ UNCHANGED <<legs, plan, last_bar, cooldown, opened_at>>

CooldownElapses ==
    /\ cooldown
    /\ cooldown' = FALSE
    /\ UNCHANGED <<legs, plan, last_bar, bar, opened_at>>

Next ==
    \/ Evaluate
    \/ \E s \in BookSymbols : CloseLeg(s) \/ OpenLeg(s) \/ OtherCloses(s)
    \/ NextBar \/ CooldownElapses

Spec == Init /\ [][Next]_bookVars

-----------------------------------------------------------------------------
(* Properties *)

TypeOK ==
    /\ legs \in [BookSymbols -> {"none", "long", "short"}]
    /\ ranking \in Rankings
    /\ \A S \in {longs, shorts, close, open} : S \subseteq BookSymbols
    /\ last_bar \in 0 .. bar /\ bar \in 1 .. MaxBar
    /\ cooldown \in BOOLEAN
    /\ opened_at \in [BookSymbols -> 0 .. MaxBar]

\* Hysteresis has come to rest: chosen again with the same ranking, the book that is
\* the target stays the target, so unchanged ranks cause no trade.
TargetIsStable ==
    longs \cup shorts # {} =>
        SelectBooks(ranking, top_k, exit_buffer, longs, shorts) = <<longs, shorts>>

\* No churn within the cadence: a leg a rank rebalance is about to close was opened at
\* least rebalance_min_bars before it, failed and foreign closes in between or not.
ChurnNeedsBars ==
    longs \cup shorts # {} =>
        \A s \in close : legs[s] # "none" => last_bar - opened_at[s] >= rebalance_min_bars

\* Breaker, take-profit, cooldown and regime gate leave no leg open but those of
\* symbols they had no fresh candles of.
FlatButStale ==
    (ranking # <<>> /\ longs \cup shorts = {} /\ Idle) =>
        \A s \in Fresh : legs[s] = "none"

=============================================================================
