----------------------------- MODULE MakerEntry -----------------------------
(***************************************************************************)
(* One live entry: the maker loop of place_smart_limit_entry               *)
(* (engines/binance_executor.rs), which quotes, polls, cancels and quotes  *)
(* again, and the dispatch around it in open_paper_position that falls     *)
(* back to a market order or skips the trade.  LiveTrading sees all of it  *)
(* as one step between "order" and the recorded position.                  *)
(*                                                                         *)
(* Every await is a call to the exchange, which meanwhile fills, cancels   *)
(* or expires orders on its own.  A failed call may have taken effect.     *)
(* Prices are left out; quantities are counted in units.                   *)
(***************************************************************************)
EXTENDS Integers

CONSTANTS
    max_attempts,  \* limit_entry_max_attempts; zero counts as one
    Qty,           \* quantity of the entry
    use_limit,     \* tuning.use_limit_entry
    fallback,      \* tuning.limit_entry_fallback_market
    CallErrors     \* may a call to the exchange fail ?

ASSUME MakerAssumption ==
    /\ max_attempts \in Nat
    /\ Qty \in Nat \ {0}
    /\ use_limit \in BOOLEAN /\ fallback \in BOOLEAN /\ CallErrors \in BOOLEAN

attempts == IF max_attempts > 1 THEN max_attempts ELSE 1
Attempts == 1 .. attempts

VARIABLES
    stage,    \* the call the entry is about to make
    attempt,  \* current attempt
    late,     \* has the attempt's deadline passed ?
    result,   \* what the opener is told: "pending", "entered" or "skipped"
    order,    \* [Attempts -> state of the limit order of that attempt]
    filled,   \* [Attempts -> units of it the exchange has filled]
    bought,   \* units bought in all
    failed    \* has any call failed ? (history)

local == <<stage, attempt, late, result>>
book  == <<order, filled, bought>>
vars == <<local, book, failed>>

Init ==
    /\ stage = IF use_limit THEN "place" ELSE "market"
    /\ attempt = 1
    /\ late = FALSE
    /\ result = "pending"
    /\ order = [i \in Attempts |-> "none"]
    /\ filled = [i \in Attempts |-> 0]
    /\ bought = 0
    /\ failed = FALSE

-----------------------------------------------------------------------------
(* The maker loop *)

(* Mutant: the bound is checked after the next attempt has begun. *)
RetryOnceMore ==
    /\ IF attempt <= attempts
       THEN stage' = "place" /\ attempt' = attempt + 1
       ELSE stage' = "fallback" /\ UNCHANGED attempt
    /\ late' = FALSE
    /\ UNCHANGED result

(* The next attempt after a backoff or, after the last one, the error. *)
Retry ==
    /\ IF attempt < attempts
       THEN stage' = "place" /\ attempt' = attempt + 1
       ELSE stage' = "fallback" /\ UNCHANGED attempt
    /\ late' = FALSE
    /\ UNCHANGED result

Return(answer) ==
    /\ stage' = "done"
    /\ result' = answer
    /\ late' = FALSE
    /\ UNCHANGED attempt

(* No book ticker, no valid quote, or a spread above the limit. *)
NoQuote ==
    /\ stage = "place"
    /\ Retry
    /\ UNCHANGED <<book, failed>>

(* The post-only order is accepted and rests in the book. *)
Placed ==
    /\ stage = "place"
    /\ order' = [order EXCEPT ![attempt] = "working"]
    /\ stage' = "poll"
    /\ UNCHANGED <<attempt, late, result, filled, bought, failed>>

(* It would have taken liquidity: expired or rejected at once. *)
PlacedExpired ==
    /\ stage = "place"
    /\ order' = [order EXCEPT ![attempt] = "gone"]
    /\ Retry
    /\ UNCHANGED <<filled, bought, failed>>

(* An error; the order may rest in the book all the same. *)
PlaceFails ==
    /\ CallErrors
    /\ stage = "place"
    /\ order' \in {order, [order EXCEPT ![attempt] = "working"]}
    /\ Retry
    /\ failed' = TRUE
    /\ UNCHANGED <<filled, bought>>

(* Mutant: a partial fill is taken for a fill. *)
PollTakesPartial ==
    /\ stage = "poll"
    /\ \/ filled[attempt] > 0 /\ Return("entered")
       \/ order[attempt] = "gone" /\ Retry
       \/ /\ order[attempt] = "working" /\ late
          /\ stage' = "cancel"
          /\ UNCHANGED <<attempt, late, result>>
    /\ UNCHANGED <<book, failed>>

(* Mutant: the deadline is never looked at. *)
PollForEver ==
    /\ stage = "poll"
    /\ \/ order[attempt] = "filled" /\ Return("entered")
       \/ order[attempt] = "gone" /\ Retry
    /\ UNCHANGED <<book, failed>>

(* Mutant: a late order is quoted again without a cancel. *)
PollSkipsCancel ==
    /\ stage = "poll"
    /\ \/ order[attempt] = "filled" /\ Return("entered")
       \/ order[attempt] = "gone" /\ Retry
       \/ order[attempt] = "working" /\ late /\ Retry
    /\ UNCHANGED <<book, failed>>

(* get_order_status, every half second. *)
Poll ==
    /\ stage = "poll"
    /\ \/ order[attempt] = "filled" /\ Return("entered")
       \/ order[attempt] = "gone" /\ Retry
       \/ /\ order[attempt] = "working" /\ late
          /\ stage' = "cancel"
          /\ UNCHANGED <<attempt, late, result>>
    /\ UNCHANGED <<book, failed>>

(* `?` leaves the whole loop, and the order where it is. *)
PollFails ==
    /\ CallErrors
    /\ stage = "poll"
    /\ stage' = "fallback"
    /\ failed' = TRUE
    /\ late' = FALSE
    /\ UNCHANGED <<attempt, result, book>>

(* cancel_order at the deadline; its answer is ignored, so an order filled *)
(* meanwhile is quoted again like one that is gone.                        *)
Cancel ==
    /\ stage = "cancel"
    /\ \/ /\ order' = IF order[attempt] = "working"
                      THEN [order EXCEPT ![attempt] = "gone"] ELSE order
          /\ UNCHANGED failed
       \/ CallErrors /\ failed' = TRUE /\ UNCHANGED order
    /\ Retry
    /\ UNCHANGED <<filled, bought>>

-----------------------------------------------------------------------------
(* The dispatch in open_paper_position *)

(* The loop has failed: a market order instead, or the trade is skipped. *)
Fallback ==
    /\ stage = "fallback"
    /\ IF fallback THEN stage' = "market" /\ UNCHANGED <<attempt, late, result>>
       ELSE Return("skipped")
    /\ UNCHANGED <<book, failed>>

Market ==
    /\ stage = "market"
    /\ bought' = bought + Qty
    /\ Return("entered")
    /\ UNCHANGED <<order, filled, failed>>

MarketFails ==
    /\ CallErrors
    /\ stage = "market"
    /\ bought' \in {bought, bought + Qty}
    /\ Return("skipped")
    /\ failed' = TRUE
    /\ UNCHANGED <<order, filled>>

-----------------------------------------------------------------------------
(* The exchange and the clock *)

ExchangeFills(i) ==
    /\ order[i] = "working"
    /\ filled' = [filled EXCEPT ![i] = @ + 1]
    /\ bought' = bought + 1
    /\ order' = IF filled[i] + 1 = Qty THEN [order EXCEPT ![i] = "filled"] ELSE order
    /\ UNCHANGED <<local, failed>>

ExchangeCancels(i) ==
    /\ order[i] = "working"
    /\ order' = [order EXCEPT ![i] = "gone"]
    /\ UNCHANGED <<local, filled, bought, failed>>

DeadlinePasses ==
    /\ stage = "poll"
    /\ ~late
    /\ late' = TRUE
    /\ UNCHANGED <<stage, attempt, result, book, failed>>

Entry ==
    \/ NoQuote \/ Placed \/ PlacedExpired \/ PlaceFails \/ Poll \/ Cancel
    \/ Fallback \/ Market \/ MarketFails

Next ==
    \/ Entry
    \/ PollFails
    \/ \E i \in Attempts : ExchangeFills(i) \/ ExchangeCancels(i)
    \/ DeadlinePasses

Spec == Init /\ [][Next]_vars

(* Each call is answered or fails, and time passes.  What the exchange     *)
(* does to a resting order is up to it, and no poll has to fail: an answer *)
(* that the order still rests changes nothing until the deadline.          *)
FairSpec == Spec /\ WF_vars(Entry) /\ WF_vars(DeadlinePasses)

-----------------------------------------------------------------------------
TypeOK ==
    /\ stage \in {"place", "poll", "cancel", "fallback", "market", "done"}
    /\ attempt \in Attempts
    /\ late \in BOOLEAN
    /\ result \in {"pending", "entered", "skipped"}
    /\ order \in [Attempts -> {"none", "working", "filled", "gone"}]
    /\ filled \in [Attempts -> 0 .. Qty]
    /\ bought \in Nat
    /\ failed \in BOOLEAN

(* The opener records the whole quantity when it is told "entered"         *)
(* (positions.rs 706-713): it has then been bought, whatever partial       *)
(* fills, expiries and retries came before.                                *)
RecordedIsBought == result = "entered" => bought >= Qty

(* As long as no call fails, the only limit order left in the book is the  *)
(* one being polled: no attempt begins, no market order is sent and the    *)
(* entry does not return with an earlier order still able to fill.         *)
StrayNeedsFailure ==
    ~failed => \A i \in Attempts :
        order[i] = "working" => i = attempt /\ stage \in {"poll", "cancel"}

(* The opener is always told something: a resting order that neither fills *)
(* nor goes away is given up at the deadline (binance_executor.rs 219-223).*)
EntryReturns == <>(stage = "done")

-----------------------------------------------------------------------------
(* binance_executor.rs 135-137: an order that did not fill in time is      *)
(* cancelled and quoted again.  With no call failing, the entry then never *)
(* buys more than its quantity.                                            *)
BuysOnlyQty == bought <= Qty

=============================================================================
