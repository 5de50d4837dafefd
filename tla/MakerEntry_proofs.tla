------------------------- MODULE MakerEntry_proofs -------------------------
(***************************************************************************)
(* Safety of the maker entry for every number of attempts and every        *)
(* quantity.  The inductive invariant IInv adds to the properties what an  *)
(* order's state says of its fills (FillsMatch) and that the attempts to   *)
(* come have no order yet (FutureIsBlank); without the latter a new order  *)
(* could start with the fills of an old one.                               *)
(***************************************************************************)
EXTENDS MakerEntry, TLAPS

FillsMatch ==
    \A i \in Attempts :
        /\ filled[i] <= bought
        /\ order[i] = "filled" => filled[i] = Qty
        /\ order[i] = "working" => filled[i] < Qty

FutureIsBlank ==
    \A i \in Attempts :
        i > attempt \/ (i = attempt /\ stage = "place")
            => order[i] = "none" /\ filled[i] = 0

IInv == TypeOK /\ FillsMatch /\ FutureIsBlank /\ RecordedIsBought /\ StrayNeedsFailure

LEMMA AttemptsFact == attempts \in Nat \ {0} /\ Attempts = 1 .. attempts
BY MakerAssumption DEF attempts, Attempts

LEMMA InitIInv == Init => IInv
<1> SUFFICES ASSUME Init PROVE IInv OBVIOUS
<1>1. TypeOK
  <2>1. 1 \in Attempts /\ 0 \in 0 .. Qty BY AttemptsFact, MakerAssumption
  <2>2. order \in [Attempts -> {"none", "working", "filled", "gone"}] BY DEF Init
  <2>3. filled \in [Attempts -> 0 .. Qty] BY <2>1 DEF Init
  <2> QED BY <2>1, <2>2, <2>3 DEF Init, TypeOK
<1>2. FillsMatch /\ FutureIsBlank BY DEF Init, FillsMatch, FutureIsBlank
<1>3. RecordedIsBought /\ StrayNeedsFailure
  BY DEF Init, RecordedIsBought, StrayNeedsFailure
<1> QED BY <1>1, <1>2, <1>3 DEF IInv

-----------------------------------------------------------------------------
(* How the loop goes on after a failed attempt, once for all its actions.  *)

(* A retry keeps the attempt in range and the attempts to come blank, if    *)
(* this attempt's order is the only one the step has touched.               *)
LEMMA RetryLemma ==
    ASSUME IInv, Retry,
           \A i \in Attempts : i > attempt => order'[i] = order[i] /\ filled'[i] = filled[i]
    PROVE  /\ attempt' \in Attempts
           /\ stage' \in {"place", "fallback"}
           /\ late' \in BOOLEAN
           /\ result' = result
           /\ FutureIsBlank'
<1> USE AttemptsFact DEF IInv, TypeOK, Retry
<1>1. attempt' \in Attempts
  <2>1. CASE attempt < attempts BY <2>1
  <2>2. CASE ~(attempt < attempts) BY <2>2
  <2> QED BY <2>1, <2>2
<1>2. stage' \in {"place", "fallback"} /\ late' \in BOOLEAN /\ result' = result OBVIOUS
<1>3. ASSUME NEW i \in Attempts, i > attempt' \/ (i = attempt' /\ stage' = "place")
      PROVE  order'[i] = "none" /\ filled'[i] = 0
  <2>1. i > attempt
    <3>1. CASE attempt < attempts BY <3>1, <1>3
    <3>2. CASE ~(attempt < attempts) BY <3>2, <1>3
    <3> QED BY <3>1, <3>2
  <2> QED BY <2>1 DEF FutureIsBlank
<1>4. FutureIsBlank' BY <1>3 DEF FutureIsBlank
<1> QED BY <1>1, <1>2, <1>4

LEMMA NextIInv == IInv /\ [Next]_vars => IInv'
<1> SUFFICES ASSUME IInv, [Next]_vars PROVE IInv' OBVIOUS
<1> USE AttemptsFact, MakerAssumption
<1>1. CASE NoQuote
  <2> USE <1>1 DEF NoQuote, book
  <2>1. FutureIsBlank' /\ attempt' \in Attempts /\ stage' \in {"place", "fallback"}
        /\ late' \in BOOLEAN /\ result' = result
    BY RetryLemma DEF IInv, TypeOK
  <2>2. TypeOK' BY <2>1 DEF IInv, TypeOK
  <2>3. FillsMatch' BY DEF IInv, FillsMatch
  <2>4. RecordedIsBought' BY <2>1 DEF IInv, RecordedIsBought
  <2>5. StrayNeedsFailure' BY DEF IInv, StrayNeedsFailure
  <2> QED BY <2>1, <2>2, <2>3, <2>4, <2>5 DEF IInv
<1>2. CASE Placed
  <2> USE <1>2 DEF Placed
  <2>1. TypeOK' BY DEF IInv, TypeOK
  <2>2. FillsMatch' BY DEF IInv, TypeOK, FillsMatch, FutureIsBlank
  <2>3. FutureIsBlank' BY DEF IInv, TypeOK, FutureIsBlank
  <2>4. RecordedIsBought' BY DEF IInv, RecordedIsBought
  <2>5. StrayNeedsFailure' BY DEF IInv, TypeOK, StrayNeedsFailure
  <2> QED BY <2>1, <2>2, <2>3, <2>4, <2>5 DEF IInv
<1>3. CASE PlacedExpired
  <2> USE <1>3 DEF PlacedExpired
  <2>1. FutureIsBlank' /\ attempt' \in Attempts /\ stage' \in {"place", "fallback"}
        /\ late' \in BOOLEAN /\ result' = result
    BY RetryLemma DEF IInv, TypeOK
  <2>2. TypeOK' BY <2>1 DEF IInv, TypeOK
  <2>3. FillsMatch' BY DEF IInv, TypeOK, FillsMatch
  <2>4. RecordedIsBought' BY <2>1 DEF IInv, RecordedIsBought
  <2>5. StrayNeedsFailure' BY DEF IInv, TypeOK, StrayNeedsFailure
  <2> QED BY <2>1, <2>2, <2>3, <2>4, <2>5 DEF IInv
<1>4. CASE PlaceFails
  <2> USE <1>4 DEF PlaceFails
  <2>1. FutureIsBlank' /\ attempt' \in Attempts /\ stage' \in {"place", "fallback"}
        /\ late' \in BOOLEAN /\ result' = result
    BY RetryLemma DEF IInv, TypeOK
  <2>2. TypeOK' BY <2>1 DEF IInv, TypeOK
  <2>3. FillsMatch' BY DEF IInv, TypeOK, FillsMatch, FutureIsBlank
  <2>4. RecordedIsBought' BY <2>1 DEF IInv, RecordedIsBought
  <2>5. StrayNeedsFailure' BY DEF StrayNeedsFailure
  <2> QED BY <2>1, <2>2, <2>3, <2>4, <2>5 DEF IInv
<1>5. CASE Poll
  <2> USE <1>5 DEF book
  <2>1. CASE order[attempt] = "filled" /\ Return("entered")
    <3> USE <2>1 DEF Poll, Return
    <3>1. TypeOK' BY DEF IInv, TypeOK
    <3>2. FillsMatch' BY DEF IInv, FillsMatch
    <3>3. FutureIsBlank' BY DEF IInv, TypeOK, FutureIsBlank
    <3>4. RecordedIsBought' BY DEF IInv, TypeOK, FillsMatch, RecordedIsBought
    <3>5. StrayNeedsFailure' BY DEF IInv, StrayNeedsFailure
    <3> QED BY <3>1, <3>2, <3>3, <3>4, <3>5 DEF IInv
  <2>2. CASE order[attempt] = "gone" /\ Retry
    <3> USE <2>2 DEF Poll
    <3>1. FutureIsBlank' /\ attempt' \in Attempts /\ stage' \in {"place", "fallback"}
          /\ late' \in BOOLEAN /\ result' = result
      BY RetryLemma DEF IInv, TypeOK
    <3>2. TypeOK' BY <3>1 DEF IInv, TypeOK
    <3>3. FillsMatch' BY DEF IInv, FillsMatch
    <3>4. RecordedIsBought' BY <3>1 DEF IInv, RecordedIsBought
    <3>5. StrayNeedsFailure' BY DEF IInv, StrayNeedsFailure
    <3> QED BY <3>1, <3>2, <3>3, <3>4, <3>5 DEF IInv
  <2>3. CASE stage' = "cancel" /\ UNCHANGED <<attempt, late, result>>
    <3> USE <2>3 DEF Poll
    <3>1. TypeOK' BY DEF IInv, TypeOK
    <3>2. FillsMatch' BY DEF IInv, FillsMatch
    <3>3. FutureIsBlank' BY DEF IInv, TypeOK, FutureIsBlank
    <3>4. RecordedIsBought' BY DEF IInv, RecordedIsBought
    <3>5. StrayNeedsFailure' BY DEF IInv, StrayNeedsFailure
    <3> QED BY <3>1, <3>2, <3>3, <3>4, <3>5 DEF IInv
  <2> QED BY <2>1, <2>2, <2>3 DEF Poll
<1>6. CASE PollFails
  <2> USE <1>6 DEF PollFails, book
  <2>1. TypeOK' /\ FutureIsBlank' BY DEF IInv, TypeOK, FutureIsBlank
  <2>2. FillsMatch' /\ RecordedIsBought' /\ StrayNeedsFailure'
    BY DEF IInv, FillsMatch, RecordedIsBought, StrayNeedsFailure
  <2> QED BY <2>1, <2>2 DEF IInv
<1>7. CASE Cancel
  <2> USE <1>7 DEF Cancel
  <2>1. FutureIsBlank' /\ attempt' \in Attempts /\ stage' \in {"place", "fallback"}
        /\ late' \in BOOLEAN /\ result' = result
    BY RetryLemma DEF IInv, TypeOK
  <2>2. TypeOK' BY <2>1 DEF IInv, TypeOK
  <2>3. FillsMatch' BY DEF IInv, TypeOK, FillsMatch
  <2>4. RecordedIsBought' BY <2>1 DEF IInv, RecordedIsBought
  <2>5. StrayNeedsFailure' BY DEF IInv, TypeOK, StrayNeedsFailure
  <2> QED BY <2>1, <2>2, <2>3, <2>4, <2>5 DEF IInv
<1>8. CASE Fallback
  <2> USE <1>8 DEF Fallback, Return, book
  <2>1. TypeOK' /\ FutureIsBlank' BY DEF IInv, TypeOK, FutureIsBlank
  <2>2. FillsMatch' /\ RecordedIsBought' /\ StrayNeedsFailure'
    BY DEF IInv, FillsMatch, RecordedIsBought, StrayNeedsFailure
  <2> QED BY <2>1, <2>2 DEF IInv
<1>9. CASE Market \/ MarketFails
  <2> USE <1>9 DEF Market, MarketFails, Return
  <2>1. bought \in Nat /\ bought' \in {bought, bought + Qty} BY DEF IInv, TypeOK
  <2>2. bought' \in Nat BY <2>1
  <2>3. failed' \in BOOLEAN BY DEF IInv, TypeOK
  <2>4. TypeOK' BY <2>2, <2>3 DEF IInv, TypeOK
  <2>5. FutureIsBlank' BY DEF IInv, TypeOK, FutureIsBlank
  <2>6. FillsMatch' BY <2>1 DEF IInv, TypeOK, FillsMatch
  <2>7. RecordedIsBought' BY <2>1 DEF RecordedIsBought
  <2>8. StrayNeedsFailure' BY DEF IInv, StrayNeedsFailure
  <2> QED BY <2>4, <2>5, <2>6, <2>7, <2>8 DEF IInv
<1>10. ASSUME NEW i \in Attempts, ExchangeFills(i) PROVE IInv'
  <2> USE <1>10 DEF ExchangeFills, local
  <2>1. TypeOK' BY DEF IInv, TypeOK, FillsMatch
  <2>2. FillsMatch' BY DEF IInv, TypeOK, FillsMatch
  <2>3. FutureIsBlank' BY DEF IInv, TypeOK, FutureIsBlank
  <2>4. RecordedIsBought' BY DEF IInv, TypeOK, RecordedIsBought
  <2>5. StrayNeedsFailure' BY DEF IInv, TypeOK, StrayNeedsFailure
  <2> QED BY <2>1, <2>2, <2>3, <2>4, <2>5 DEF IInv
<1>11. ASSUME NEW i \in Attempts, ExchangeCancels(i) PROVE IInv'
  <2> USE <1>11 DEF ExchangeCancels, local
  <2>1. TypeOK' BY DEF IInv, TypeOK
  <2>2. FillsMatch' BY DEF IInv, TypeOK, FillsMatch
  <2>3. FutureIsBlank' BY DEF IInv, TypeOK, FutureIsBlank
  <2>4. RecordedIsBought' BY DEF IInv, RecordedIsBought
  <2>5. StrayNeedsFailure' BY DEF IInv, TypeOK, StrayNeedsFailure
  <2> QED BY <2>1, <2>2, <2>3, <2>4, <2>5 DEF IInv
<1>12. CASE DeadlinePasses
  <2> USE <1>12 DEF DeadlinePasses, book
  <2>1. TypeOK' /\ FutureIsBlank' BY DEF IInv, TypeOK, FutureIsBlank
  <2>2. FillsMatch' /\ RecordedIsBought' /\ StrayNeedsFailure'
    BY DEF IInv, FillsMatch, RecordedIsBought, StrayNeedsFailure
  <2> QED BY <2>1, <2>2 DEF IInv
<1>13. CASE UNCHANGED vars
  BY <1>13 DEF IInv, TypeOK, FillsMatch, FutureIsBlank, RecordedIsBought,
               StrayNeedsFailure, vars, local, book
<1> QED
  BY <1>1, <1>2, <1>3, <1>4, <1>5, <1>6, <1>7, <1>8, <1>9, <1>10, <1>11, <1>12, <1>13
  DEF Next, Entry

(* The inductive invariant holds in every reachable state.                  *)
THEOREM Invariance == Spec => []IInv
BY InitIInv, NextIInv, PTL DEF Spec

-----------------------------------------------------------------------------
(* The entry stays within its attempts and no order is filled beyond its   *)
(* quantity (place_smart_limit_entry).                                     *)
THEOREM EntryTypeCorrect == Spec => []TypeOK
BY Invariance, PTL DEF IInv

(* What the opener records has been bought, for any number of attempts and *)
(* any order of partial fills, expiries, late answers and failed calls.    *)
THEOREM EnteredIsBought == Spec => []RecordedIsBought
BY Invariance, PTL DEF IInv

(* An order can only be left behind by a call that failed.                 *)
THEOREM NoStrayOrder == Spec => []StrayNeedsFailure
BY Invariance, PTL DEF IInv

=============================================================================
