-------------------------- MODULE Recovery_proofs --------------------------
(***************************************************************************)
(* Safety of restart and reconciliation for any number of symbols, crashes *)
(* and entries.  RInv says where a position on the exchange is accounted   *)
(* for in each phase; Counted, on top of it, that every position that can  *)
(* still be counted as a trade has an entry of its own, whatever account   *)
(* row the next boot reads.                                                *)
(***************************************************************************)
EXTENDS Recovery, FiniteSetTheorems, TLAPS

Busy == {"insert", "sell", "archive"}

(* Handlers only run after the boot. *)
IdleAtBoot == phase # "run" => \A s \in Symbols : pc[s] = "idle"

PaperHoldsNothing == ~Live => \A s \in Symbols : ex[s] = 0

(* The exchange reports what it holds, and holds no more afterwards. *)
AnswerCovers ==
    phase = "reconcile" => \A s \in Symbols : ex[s] > 0 => answer[s] > 0

(* A handler in the middle of an entry or a close has no record, and one   *)
(* whose close order succeeded has nothing left on the exchange.           *)
HandlersMatch ==
    \A s \in Symbols :
        /\ pc[s] \in Busy => live_positions[s] = 0
        /\ pc[s] = "archive" /\ failed = {} => ex[s] = 0

HeldIsKnown ==
    phase \in {"account", "run"} /\ failed = {} =>
        \A s \in Symbols :
            ex[s] > 0 => live_positions[s] > 0 \/ s \in unknown \/ pc[s] \in {"insert", "sell"}

RInv ==
    /\ TypeOK /\ IdleAtBoot /\ PaperHoldsNothing
    /\ AnswerCovers /\ HandlersMatch /\ HeldIsKnown

-----------------------------------------------------------------------------
LEMMA InitRInv == Init => RInv
<1> SUFFICES ASSUME Init PROVE RInv OBVIOUS
<1>1. NoPosition \in Quantities BY DEF NoPosition, Quantities
<1>2. TypeOK BY <1>1 DEF Init, TypeOK, Phases
<1>3. IdleAtBoot /\ PaperHoldsNothing /\ AnswerCovers
  BY DEF Init, IdleAtBoot, PaperHoldsNothing, AnswerCovers, NoPosition
<1>4. HandlersMatch /\ HeldIsKnown BY DEF Init, HandlersMatch, HeldIsKnown, NoPosition
<1> QED BY <1>2, <1>3, <1>4 DEF RInv

LEMMA TypeStep == TypeOK /\ [Next]_vars => TypeOK'
<1> SUFFICES ASSUME TypeOK, [Next]_vars PROVE TypeOK' OBVIOUS
<1> USE RecoveryAssumption DEF TypeOK, Quantities, Phases, volatile, pending, database, history
<1>1. CASE Hydrate
  <2>1. live_positions' \in [Symbols -> Nat] BY <1>1 DEF Hydrate
  <2> QED BY <1>1, <2>1 DEF Hydrate
<1>2. CASE QueryAnswered BY <1>2 DEF QueryAnswered
<1>3. CASE QueryFails BY <1>3 DEF QueryFails
<1>4. CASE Reconcile
  <2>1. live_positions' \in [Symbols -> Nat] BY <1>4 DEF Reconcile
  <2>2. position_writes' \subseteq [Symbols -> Nat] BY <1>4, <2>1 DEF Reconcile
  <2>3. unknown' \subseteq Symbols BY <1>4 DEF Reconcile, Unknown
  <2> QED BY <1>4, <2>1, <2>2, <2>3 DEF Reconcile
<1>5. CASE HydrateAccount BY <1>5 DEF HydrateAccount
<1>6. ASSUME NEW s \in Symbols, Enter(s) PROVE TypeOK'
  <2>1. ex' \in [Symbols -> Nat] BY <1>6 DEF Enter
  <2>2. pc' \in [Symbols -> {"idle", "insert", "sell", "archive", "persist", "account"}]
    BY <1>6 DEF Enter, Goto
  <2> QED BY <1>6, <2>1, <2>2 DEF Enter
<1>7. ASSUME NEW s \in Symbols, Insert(s) PROVE TypeOK' BY <1>7 DEF Insert, Goto
<1>8. ASSUME NEW s \in Symbols, Take(s) PROVE TypeOK'
  <2>1. pc' \in [Symbols -> {"idle", "insert", "sell", "archive", "persist", "account"}]
    BY <1>8 DEF Take, Goto
  <2> QED BY <1>8, <2>1 DEF Take
<1>9. ASSUME NEW s \in Symbols, Sell(s) PROVE TypeOK'
  <2>1. ex' \in [Symbols -> Nat] BY <1>9 DEF Sell
  <2>2. failed' \subseteq {"query", "close"} BY <1>9 DEF Sell
  <2> QED BY <1>9, <2>1, <2>2 DEF Sell, Goto
<1>10. ASSUME NEW s \in Symbols, Archive(s) PROVE TypeOK' BY <1>10 DEF Archive, Goto
<1>11. ASSUME NEW s \in Symbols, PersistPositions(s) PROVE TypeOK'
  BY <1>11 DEF PersistPositions, Goto
<1>12. ASSUME NEW s \in Symbols, PersistAccount(s) PROVE TypeOK'
  BY <1>12 DEF PersistAccount, Goto
<1>13. CASE WritePositions BY <1>13 DEF WritePositions
<1>14. CASE WriteAccount BY <1>14 DEF WriteAccount
<1>15. ASSUME NEW s \in Symbols, ExchangeReduces(s) PROVE TypeOK'
  <2>1. ex' \in [Symbols -> Nat] BY <1>15 DEF ExchangeReduces
  <2> QED BY <1>15, <2>1 DEF ExchangeReduces
<1>16. CASE Crash
  <2>1. NoPosition \in [Symbols -> Nat] BY DEF NoPosition
  <2> QED BY <1>16, <2>1 DEF Crash
<1>17. CASE UNCHANGED vars BY <1>17 DEF vars
<1> QED
  BY <1>1, <1>2, <1>3, <1>4, <1>5, <1>6, <1>7, <1>8, <1>9, <1>10, <1>11, <1>12, <1>13,
     <1>14, <1>15, <1>16, <1>17 DEF Next

-----------------------------------------------------------------------------
(* The five parts of RInv beyond the type, action by action. *)
Parts == IdleAtBoot /\ PaperHoldsNothing /\ AnswerCovers /\ HandlersMatch /\ HeldIsKnown

LEMMA PartsStep == RInv /\ [Next]_vars => Parts'
<1> SUFFICES ASSUME RInv, [Next]_vars PROVE Parts' OBVIOUS
<1> USE RecoveryAssumption
    DEF RInv, Parts, TypeOK, Quantities, Phases, IdleAtBoot, PaperHoldsNothing,
        AnswerCovers, HandlersMatch, HeldIsKnown, Busy,
        volatile, pending, database, history
<1>1. CASE Hydrate
  <2>1. live_positions' \in [Symbols -> Nat] BY <1>1 DEF Hydrate
  <2> QED BY <1>1, <2>1 DEF Hydrate
<1>2. CASE QueryAnswered BY <1>2 DEF QueryAnswered
<1>3. CASE QueryFails BY <1>3 DEF QueryFails
<1>4. CASE Reconcile
  <2>1. \A s \in Symbols : answer[s] > 0 => live_positions'[s] > 0 \/ s \in unknown'
    BY <1>4 DEF Reconcile, Unknown, Recorded, Stale, Mismatched
  <2> QED BY <1>4, <2>1 DEF Reconcile
<1>5. CASE HydrateAccount BY <1>5 DEF HydrateAccount
<1>6. ASSUME NEW s \in Symbols, Enter(s) PROVE Parts' BY <1>6 DEF Enter, Goto
<1>7. ASSUME NEW s \in Symbols, Insert(s) PROVE Parts' BY <1>7 DEF Insert, Goto
<1>8. ASSUME NEW s \in Symbols, Take(s) PROVE Parts' BY <1>8 DEF Take, Goto
<1>9. ASSUME NEW s \in Symbols, Sell(s) PROVE Parts' BY <1>9 DEF Sell, Goto
<1>10. ASSUME NEW s \in Symbols, Archive(s) PROVE Parts' BY <1>10 DEF Archive, Goto
<1>11. ASSUME NEW s \in Symbols, PersistPositions(s) PROVE Parts'
  BY <1>11 DEF PersistPositions, Goto
<1>12. ASSUME NEW s \in Symbols, PersistAccount(s) PROVE Parts'
  BY <1>12 DEF PersistAccount, Goto
<1>13. CASE WritePositions BY <1>13 DEF WritePositions
<1>14. CASE WriteAccount BY <1>14 DEF WriteAccount
<1>15. ASSUME NEW s \in Symbols, ExchangeReduces(s) PROVE Parts' BY <1>15 DEF ExchangeReduces
<1>16. CASE Crash BY <1>16 DEF Crash, NoPosition
<1>17. CASE UNCHANGED vars BY <1>17 DEF vars
<1> QED
  BY <1>1, <1>2, <1>3, <1>4, <1>5, <1>6, <1>7, <1>8, <1>9, <1>10, <1>11, <1>12, <1>13,
     <1>14, <1>15, <1>16, <1>17 DEF Next

LEMMA NextRInv == RInv /\ [Next]_vars => RInv'
BY TypeStep, PartsStep DEF RInv, Parts

(* The inductive invariant holds in every reachable state.                  *)
THEOREM RInvariance == Spec => []RInv
BY InitRInv, NextRInv, PTL DEF Spec

-----------------------------------------------------------------------------
(* What the boot and the handlers leave behind is well typed: no close     *)
(* ever drives a quantity on the exchange below zero (close_position sells *)
(* what it asked for, not what was recorded).                              *)
THEOREM RecoveryTypeCorrect == Spec => []TypeOK
BY RInvariance, PTL DEF RInv

(* For any number of crashes at any point of an entry or a close and any   *)
(* loss or reordering of snapshots, an answered boot leaves no position on *)
(* the exchange that the engine neither records nor reports.               *)
THEOREM NoOrphanIsSilent == Spec => []NoSilentOrphan
<1>1. RInv => NoSilentOrphan
  BY DEF RInv, NoSilentOrphan, HeldIsKnown, TypeOK, Quantities, Recorded
<1> QED BY <1>1, RInvariance, PTL

(* Reconciliation never forgets a position the exchange holds, answered or *)
(* not.                                                                    *)
THEOREM BootSpares == Spec => BootSparesHeld
<1>1. RInv /\ [Next]_vars
        => [Booting => \A s \in Recorded : live_positions'[s] = 0 => ex[s] = 0]_vars
  <2> SUFFICES ASSUME RInv, Next, Booting, NEW s \in Recorded, live_positions'[s] = 0
               PROVE  ex[s] = 0
    OBVIOUS
  <2> USE DEF RInv, TypeOK, Quantities, IdleAtBoot, Recorded, Booting, Goto,
              volatile, pending, database, history
  <2>1. CASE Reconcile
    BY <2>1 DEF Reconcile, AnswerCovers, Stale, Mismatched
  <2>2. CASE Hydrate BY <2>2 DEF Hydrate
  <2>3. CASE QueryAnswered \/ QueryFails \/ HydrateAccount
    BY <2>3 DEF QueryAnswered, QueryFails, HydrateAccount
  <2>4. ASSUME NEW q \in Symbols,
               \/ Enter(q) \/ Insert(q) \/ Take(q) \/ Sell(q) \/ Archive(q)
               \/ PersistPositions(q) \/ PersistAccount(q)
        PROVE  FALSE
    BY <2>4 DEF Enter, Insert, Take, Sell, Archive, PersistPositions, PersistAccount
  <2>5. ASSUME NEW q \in Symbols, ExchangeReduces(q) PROVE ex[s] = 0
    BY <2>5 DEF ExchangeReduces
  <2>6. CASE WritePositions \/ WriteAccount
    BY <2>6 DEF WritePositions, WriteAccount
  <2>7. CASE Crash BY <2>7 DEF Crash
  <2> QED BY <2>1, <2>2, <2>3, <2>4, <2>5, <2>6, <2>7 DEF Next
<1> QED BY <1>1, RInvariance, PTL DEF Spec, BootSparesHeld

-----------------------------------------------------------------------------
(* Counting.  A symbol in MayCount can still have a trade counted: one is  *)
(* held, recorded, or in a handler's hands.                                *)
MayCount ==
    {s \in Symbols : \/ pc[s] \in Busy
                     \/ ex[s] > 0
                     \/ phase \in {"account", "run"} /\ live_positions[s] > 0
                     \/ phase = "reconcile" /\ answer[s] > 0}

Totals == {closed_trades_total, db_closed} \cup account_writes

Counted == failed = {} => \A x \in Totals : x + Cardinality(MayCount) <= entries

LEMMA MayCountFinite == IsFiniteSet(MayCount) /\ Cardinality(MayCount) \in Nat
<1>1. MayCount \subseteq Symbols BY DEF MayCount
<1>2. IsFiniteSet(MayCount) BY <1>1, RecoveryAssumption, FS_Subset
<1> QED BY <1>2, FS_CardinalityType

LEMMA MayCountFiniteNext == IsFiniteSet(MayCount') /\ Cardinality(MayCount') \in Nat
<1>1. MayCount' \subseteq Symbols BY DEF MayCount
<1>2. IsFiniteSet(MayCount') BY <1>1, RecoveryAssumption, FS_Subset
<1> QED BY <1>2, FS_CardinalityType

LEMMA TotalsNat == TypeOK => Totals \subseteq Nat
BY DEF TypeOK, Totals

(* Most steps add no total but zero and no symbol. *)
LEMMA CountedKept ==
    ASSUME RInv, Counted, failed' = {} => failed = {}, entries' = entries,
           Totals' \subseteq Totals \cup {0}, MayCount' \subseteq MayCount
    PROVE  Counted'
<1> SUFFICES ASSUME failed' = {}, NEW x \in Totals' PROVE x + Cardinality(MayCount') <= entries'
  BY DEF Counted
<1>1. Cardinality(MayCount') <= Cardinality(MayCount) BY MayCountFinite, FS_Subset
<1>2. closed_trades_total + Cardinality(MayCount) <= entries BY DEF Counted, Totals
<1>3. closed_trades_total \in Nat /\ entries \in Nat /\ Totals \subseteq Nat
  BY TotalsNat DEF RInv, TypeOK
<1>4. CASE x \in Totals
  <2>1. x + Cardinality(MayCount) <= entries BY <1>4 DEF Counted
  <2> QED BY <2>1, <1>1, <1>3, <1>4, MayCountFinite, MayCountFiniteNext
<1>5. CASE x = 0 BY <1>1, <1>2, <1>3, <1>5, MayCountFinite, MayCountFiniteNext
<1> QED BY <1>4, <1>5

LEMMA InitCounted == Init => Counted
<1> SUFFICES ASSUME Init PROVE Counted OBVIOUS
<1>1. MayCount = {} BY DEF Init, MayCount, NoPosition, Busy
<1>2. Totals = {0} BY DEF Init, Totals
<1> QED BY <1>1, <1>2, FS_EmptySet DEF Counted, Init

LEMMA CountedStep ==
    ASSUME Live, RInv, Counted, Next
    PROVE  Counted'
<1> USE DEF volatile, pending, database, history
<1>1. CASE Hydrate
  <2>1. MayCount' \subseteq MayCount BY <1>1, RecoveryAssumption DEF Hydrate, MayCount
  <2> QED BY <1>1, <2>1, CountedKept DEF Hydrate, Totals
<1>2. CASE QueryAnswered
  <2>1. MayCount' \subseteq MayCount BY <1>2 DEF QueryAnswered, MayCount
  <2> QED BY <1>2, <2>1, CountedKept DEF QueryAnswered, Totals
<1>3. CASE QueryFails BY <1>3 DEF QueryFails, Counted
<1>4. CASE Reconcile
  <2>1. \A s \in Symbols : live_positions'[s] > 0 => answer[s] > 0
    BY <1>4 DEF Reconcile, Recorded, Stale, Mismatched, RInv, TypeOK, Quantities
  <2>2. MayCount' \subseteq MayCount BY <1>4, <2>1 DEF Reconcile, MayCount
  <2> QED BY <1>4, <2>2, CountedKept DEF Reconcile, Totals
<1>5. CASE HydrateAccount
  <2>1. MayCount' \subseteq MayCount BY <1>5 DEF HydrateAccount, MayCount
  <2> QED BY <1>5, <2>1, CountedKept DEF HydrateAccount, Totals
<1>6. ASSUME NEW s \in Symbols, Enter(s) PROVE Counted'
  <2>1. MayCount' \subseteq MayCount \cup {s}
    <3>1. phase' = phase /\ live_positions' = live_positions /\ answer' = answer
      BY <1>6 DEF Enter
    <3>2. \A q \in Symbols \ {s} : ex'[q] = ex[q] /\ pc'[q] = pc[q]
      BY <1>6 DEF Enter, Goto, RInv, TypeOK, Quantities
    <3> QED BY <3>1, <3>2 DEF MayCount
  <2>2. IsFiniteSet(MayCount \cup {s})
        /\ Cardinality(MayCount \cup {s}) <= Cardinality(MayCount) + 1
    <3>1. Cardinality(MayCount \cup {s})
            = IF s \in MayCount THEN Cardinality(MayCount) ELSE Cardinality(MayCount) + 1
      BY MayCountFinite, FS_AddElement
    <3>2. IsFiniteSet(MayCount \cup {s}) BY MayCountFinite, FS_AddElement
    <3> QED BY <3>1, <3>2, MayCountFinite
  <2>3. Cardinality(MayCount') <= Cardinality(MayCount \cup {s})
    BY <2>1, <2>2, FS_Subset
  <2>4. Cardinality(MayCount \cup {s}) \in Nat BY <2>2, FS_CardinalityType
  <2>5. Totals' = Totals /\ failed' = failed /\ entries' = entries + 1
    BY <1>6 DEF Enter, Totals
  <2> SUFFICES ASSUME failed = {}, NEW x \in Totals
               PROVE  x + Cardinality(MayCount') <= entries + 1
    BY <2>5 DEF Counted
  <2>6. x + Cardinality(MayCount) <= entries BY DEF Counted
  <2>7. x \in Nat /\ entries \in Nat BY TotalsNat DEF RInv, TypeOK
  <2> QED BY <2>2, <2>3, <2>4, <2>6, <2>7, MayCountFinite, MayCountFiniteNext
<1>7. ASSUME NEW s \in Symbols, Insert(s) PROVE Counted'
  <2>1. MayCount' \subseteq MayCount
    BY <1>7 DEF Insert, Goto, MayCount, Busy, RInv, TypeOK, Quantities
  <2> QED BY <1>7, <2>1, CountedKept DEF Insert, Totals
<1>8. ASSUME NEW s \in Symbols, Take(s) PROVE Counted'
  <2>1. MayCount' \subseteq MayCount
    BY <1>8 DEF Take, Goto, MayCount, RInv, TypeOK, Quantities
  <2> QED BY <1>8, <2>1, CountedKept DEF Take, Totals
<1>9. ASSUME NEW s \in Symbols, Sell(s) PROVE Counted'
  <2>1. MayCount' \subseteq MayCount
    BY <1>9 DEF Sell, Goto, MayCount, Busy, RInv, TypeOK, Quantities
  <2>2. failed' = {} => failed = {} BY <1>9 DEF Sell
  <2> QED BY <1>9, <2>1, <2>2, CountedKept DEF Sell, Totals
<1>10. ASSUME NEW s \in Symbols, Archive(s) PROVE Counted'
  <2> SUFFICES ASSUME failed = {}, NEW x \in Totals'
               PROVE  x + Cardinality(MayCount') <= entries
    BY <1>10 DEF Archive, Counted
  <2>1. s \in MayCount BY <1>10 DEF Archive, MayCount, Busy
  <2>2. phase = "run" BY <1>10 DEF Archive, RInv, IdleAtBoot
  <2>3. MayCount' \subseteq MayCount \ {s}
    BY <1>10, <2>2 DEF Archive, Goto, MayCount, Busy, RInv, TypeOK, Quantities, HandlersMatch
  <2>4. IsFiniteSet(MayCount \ {s})
        /\ Cardinality(MayCount \ {s}) = Cardinality(MayCount) - 1
    BY <2>1, MayCountFinite, FS_RemoveElement
  <2>5. Cardinality(MayCount') <= Cardinality(MayCount) - 1 BY <2>3, <2>4, FS_Subset
  <2>6. Totals \subseteq Nat /\ entries \in Nat /\ closed_trades_total \in Nat
    BY TotalsNat DEF RInv, TypeOK
  <2>7. x \in Totals \/ x = closed_trades_total + 1 BY <1>10 DEF Archive, Totals, pending
  <2>8. \A y \in Totals : y + Cardinality(MayCount) <= entries BY DEF Counted
  <2>9. closed_trades_total \in Totals BY DEF Totals
  <2>10. \E y \in Totals : x <= y + 1 /\ y \in Nat /\ x \in Nat
    <3>1. CASE x \in Totals BY <3>1, <2>6
    <3>2. CASE x = closed_trades_total + 1
      <4>1. closed_trades_total \in Totals /\ x <= closed_trades_total + 1 /\ x \in Nat
        BY <3>2, <2>6, <2>9
      <4> QED BY <4>1, <2>6
    <3> QED BY <3>1, <3>2, <2>7
  <2> QED BY <2>5, <2>6, <2>8, <2>10, MayCountFinite, MayCountFiniteNext
<1>11. ASSUME NEW s \in Symbols, PersistPositions(s) PROVE Counted'
  <2>1. MayCount' \subseteq MayCount
    BY <1>11 DEF PersistPositions, Goto, MayCount, Busy, RInv, TypeOK
  <2> QED BY <1>11, <2>1, CountedKept DEF PersistPositions, Totals
<1>12. ASSUME NEW s \in Symbols, PersistAccount(s) PROVE Counted'
  <2>1. MayCount' \subseteq MayCount
    BY <1>12 DEF PersistAccount, Goto, MayCount, Busy, RInv, TypeOK
  <2> QED BY <1>12, <2>1, CountedKept DEF PersistAccount, Totals
<1>13. CASE WritePositions
  <2>1. MayCount' \subseteq MayCount BY <1>13 DEF WritePositions, MayCount
  <2> QED BY <1>13, <2>1, CountedKept DEF WritePositions, Totals
<1>14. CASE WriteAccount
  <2>1. MayCount' \subseteq MayCount BY <1>14 DEF WriteAccount, MayCount
  <2>2. Totals' \subseteq Totals BY <1>14 DEF WriteAccount, Totals
  <2> QED BY <1>14, <2>1, <2>2, CountedKept DEF WriteAccount
<1>15. ASSUME NEW s \in Symbols, ExchangeReduces(s) PROVE Counted'
  <2>1. MayCount' \subseteq MayCount
    BY <1>15 DEF ExchangeReduces, MayCount, RInv, TypeOK, Quantities
  <2> QED BY <1>15, <2>1, CountedKept DEF ExchangeReduces, Totals
<1>16. CASE Crash
  <2>1. MayCount' \subseteq MayCount BY <1>16 DEF Crash, MayCount, Busy
  <2> QED BY <1>16, <2>1, CountedKept DEF Crash, Totals
<1> QED
  BY <1>1, <1>2, <1>3, <1>4, <1>5, <1>6, <1>7, <1>8, <1>9, <1>10, <1>11, <1>12, <1>13,
     <1>14, <1>15, <1>16, Next DEF Next

LEMMA CountedStutters == Counted /\ UNCHANGED vars => Counted'
BY DEF Counted, Totals, MayCount, vars, volatile, pending, database, history

(* What Recorded and the closers hold are different symbols of MayCount. *)
LEMMA CountedImplies == RInv /\ Counted => NeverOvercounted
<1> DEFINE Closers == {s \in Symbols : pc[s] \in {"sell", "archive"}}
<1> SUFFICES ASSUME RInv, Counted, phase = "run", failed = {}
             PROVE  closed_trades_total + Cardinality(Recorded) + Cardinality(Closers) <= entries
  BY DEF NeverOvercounted
<1>1. Recorded \cap Closers = {} BY DEF RInv, HandlersMatch, Recorded, Busy
<1>2. Recorded \cup Closers \subseteq MayCount BY DEF Recorded, MayCount, Busy
<1>3. IsFiniteSet(Recorded) /\ IsFiniteSet(Closers) BY <1>2, MayCountFinite, FS_Subset
<1>4. Cardinality(Recorded \cup Closers) = Cardinality(Recorded) + Cardinality(Closers)
  <2>1. Cardinality(Recorded \cap Closers) = 0 BY <1>1, FS_EmptySet
  <2>2. Cardinality(Recorded \cup Closers)
          = Cardinality(Recorded) + Cardinality(Closers) - Cardinality(Recorded \cap Closers)
    BY <1>3, FS_Union
  <2> QED BY <2>1, <2>2, <1>3, FS_CardinalityType
<1>5. Cardinality(Recorded \cup Closers) <= Cardinality(MayCount)
  BY <1>2, MayCountFinite, FS_Subset
<1>6. closed_trades_total + Cardinality(MayCount) <= entries BY DEF Counted, Totals
<1>7. closed_trades_total \in Nat /\ entries \in Nat BY DEF RInv, TypeOK
<1> HIDE DEF Closers
<1> QED BY <1>3, <1>4, <1>5, <1>6, <1>7, MayCountFinite, FS_CardinalityType

(* Trading live, no position is ever counted as a trade twice, whichever   *)
(* snapshot and account row the crashes leave: reconciliation drops every  *)
(* record without a position behind it.                                    *)
THEOREM LiveNeverOvercounts ==
    ASSUME Live
    PROVE  Spec => []NeverOvercounted
<1>1. RInv /\ Counted /\ [Next]_vars => Counted' BY CountedStep, CountedStutters
<1>2. Spec => [](RInv /\ Counted)
  BY <1>1, InitRInv, NextRInv, InitCounted, PTL DEF Spec
<1> QED BY <1>2, CountedImplies, PTL

=============================================================================
