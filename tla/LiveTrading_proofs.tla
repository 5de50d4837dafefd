------------------------- MODULE LiveTrading_proofs -------------------------
(***************************************************************************)
(* Invariance proofs for LiveTrading, and its refinement of PositionLedger,*)
(* for any finite sets of symbols and any tuning.                          *)
(***************************************************************************)
EXTENDS LiveTrading, FiniteSetTheorems, SequenceTheorems, TLAPS

(* Stages in which an opener has passed the gate and not yet inserted. *)
InFlight == {"armed", "order", "protect", "ref", "insert"}

(* Stages in which a closer may hold a removed position. *)
Holding == {"refs", "cancel", "unref", "query", "market", "archive"}

(* What each stage of a handler may rely on: one opener per symbol, so the *)
(* map stays empty from the gate to the insert; a capped generic opening   *)
(* holds its guard that long; only a closer past its removal holds a       *)
(* position; the background tasks never open.                              *)
StageDiscipline ==
    /\ \A s \in Symbols : slot[s] => s \in Generic /\ pc[s] \in InFlight \cup {"exit"}
    /\ \A s \in Symbols : pc[s] \in InFlight => live_positions[s] = Flat
    /\ \A s \in Generic : pc[s] \in InFlight /\ Cap(dir[s]) > 0 => slot[s]
    /\ \A a \in Actors : target[a] # Flat => pc[a] \in Holding
    /\ \A a \in {Ws, Psync} : pc[a] \notin OpenStages

(* Reserved slots exist only in capped directions, and the cap holds. *)
IInv == TypeOK /\ StageDiscipline /\ PendingExact /\ CapRespected /\ LedgerBalanced

-----------------------------------------------------------------------------
(* Finitely many symbols, finitely many actors; every symbol has its task. *)
LEMMA SymbolsFinite ==
    /\ IsFiniteSet(Symbols)
    /\ IsFiniteSet(Actors)
    /\ Symbols \subseteq Actors
<1>1. IsFiniteSet(Symbols)
  BY SymbolAssumption, FS_Union DEF Symbols
<1>2. Actors = (Symbols \cup {Ws}) \cup {Psync}
  BY DEF Actors
<1>3. IsFiniteSet(Symbols \cup {Ws})
  BY <1>1, FS_AddElement
<1>4. IsFiniteSet(Actors)
  BY <1>2, <1>3, FS_AddElement
<1> QED BY <1>1, <1>4 DEF Actors

(* A held guard is counted: the counter can be decremented. *)
LEMMA ReservedCounted ==
    ASSUME TypeOK, PendingExact, NEW s \in Symbols, slot[s]
    PROVE  pending_open[dir[s]] > 0
<1>1. dir[s] \in Dirs BY DEF TypeOK
<1>2. IsFiniteSet(Reserved(dir[s]))
  BY SymbolsFinite, FS_Subset DEF Reserved
<1>3. Reserved(dir[s]) # {} BY <1>1 DEF Reserved
<1> QED BY <1>1, <1>2, <1>3, FS_EmptySet, FS_CardinalityType DEF PendingExact

(* A handler that returns is bound to some symbol again. *)
LEMMA HomeType == \A a \in Actors : Home(a) \in Symbols
BY SymbolAssumption DEF Home, Symbols, Actors

-----------------------------------------------------------------------------
(* Type correctness *)

(* The engine starts with nothing open, pending or in flight. *)
LEMMA InitType == Init => TypeOK
<1> SUFFICES ASSUME Init PROVE TypeOK OBVIOUS
<1>1. \A a \in Actors : Home(a) \in Symbols BY HomeType
<1>2. fills \in Seq([sym : Symbols, id : OrderIds]) BY DEF Init
<1> QED BY <1>1, <1>2, SymbolsFinite
    DEF Init, TypeOK, Stages, Dirs, NoDir, Home, OpenStages, CloseStages

(* Every handler stretch keeps the types; only a return needs the counter  *)
(* to be exact, since it decrements it.                                    *)
LEMMA TypeStep == TypeOK /\ PendingExact /\ [Next]_vars => TypeOK'
<1> SUFFICES ASSUME TypeOK, PendingExact, [Next]_vars PROVE TypeOK'
  OBVIOUS
<1> USE DEF TypeOK, ledger, gateVars, guards, closing, exchange, Goto
<1>0. Symbols \subseteq Actors /\ Ws \in Actors /\ Psync \in Actors /\ Generic \subseteq Symbols
  BY DEF Actors, Symbols
<1>r. ASSUME NEW s \in Symbols, Release(s)
      PROVE  /\ pending_open' \in [Dirs -> Nat]
             /\ slot' \in [Symbols -> BOOLEAN]
             /\ ids' \in [Actors -> SUBSET OrderIds]
             /\ dir' \in [Symbols -> Dirs]
             /\ pc' \in [Actors -> Stages]
  <2>1. slot[s] => pending_open[dir[s]] > 0 BY ReservedCounted
  <2>2. pending_open' \in [Dirs -> Nat]
    <3>1. CASE slot[s]
      <4>1. dir[s] \in Dirs /\ pending_open[dir[s]] - 1 \in Nat BY <2>1, <3>1
      <4> QED BY <1>r, <3>1, <4>1 DEF Release
    <3>2. CASE ~slot[s] BY <1>r, <3>2 DEF Release
    <3> QED BY <3>1, <3>2
  <2>3. pc' \in [Actors -> Stages] BY <1>0, <1>r DEF Release, Stages
  <2>4. dir' \in [Symbols -> Dirs] BY <1>r DEF Release, NoDir, Dirs
  <2> QED BY <1>0, <1>r, <2>2, <2>3, <2>4 DEF Release
<1>h. \A a \in Actors : Home(a) \in Symbols /\ (a \in Symbols => Home(a) = a)
  BY HomeType DEF Home
<1>1. CASE StartTasks
  <2>1. tracks' \in [Generic -> {0, 1, Tracks}] BY <1>1 DEF StartTasks
  <2>2. {0, 1, Tracks} \subseteq Nat BY TuningAssumption
  <2>3. tracks' \in [Generic -> Nat] BY <2>1, <2>2
  <2> QED BY <1>1, <2>3 DEF StartTasks
<1>2. ASSUME NEW s \in Generic, EndTask(s) PROVE TypeOK'
  BY <1>2 DEF EndTask, TaskOver
<1>3. ASSUME NEW s \in Symbols, Opening(s) PROVE TypeOK'
  <2>1. ASSUME NEW d \in Dirs, OpenAttempt(s, d) PROVE TypeOK'
    <3>1. tracks' \in [Generic -> Nat]
      <4>1. s \in Generic => s \notin Book /\ tracks[s] \in Nat BY SymbolAssumption
      <4>2. s \in Generic => tracks[s] - 1 \in Nat BY <2>1, <4>1 DEF OpenAttempt, Turn
      <4> QED BY <2>1, <4>2 DEF OpenAttempt
    <3> QED BY <1>0, <2>1, <3>1 DEF OpenAttempt, Stages, OpenStages
  <2>2. CASE GateAdmit(s)
    <3>1. pending_open' \in [Dirs -> Nat] BY <2>2 DEF GateAdmit
    <3>2. pc' \in [Actors -> Stages] BY <1>0, <2>2 DEF GateAdmit, Stages, OpenStages
    <3>3. slot' \in [Symbols -> BOOLEAN]
      BY <2>2, SMT DEF GateAdmit
    <3> QED BY <2>2, <3>1, <3>2, <3>3 DEF GateAdmit
  <2>3. CASE GateRefuse(s) BY <1>r, <2>3 DEF GateRefuse
  <2>4. CASE GiveUp(s) BY <1>r, <2>4 DEF GiveUp
  <2>5. CASE PassBlock(s) BY <1>0, <2>5 DEF PassBlock, Stages, OpenStages
  <2>6. CASE EntryBlocked(s) BY <1>r, <2>6 DEF EntryBlocked, Trip
  <2>7. CASE EntryFilled(s)
    <3>1. pc' \in [Actors -> Stages] BY <1>0, <2>7 DEF EntryFilled, Stages, OpenStages
    <3>2. ex' \in [Symbols -> Int] BY <2>7 DEF EntryFilled, Sign
    <3> QED BY <2>7, <3>1, <3>2 DEF EntryFilled
  <2>8. CASE Protect(s)
    <3>1. PICK kinds \in SUBSET {"SL", "TP"} :
            LET new == [kind : kinds, n : {opened[s]}, dir : {dir[s]}]
            IN  /\ ids' = [ids EXCEPT ![s] = new]
                /\ orders' = [orders EXCEPT ![s] = @ \cup new]
      BY <2>8 DEF Protect
    <3>2. [kind : kinds, n : {opened[s]}, dir : {dir[s]}] \subseteq OrderIds
      BY DEF OrderIds
    <3> QED BY <1>0, <2>8, <3>1, <3>2 DEF Protect, Stages, OpenStages
  <2>9. CASE SealRefs(s) BY <1>0, <2>9 DEF SealRefs, Trip, Stages, OpenStages
  <2>10. CASE Insert(s)
    <3>1. pc' \in [Actors -> Stages] BY <1>0, <2>10 DEF Insert, Stages, OpenStages
    <3>2. live_positions' \in [Symbols -> Dirs \cup {Flat}] BY <2>10 DEF Insert
    <3>3. opened' \in [Symbols -> Nat]
      <4>1. opened' = [opened EXCEPT ![s] = @ + 1] BY <2>10 DEF Insert
      <4>2. opened[s] + 1 \in Nat OBVIOUS
      <4> QED BY <4>1, <4>2
    <3> QED BY <2>10, <3>1, <3>2, <3>3 DEF Insert
  <2>11. CASE OpenReturns(s)
    <3>1. \/ tracks' = [tracks EXCEPT ![s] = 0]
          \/ tracks' = tracks
      BY <2>11, Zenon DEF OpenReturns, TaskOver
    <3>2. tracks' \in [Generic -> Nat]
      <4>1. tracks \in [Generic -> Nat] OBVIOUS
      <4>2. [tracks EXCEPT ![s] = 0] \in [Generic -> Nat] BY <4>1
      <4> QED BY <3>1, <4>1, <4>2, Zenon
    <3>3. Release(s) /\ UNCHANGED <<ledger, live_orders, guards, sym, closing, scan, exchange>>
      BY <2>11 DEF OpenReturns
    <3> QED BY <1>r, <3>2, <3>3
  <2> QED BY <1>3, <2>1, <2>2, <2>3, <2>4, <2>5, <2>6, <2>7, <2>8, <2>9, <2>10, <2>11
          DEF Opening
<1>4. ASSUME NEW s \in Symbols, EngineClose(s) PROVE TypeOK'
  BY <1>0, <1>4 DEF EngineClose, TaskOver, Stages, CloseStages
<1>5. ASSUME NEW a \in Actors, Closing(a) PROVE TypeOK'
  <2> USE DEF Stages, CloseStages
  <2>0. sym[a] \in Symbols OBVIOUS
  <2>1. CASE Remove(a) BY <2>0, <2>1 DEF Remove, Flat
  <2>2. CASE ReadRefs(a) BY <2>0, <2>2 DEF ReadRefs
  <2>3. CASE Cancel(a) BY <2>0, <2>3 DEF Cancel
  <2>4. CASE Unref(a) BY <2>0, <2>4 DEF Unref
  <2>5. CASE Query(a) BY <2>0, <2>5 DEF Query
  <2>6. CASE MarketClose(a)
    <3>1. ex' \in [Symbols -> Int] BY <2>0, <2>6 DEF MarketClose
    <3> QED BY SMTT(20), <2>0, <2>6, <3>1 DEF MarketClose
  <2>7. CASE Archive(a)
    <3>1. closed_trades' \in [Symbols -> Nat]
      <4>1. \/ closed_trades' = [closed_trades EXCEPT ![sym[a]] = @ + 1]
            \/ closed_trades' = closed_trades
        BY <2>7 DEF Archive
      <4>2. closed_trades[sym[a]] + 1 \in Nat BY <2>0
      <4> QED BY <2>0, <4>1, <4>2
    <3>2. last_close_fresh' \in [Symbols -> BOOLEAN]
      <4>1. \/ last_close_fresh' = [last_close_fresh EXCEPT ![sym[a]] = ReentryCooldown]
            \/ last_close_fresh' = last_close_fresh
        BY <2>7 DEF Archive
      <4>2. ReentryCooldown \in BOOLEAN BY TuningAssumption
      <4>3. last_close_fresh \in [Symbols -> BOOLEAN] OBVIOUS
      <4> HIDE DEF TypeOK
      <4> QED BY <2>0, <4>1, <4>2, <4>3, Zenon
    <3>3. sym' \in [Actors -> Symbols] /\ \A s \in Symbols : sym'[s] = s
      BY <1>0, <1>h, <2>7 DEF Archive, Return
    <3>4. pc' \in [Actors -> Stages] BY <2>7 DEF Archive, Return
    <3>5. target' \in [Actors -> Dirs \cup {Flat}] BY <2>7 DEF Archive
    <3> QED BY <2>7, <3>1, <3>2, <3>3, <3>4, <3>5 DEF Archive
  <2> QED BY <1>5, <2>1, <2>2, <2>3, <2>4, <2>5, <2>6, <2>7 DEF Closing
<1>6. CASE WsFill
  <2>1. Head(fills) \in [sym : Symbols, id : OrderIds] /\ fills' \in Seq([sym : Symbols, id : OrderIds])
    <3>1. fills \in Seq([sym : Symbols, id : OrderIds]) /\ fills # <<>> BY <1>6 DEF WsFill
    <3> QED BY <1>6, <3>1, HeadTailProperties DEF WsFill
  <2>2. Ws \notin Symbols BY SymbolAssumption DEF Symbols
  <2> QED BY <1>0, <1>6, <2>1, <2>2 DEF WsFill, Stages
<1>7. ASSUME NEW a \in {Ws, Psync}, CancelAll(a) PROVE TypeOK'
  <2>1. sym[a] \in Symbols BY <1>0
  <2>2. pc' \in [Actors -> Stages] BY <1>0, <1>7 DEF CancelAll, Stages, CloseStages
  <2>3. orders' \in [Symbols -> SUBSET OrderIds]
    <3>1. PICK left \in {{}} \cup (IF ExchangeErrors THEN {orders[sym[a]]} ELSE {}) :
            orders' = [orders EXCEPT ![sym[a]] = left]
      BY <1>7 DEF CancelAll
    <3>2. left \in SUBSET OrderIds BY <2>1
    <3> QED BY <2>1, <3>1, <3>2
  <2> QED BY <1>7, <2>2, <2>3 DEF CancelAll
<1>8. ASSUME NEW a \in {Ws, Psync}, CandlesMissing(a) PROVE TypeOK'
  BY <1>0, <1>h, <1>8 DEF CandlesMissing, Return, Stages
<1>9. CASE SyncSnapshot BY <1>9 DEF SyncSnapshot
<1>10. ASSUME NEW s \in Generic, SyncAnswered(s) PROVE TypeOK'
  <2>1. Psync \notin Symbols BY SymbolAssumption DEF Symbols
  <2>2. \/ /\ sym' = [sym EXCEPT ![Psync] = s]
           /\ \/ pc' = [pc EXCEPT ![Psync] = "synccancel"]
              \/ pc' = [pc EXCEPT ![Psync] = "remove"]
        \/ sym' = sym /\ pc' = pc
    BY <1>10, Zenon DEF SyncAnswered
  <2>3. pc' \in [Actors -> Stages] BY <1>0, <2>2 DEF Stages, CloseStages
  <2>4. sym' \in [Actors -> Symbols]
    <3>1. s \in Symbols BY <1>0
    <3> QED BY ZenonT(40), <1>0, <2>2, <3>1
  <2>5. \A t \in Symbols : sym'[t] = t BY <1>0, <2>1, <2>2
  <2> QED BY <1>10, <2>3, <2>4, <2>5 DEF SyncAnswered
<1>11. ASSUME NEW s \in Generic, SyncError(s) PROVE TypeOK'
  BY <1>11 DEF SyncError
<1>12. ASSUME NEW s \in Symbols, Delist(s) PROVE TypeOK'
  BY SMTT(20), <1>12 DEF Delist, Flat
<1>13. ASSUME NEW s \in Symbols, Trigger(s) PROVE TypeOK'
  <2>1. PICK o \in orders[s] :
          /\ ex' = [ex EXCEPT ![s] = @ - Sign(o.dir)]
          /\ orders' = [orders EXCEPT ![s] = @ \ {o}]
          /\ fills' = Append(fills, [sym |-> s, id |-> o])
    BY <1>13 DEF Trigger
  <2>2. o \in OrderIds /\ Sign(o.dir) \in Int BY DEF Sign
  <2>3. fills' \in Seq([sym : Symbols, id : OrderIds]) BY <2>1, <2>2
  <2> QED BY SMTT(30), <1>13, <2>1, <2>2, <2>3 DEF Trigger
<1>14. ASSUME NEW s \in Symbols, CooldownElapses(s) PROVE TypeOK'
  BY <1>14 DEF CooldownElapses
<1>15. CASE LoseFills BY SMTT(20), <1>15 DEF LoseFills
<1>16. CASE BlockExpires BY <1>16 DEF BlockExpires
<1>17. CASE UNCHANGED vars BY <1>17 DEF vars
<1> QED BY <1>1, <1>2, <1>3, <1>4, <1>5, <1>6, <1>7, <1>8, <1>9, <1>10, <1>11, <1>12,
           <1>13, <1>14, <1>15, <1>16, <1>17 DEF Next

-----------------------------------------------------------------------------
(* The discipline of stages *)

(* Each step leaves every handler in a stage that keeps its promises. *)
LEMMA StageStep == TypeOK /\ StageDiscipline /\ [Next]_vars => StageDiscipline'
<1> SUFFICES ASSUME TypeOK, StageDiscipline, [Next]_vars PROVE StageDiscipline'
  OBVIOUS
<1>0. /\ Symbols \subseteq Actors /\ Ws \in Actors /\ Psync \in Actors
      /\ Generic \subseteq Symbols /\ Ws \notin Symbols /\ Psync \notin Symbols
      /\ Ws # Psync
  BY SymbolAssumption DEF Actors, Symbols
<1>t. /\ pc \in [Actors -> Stages]
      /\ live_positions \in [Symbols -> Dirs \cup {Flat}]
      /\ target \in [Actors -> Dirs \cup {Flat}]
      /\ sym \in [Actors -> Symbols]
      /\ dir \in [Symbols -> Dirs]
      /\ slot \in [Symbols -> BOOLEAN]
  BY DEF TypeOK
<1> USE DEF StageDiscipline, ledger, gateVars, guards, closing, exchange, Goto,
            InFlight, Holding, OpenStages
<1>r. ASSUME NEW s \in Symbols, Release(s), UNCHANGED <<live_positions, target>>,
             pc[s] \in OpenStages
      PROVE  StageDiscipline'
  <2>1. /\ slot' = [slot EXCEPT ![s] = FALSE]
        /\ dir' = [dir EXCEPT ![s] = NoDir]
        /\ pc' = [pc EXCEPT ![s] = "idle"]
        /\ UNCHANGED <<live_positions, target>>
    BY <1>r DEF Release
  <2>2. \A t \in Symbols : slot'[t] => t # s /\ slot[t]
    BY <1>t, <2>1
  <2>3. \A a \in Actors : pc'[a] = IF a = s THEN "idle" ELSE pc[a]
    BY <1>t, <2>1
  <2>4. \A t \in Symbols : t # s => dir'[t] = dir[t] /\ (slot[t] => slot'[t])
    BY <1>t, <2>1
  <2>5. s \notin {Ws, Psync} /\ target'= target /\ live_positions' = live_positions
    BY <1>0, <2>1
  <2>6. target[s] = Flat BY <1>0, <1>r
  <2>7. \A t \in Symbols : slot'[t] => t \in Generic /\ pc'[t] \in InFlight \cup {"exit"}
    BY <1>0, <2>2, <2>3
  <2>8. \A t \in Symbols : pc'[t] \in InFlight => live_positions'[t] = Flat
    BY <1>0, <2>3, <2>5
  <2>9. ASSUME NEW t \in Generic, pc'[t] \in InFlight, Cap(dir'[t]) > 0 PROVE slot'[t]
    <3>1. t # s /\ t \in Symbols BY <1>0, <2>3, <2>9
    <3>2. pc[t] \in InFlight /\ dir'[t] = dir[t] BY <1>0, <2>3, <2>4, <2>9, <3>1
    <3> QED BY <2>4, <2>9, <3>1, <3>2
  <2>10. \A a \in Actors : target'[a] # Flat => pc'[a] \in Holding
    BY <2>3, <2>5, <2>6
  <2>11. \A a \in {Ws, Psync} : pc'[a] \notin OpenStages
    BY <1>0, <2>3, <2>5
  <2> QED BY <2>7, <2>8, <2>9, <2>10, <2>11
<1>1. CASE StartTasks BY <1>1 DEF StartTasks
<1>2. ASSUME NEW s \in Generic, EndTask(s) PROVE StageDiscipline'
  BY <1>2 DEF EndTask
<1>3. ASSUME NEW s \in Symbols, Opening(s) PROVE StageDiscipline'
  <2>1. ASSUME NEW d \in Dirs, OpenAttempt(s, d) PROVE StageDiscipline'
    BY <1>0, <1>t, <2>1 DEF OpenAttempt, Turn
  <2>2. CASE GateAdmit(s) BY <1>0, <1>t, <2>2 DEF GateAdmit
  <2>3. CASE GateRefuse(s) BY <1>r, <2>3 DEF GateRefuse
  <2>4. CASE GiveUp(s) BY <1>r, <2>4 DEF GiveUp
  <2>5. CASE PassBlock(s) BY <1>0, <1>t, <2>5 DEF PassBlock
  <2>6. CASE EntryBlocked(s) BY <1>r, <2>6 DEF EntryBlocked
  <2>7. CASE EntryFilled(s) BY <1>0, <1>t, <2>7 DEF EntryFilled
  <2>8. CASE Protect(s) BY <1>0, <1>t, <2>8 DEF Protect
  <2>9. CASE SealRefs(s) BY <1>0, <1>t, <2>9 DEF SealRefs
  <2>10. CASE Insert(s) BY <1>0, <1>t, <2>10 DEF Insert
  <2>11. CASE OpenReturns(s) BY <1>r, <2>11 DEF OpenReturns
  <2> QED BY <1>3, <2>1, <2>2, <2>3, <2>4, <2>5, <2>6, <2>7, <2>8, <2>9, <2>10, <2>11
          DEF Opening
<1>4. ASSUME NEW s \in Symbols, EngineClose(s) PROVE StageDiscipline'
  BY <1>0, <1>t, <1>4 DEF EngineClose, Turn
<1>5. ASSUME NEW a \in Actors, Closing(a) PROVE StageDiscipline'
  <2>1. CASE Remove(a) BY <1>0, <1>t, <2>1 DEF Remove
  <2>2. CASE ReadRefs(a) BY <1>0, <1>t, <2>2 DEF ReadRefs
  <2>3. CASE Cancel(a) BY <1>0, <1>t, <2>3 DEF Cancel
  <2>4. CASE Unref(a) BY <1>0, <1>t, <2>4 DEF Unref
  <2>5. CASE Query(a) BY <1>0, <1>t, <2>5 DEF Query
  <2>6. CASE MarketClose(a) BY <1>0, <1>t, <2>6 DEF MarketClose
  <2>7. CASE Archive(a) BY <1>0, <1>t, <2>7 DEF Archive, Return
  <2> QED BY <1>5, <2>1, <2>2, <2>3, <2>4, <2>5, <2>6, <2>7 DEF Closing
<1>6. CASE WsFill
  <2>1. \/ pc' = [pc EXCEPT ![Ws] = "wscancel"]
        \/ pc' = pc
    BY <1>6, Zenon DEF WsFill
  <2>2. pc[Ws] = "idle" /\ UNCHANGED <<live_positions, target, dir, slot>>
    BY <1>6 DEF WsFill
  <2> QED BY <1>0, <1>t, <2>1, <2>2
<1>7. ASSUME NEW a \in {Ws, Psync}, CancelAll(a) PROVE StageDiscipline'
  BY <1>0, <1>t, <1>7 DEF CancelAll
<1>8. ASSUME NEW a \in {Ws, Psync}, CandlesMissing(a) PROVE StageDiscipline'
  BY <1>0, <1>t, <1>8 DEF CandlesMissing, Return
<1>9. CASE SyncSnapshot BY <1>9 DEF SyncSnapshot
<1>10. ASSUME NEW s \in Generic, SyncAnswered(s) PROVE StageDiscipline'
  <2>1. \/ pc' = [pc EXCEPT ![Psync] = "synccancel"]
        \/ pc' = [pc EXCEPT ![Psync] = "remove"]
        \/ pc' = pc
    BY <1>10, Zenon DEF SyncAnswered
  <2>2. pc[Psync] = "idle" /\ UNCHANGED <<live_positions, target, dir, slot>>
    BY <1>10 DEF SyncAnswered
  <2> QED BY SMTT(20), <1>0, <1>t, <2>1, <2>2
<1>11. ASSUME NEW s \in Generic, SyncError(s) PROVE StageDiscipline'
  BY <1>11 DEF SyncError
<1>12. ASSUME NEW s \in Symbols, Delist(s) PROVE StageDiscipline'
  BY <1>t, <1>12 DEF Delist
<1>13. ASSUME NEW s \in Symbols, Trigger(s) PROVE StageDiscipline'
  BY <1>13 DEF Trigger
<1>14. ASSUME NEW s \in Symbols, CooldownElapses(s) PROVE StageDiscipline'
  BY <1>14 DEF CooldownElapses
<1>15. CASE LoseFills BY <1>15 DEF LoseFills
<1>16. CASE BlockExpires BY <1>16 DEF BlockExpires
<1>17. CASE UNCHANGED vars BY <1>17 DEF vars
<1> QED BY <1>1, <1>2, <1>3, <1>4, <1>5, <1>6, <1>7, <1>8, <1>9, <1>10, <1>11, <1>12,
           <1>13, <1>14, <1>15, <1>16, <1>17 DEF Next

-----------------------------------------------------------------------------
(* The pending counter *)

(* Steps that touch neither the guards nor the counter. *)
LEMMA PendingKept ==
    ASSUME PendingExact, UNCHANGED <<slot, dir, pending_open>>
    PROVE  PendingExact'
BY DEF PendingExact, Reserved

(* A return drops the guard it holds, and only that one. *)
LEMMA PendingRelease ==
    ASSUME TypeOK, PendingExact, NEW s \in Symbols, Release(s)
    PROVE  PendingExact'
<1>t. /\ dir \in [Symbols -> Dirs]
      /\ slot \in [Symbols -> BOOLEAN]
      /\ pending_open \in [Dirs -> Nat]
      /\ dir[s] \in Dirs
  BY DEF TypeOK
<1>1. /\ slot' = [slot EXCEPT ![s] = FALSE]
      /\ dir' = [dir EXCEPT ![s] = NoDir]
      /\ slot[s] => pending_open' = [pending_open EXCEPT ![dir[s]] = @ - 1]
      /\ ~slot[s] => pending_open' = pending_open
  BY DEF Release
<1>2. \A t \in Symbols : /\ slot'[t] <=> slot[t] /\ t # s
                         /\ t # s => dir'[t] = dir[t]
  BY <1>t, <1>1
<1>3. SUFFICES ASSUME NEW d \in Dirs
               PROVE  pending_open'[d] = Cardinality(Reserved(d)')
  BY DEF PendingExact
<1>4. IsFiniteSet(Reserved(d)) BY SymbolsFinite, FS_Subset DEF Reserved
<1>5. Reserved(d)' = Reserved(d) \ {s} BY <1>2 DEF Reserved
<1>6. Cardinality(Reserved(d)) \in Nat BY <1>4, FS_CardinalityType
<1>7. CASE slot[s] /\ dir[s] = d
  <2>1. s \in Reserved(d) BY <1>7 DEF Reserved
  <2>2. Cardinality(Reserved(d)') = Cardinality(Reserved(d)) - 1
    BY <1>4, <1>5, <2>1, FS_RemoveElement
  <2>3. pending_open'[d] = pending_open[d] - 1 BY <1>t, <1>1, <1>7
  <2> QED BY <2>2, <2>3 DEF PendingExact
<1>8. CASE ~(slot[s] /\ dir[s] = d)
  <2>1. Reserved(d)' = Reserved(d) BY <1>5, <1>8 DEF Reserved
  <2>2. pending_open'[d] = pending_open[d] BY <1>t, <1>1, <1>8
  <2> QED BY <2>1, <2>2 DEF PendingExact
<1> QED BY <1>7, <1>8

(* The gate counts the reservation it hands out. *)
LEMMA PendingAdmit ==
    ASSUME TypeOK, StageDiscipline, PendingExact, NEW s \in Symbols, GateAdmit(s)
    PROVE  PendingExact'
<1> DEFINE reserve == s \in Generic /\ Cap(dir[s]) > 0
<1>t. /\ slot \in [Symbols -> BOOLEAN]
      /\ pending_open \in [Dirs -> Nat]
      /\ dir[s] \in Dirs
  BY DEF TypeOK
<1>1. ~slot[s] BY DEF GateAdmit, StageDiscipline, InFlight
<1>2. /\ slot' = [slot EXCEPT ![s] = reserve]
      /\ dir' = dir
      /\ reserve => pending_open' = [pending_open EXCEPT ![dir[s]] = @ + 1]
      /\ ~reserve => pending_open' = pending_open
  BY DEF GateAdmit
<1> HIDE DEF reserve
<1>3. \A t \in Symbols : slot'[t] <=> slot[t] \/ (t = s /\ reserve)
  BY <1>t, <1>1, <1>2
<1>4. SUFFICES ASSUME NEW d \in Dirs
               PROVE  pending_open'[d] = Cardinality(Reserved(d)')
  BY DEF PendingExact
<1>5. IsFiniteSet(Reserved(d)) BY SymbolsFinite, FS_Subset DEF Reserved
<1>6. Cardinality(Reserved(d)) \in Nat BY <1>5, FS_CardinalityType
<1>7. CASE reserve /\ dir[s] = d
  <2>1. Reserved(d)' = Reserved(d) \cup {s} BY <1>2, <1>3, <1>7 DEF Reserved
  <2>2. s \notin Reserved(d) BY <1>1 DEF Reserved
  <2>3. Cardinality(Reserved(d)') = Cardinality(Reserved(d)) + 1
    BY <1>5, <2>1, <2>2, FS_AddElement
  <2>4. pending_open'[d] = pending_open[d] + 1 BY <1>t, <1>2, <1>7
  <2> QED BY <2>3, <2>4 DEF PendingExact
<1>8. CASE ~(reserve /\ dir[s] = d)
  <2>1. Reserved(d)' = Reserved(d) BY <1>2, <1>3, <1>8 DEF Reserved
  <2>2. pending_open'[d] = pending_open[d] BY <1>t, <1>2, <1>8
  <2> QED BY <2>1, <2>2 DEF PendingExact
<1> QED BY <1>7, <1>8

(* The counter stays exact: guards are taken at the gate and dropped at a  *)
(* return, and an attempt only names the direction of an idle opener.      *)
LEMMA PendingStep ==
    TypeOK /\ StageDiscipline /\ PendingExact /\ [Next]_vars => PendingExact'
<1> SUFFICES ASSUME TypeOK, StageDiscipline, PendingExact, [Next]_vars
             PROVE  PendingExact'
  OBVIOUS
<1> USE DEF gateVars
<1>1. CASE StartTasks BY <1>1, PendingKept DEF StartTasks
<1>2. ASSUME NEW s \in Generic, EndTask(s) PROVE PendingExact'
  BY <1>2, PendingKept DEF EndTask
<1>3. ASSUME NEW s \in Symbols, Opening(s) PROVE PendingExact'
  <2>1. ASSUME NEW d \in Dirs, OpenAttempt(s, d) PROVE PendingExact'
    <3>1. dir' = [dir EXCEPT ![s] = d] /\ UNCHANGED <<slot, pending_open>>
      BY <2>1 DEF OpenAttempt
    <3>2. ~slot[s]
      BY <2>1 DEF OpenAttempt, Turn, StageDiscipline, InFlight
    <3>3. \A e \in Dirs : Reserved(e)' = Reserved(e)
      BY <3>1, <3>2 DEF Reserved, TypeOK
    <3> QED BY <3>1, <3>3 DEF PendingExact
  <2>2. CASE GateAdmit(s) BY <2>2, PendingAdmit
  <2>3. CASE GateRefuse(s) BY <2>3, PendingRelease DEF GateRefuse
  <2>4. CASE GiveUp(s) BY <2>4, PendingRelease DEF GiveUp
  <2>5. CASE PassBlock(s) BY <2>5, PendingKept DEF PassBlock
  <2>6. CASE EntryBlocked(s) BY <2>6, PendingRelease DEF EntryBlocked
  <2>7. CASE EntryFilled(s) BY <2>7, PendingKept DEF EntryFilled
  <2>8. CASE Protect(s) BY <2>8, PendingKept DEF Protect
  <2>9. CASE SealRefs(s) BY <2>9, PendingKept DEF SealRefs
  <2>10. CASE Insert(s) BY <2>10, PendingKept DEF Insert
  <2>11. CASE OpenReturns(s) BY <2>11, PendingRelease DEF OpenReturns
  <2> QED BY <1>3, <2>1, <2>2, <2>3, <2>4, <2>5, <2>6, <2>7, <2>8, <2>9, <2>10, <2>11
          DEF Opening
<1>4. ASSUME NEW s \in Symbols, EngineClose(s) PROVE PendingExact'
  BY <1>4, PendingKept DEF EngineClose
<1>5. ASSUME NEW a \in Actors, Closing(a) PROVE PendingExact'
  BY <1>5, PendingKept
     DEF Closing, Remove, ReadRefs, Cancel, Unref, Query, MarketClose, Archive
<1>6. CASE WsFill BY <1>6, PendingKept DEF WsFill
<1>7. ASSUME NEW a \in {Ws, Psync}, CancelAll(a) \/ CandlesMissing(a) PROVE PendingExact'
  BY <1>7, PendingKept DEF CancelAll, CandlesMissing
<1>8. CASE SyncSnapshot BY <1>8, PendingKept DEF SyncSnapshot
<1>9. ASSUME NEW s \in Generic, SyncAnswered(s) \/ SyncError(s) PROVE PendingExact'
  BY <1>9, PendingKept DEF SyncAnswered, SyncError
<1>10. ASSUME NEW s \in Symbols, Delist(s) \/ Trigger(s) \/ CooldownElapses(s)
       PROVE  PendingExact'
  BY <1>10, PendingKept DEF Delist, Trigger, CooldownElapses
<1>11. CASE LoseFills BY <1>11, PendingKept DEF LoseFills
<1>12. CASE BlockExpires BY <1>12, PendingKept DEF BlockExpires
<1>13. CASE UNCHANGED vars BY <1>13, PendingKept DEF vars
<1> QED BY <1>1, <1>2, <1>3, <1>4, <1>5, <1>6, <1>7, <1>8, <1>9, <1>10, <1>11, <1>12,
           <1>13 DEF Next

-----------------------------------------------------------------------------
(* The concurrency cap *)

(* The exposure of a direction is a set of generic symbols. *)
LEMMA ExposureFinite == \A d \in Dirs : IsFiniteSet(Exposure(d))
<1>1. IsFiniteSet(Generic) BY SymbolAssumption
<1> QED BY <1>1, FS_Subset DEF Exposure

(* Most steps add nobody to the exposure of a capped direction. *)
LEMMA CapKept ==
    ASSUME CapRespected,
           \A d \in Dirs : Cap(d) > 0 => Exposure(d)' \subseteq Exposure(d)
    PROVE  CapRespected'
<1>1. SUFFICES ASSUME NEW d \in Dirs, Cap(d) > 0
               PROVE  Cardinality(Exposure(d)') <= Cap(d)
  BY DEF CapRespected
<1>2. IsFiniteSet(Exposure(d)) /\ Exposure(d)' \subseteq Exposure(d)
  BY <1>1, ExposureFinite
<1>3. /\ Cardinality(Exposure(d)') <= Cardinality(Exposure(d))
      /\ Cardinality(Exposure(d)') \in Nat /\ Cardinality(Exposure(d)) \in Nat
  BY <1>2, FS_Subset, FS_CardinalityType
<1>4. Cardinality(Exposure(d)) <= Cap(d) BY <1>1 DEF CapRespected
<1>5. Cap(d) \in Nat BY TuningAssumption DEF Cap
<1> QED BY <1>3, <1>4, <1>5

(* Steps that touch neither the map nor the guards. *)
LEMMA CapUnchanged ==
    ASSUME CapRespected, UNCHANGED <<live_positions, slot, dir>>
    PROVE  CapRespected'
BY CapKept DEF Exposure

(* A return withdraws its symbol's claim unless the position is recorded.  *)
LEMMA CapRelease ==
    ASSUME TypeOK, CapRespected, NEW s \in Symbols, Release(s), UNCHANGED live_positions
    PROVE  CapRespected'
<1>1. /\ slot' = [slot EXCEPT ![s] = FALSE]
      /\ dir' = [dir EXCEPT ![s] = NoDir]
  BY DEF Release
<1>2. \A t \in Symbols : slot'[t] => slot[t] /\ dir'[t] = dir[t]
  BY <1>1 DEF TypeOK
<1>3. Generic \subseteq Symbols BY DEF Symbols
<1>4. \A d \in Dirs : Exposure(d)' \subseteq Exposure(d)
  BY <1>2, <1>3 DEF Exposure
<1> QED BY <1>4, CapKept

(* Adding an element adds at most one to the size of a finite set. *)
LEMMA OneMore ==
    ASSUME NEW S, IsFiniteSet(S), NEW x
    PROVE  IsFiniteSet(S \cup {x}) /\ Cardinality(S \cup {x}) <= Cardinality(S) + 1
<1>1. /\ IsFiniteSet(S \cup {x})
      /\ \/ Cardinality(S \cup {x}) = Cardinality(S)
         \/ Cardinality(S \cup {x}) = Cardinality(S) + 1
  <2>1. x \in S => S \cup {x} = S OBVIOUS
  <2> QED BY <2>1, FS_AddElement
<1>2. Cardinality(S) \in Nat BY FS_CardinalityType
<1> QED BY <1>1, <1>2

(* Positions in the map and reservations are what the gate counts, so one  *)
(* more exposure fits below the cap.                                       *)
LEMMA CapAdmit ==
    ASSUME TypeOK, StageDiscipline, PendingExact, CapRespected,
           NEW s \in Symbols, GateAdmit(s)
    PROVE  CapRespected'
<1> DEFINE reserve == s \in Generic /\ Cap(dir[s]) > 0
<1>t. /\ slot \in [Symbols -> BOOLEAN]
      /\ dir[s] \in Dirs
      /\ Generic \subseteq Symbols
  BY DEF TypeOK, Symbols
<1>1. /\ slot' = [slot EXCEPT ![s] = reserve]
      /\ UNCHANGED <<live_positions, dir>>
      /\ s \in Generic => ~CapReached(dir[s])
  BY DEF GateAdmit, ledger
<1> HIDE DEF reserve
<1>2. \A t \in Symbols : slot'[t] => slot[t] \/ (t = s /\ reserve)
  BY <1>t, <1>1
<1>3. SUFFICES ASSUME NEW d \in Dirs, Cap(d) > 0
               PROVE  Cardinality(Exposure(d)') <= Cap(d)
  BY DEF CapRespected
<1>4. IsFiniteSet(Exposure(d)) BY ExposureFinite
<1>5. Cap(d) \in Nat BY TuningAssumption DEF Cap
<1>6. Cardinality(Exposure(d)) <= Cap(d) BY <1>3 DEF CapRespected
<1>7. CASE reserve /\ dir[s] = d
  <2>1. Exposure(d)' \subseteq (OpenDir(d) \cup Reserved(d)) \cup {s}
    BY <1>t, <1>1, <1>2 DEF Exposure, OpenDir, Reserved
  <2>2. IsFiniteSet(OpenDir(d)) /\ IsFiniteSet(Reserved(d))
    BY SymbolsFinite, FS_Subset DEF OpenDir, Reserved
  <2>3. /\ IsFiniteSet(OpenDir(d) \cup Reserved(d))
        /\ Cardinality(OpenDir(d) \cup Reserved(d))
             = Cardinality(OpenDir(d)) + Cardinality(Reserved(d))
               - Cardinality(OpenDir(d) \cap Reserved(d))
    BY <2>2, FS_Union
  <2>4. /\ Cardinality(OpenDir(d)) \in Nat /\ Cardinality(Reserved(d)) \in Nat
        /\ Cardinality(OpenDir(d) \cap Reserved(d)) \in Nat
        /\ Cardinality(OpenDir(d) \cup Reserved(d)) \in Nat
    BY <2>2, <2>3, FS_Subset, FS_CardinalityType
  <2>5. Cardinality(OpenDir(d)) + Cardinality(Reserved(d)) < Cap(d)
    <3>1. ~CapReached(d) BY <1>1, <1>7 DEF reserve
    <3>2. pending_open[d] = Cardinality(Reserved(d)) BY DEF PendingExact
    <3> QED BY <1>3, <1>5, <2>4, <3>1, <3>2 DEF CapReached
  <2>6. Cardinality(OpenDir(d) \cup Reserved(d)) < Cap(d)
    BY <1>5, <2>3, <2>4, <2>5
  <2>7. /\ IsFiniteSet((OpenDir(d) \cup Reserved(d)) \cup {s})
        /\ Cardinality((OpenDir(d) \cup Reserved(d)) \cup {s})
             <= Cardinality(OpenDir(d) \cup Reserved(d)) + 1
    BY <2>3, OneMore
  <2>8. /\ Cardinality(Exposure(d)') <= Cardinality((OpenDir(d) \cup Reserved(d)) \cup {s})
        /\ Cardinality(Exposure(d)') \in Nat
        /\ Cardinality((OpenDir(d) \cup Reserved(d)) \cup {s}) \in Nat
    BY <2>1, <2>7, FS_Subset, FS_CardinalityType
  <2> QED BY <1>5, <2>4, <2>6, <2>7, <2>8
<1>8. CASE ~(reserve /\ dir[s] = d)
  <2>1. Exposure(d)' \subseteq Exposure(d) BY <1>t, <1>1, <1>2, <1>8 DEF Exposure
  <2>2. /\ Cardinality(Exposure(d)') <= Cardinality(Exposure(d))
        /\ Cardinality(Exposure(d)') \in Nat /\ Cardinality(Exposure(d)) \in Nat
    BY <1>4, <2>1, FS_Subset, FS_CardinalityType
  <2> QED BY <1>5, <1>6, <2>2
<1> QED BY <1>7, <1>8

(* The cap survives every step: Insert only turns a reservation into a     *)
(* position, because a capped opener still holds its guard.                *)
LEMMA CapStep ==
    TypeOK /\ StageDiscipline /\ PendingExact /\ CapRespected /\ [Next]_vars
        => CapRespected'
<1> SUFFICES ASSUME TypeOK, StageDiscipline, PendingExact, CapRespected, [Next]_vars
             PROVE  CapRespected'
  OBVIOUS
<1> USE DEF gateVars, ledger
<1>t. /\ live_positions \in [Symbols -> Dirs \cup {Flat}]
      /\ dir \in [Symbols -> Dirs]
      /\ slot \in [Symbols -> BOOLEAN]
      /\ sym \in [Actors -> Symbols]
      /\ Generic \subseteq Symbols
  BY DEF TypeOK, Symbols
<1>f. ASSUME NEW s \in Symbols, live_positions' = [live_positions EXCEPT ![s] = Flat],
             UNCHANGED <<slot, dir>>
      PROVE  CapRespected'
  <2>1. \A d \in Dirs : Exposure(d)' \subseteq Exposure(d)
    BY <1>t, <1>f DEF Exposure, Dirs, Flat
  <2> QED BY <2>1, CapKept
<1>1. CASE StartTasks BY <1>1, CapUnchanged DEF StartTasks
<1>2. ASSUME NEW s \in Generic, EndTask(s) PROVE CapRespected'
  BY <1>2, CapUnchanged DEF EndTask
<1>3. ASSUME NEW s \in Symbols, Opening(s) PROVE CapRespected'
  <2>1. ASSUME NEW d \in Dirs, OpenAttempt(s, d) PROVE CapRespected'
    <3>1. dir' = [dir EXCEPT ![s] = d] /\ UNCHANGED <<slot, live_positions>>
      BY <2>1 DEF OpenAttempt
    <3>2. ~slot[s]
      BY <2>1 DEF OpenAttempt, Turn, StageDiscipline, InFlight
    <3>3. \A e \in Dirs : Exposure(e)' \subseteq Exposure(e)
      BY <1>t, <3>1, <3>2 DEF Exposure
    <3> QED BY <3>3, CapKept
  <2>2. CASE GateAdmit(s) BY <2>2, CapAdmit
  <2>3. CASE GateRefuse(s) BY <2>3, CapRelease DEF GateRefuse
  <2>4. CASE GiveUp(s) BY <2>4, CapRelease DEF GiveUp
  <2>5. CASE PassBlock(s) BY <2>5, CapUnchanged DEF PassBlock
  <2>6. CASE EntryBlocked(s) BY <2>6, CapRelease DEF EntryBlocked
  <2>7. CASE EntryFilled(s) BY <2>7, CapUnchanged DEF EntryFilled
  <2>8. CASE Protect(s) BY <2>8, CapUnchanged DEF Protect
  <2>9. CASE SealRefs(s) BY <2>9, CapUnchanged DEF SealRefs
  <2>10. CASE Insert(s)
    <3>1. /\ live_positions' = [live_positions EXCEPT ![s] = dir[s]]
          /\ UNCHANGED <<slot, dir>>
      BY <2>10 DEF Insert
    <3>2. s \in Generic /\ Cap(dir[s]) > 0 => slot[s]
      BY <2>10 DEF Insert, StageDiscipline, InFlight
    <3>3. \A d \in Dirs : Cap(d) > 0 => Exposure(d)' \subseteq Exposure(d)
      BY <1>t, <3>1, <3>2 DEF Exposure
    <3> QED BY <3>3, CapKept
  <2>11. CASE OpenReturns(s) BY <2>11, CapRelease DEF OpenReturns
  <2> QED BY <1>3, <2>1, <2>2, <2>3, <2>4, <2>5, <2>6, <2>7, <2>8, <2>9, <2>10, <2>11
          DEF Opening
<1>4. ASSUME NEW s \in Symbols, EngineClose(s) PROVE CapRespected'
  BY <1>4, CapUnchanged DEF EngineClose
<1>5. ASSUME NEW a \in Actors, Closing(a) PROVE CapRespected'
  <2>1. CASE Remove(a)
    <3>1. sym[a] \in Symbols BY <1>t
    <3> QED BY <1>f, <2>1, <3>1 DEF Remove
  <2>2. CASE ReadRefs(a) \/ Cancel(a) \/ Unref(a) \/ Query(a) \/ MarketClose(a) \/ Archive(a)
    BY <2>2, CapUnchanged DEF ReadRefs, Cancel, Unref, Query, MarketClose, Archive
  <2> QED BY <1>5, <2>1, <2>2 DEF Closing
<1>6. CASE WsFill BY <1>6, CapUnchanged DEF WsFill
<1>7. ASSUME NEW a \in {Ws, Psync}, CancelAll(a) \/ CandlesMissing(a) PROVE CapRespected'
  BY <1>7, CapUnchanged DEF CancelAll, CandlesMissing
<1>8. CASE SyncSnapshot BY <1>8, CapUnchanged DEF SyncSnapshot
<1>9. ASSUME NEW s \in Generic, SyncAnswered(s) \/ SyncError(s) PROVE CapRespected'
  BY <1>9, CapUnchanged DEF SyncAnswered, SyncError
<1>10. ASSUME NEW s \in Symbols, Delist(s) PROVE CapRespected'
  BY <1>f, <1>10 DEF Delist
<1>11. ASSUME NEW s \in Symbols, Trigger(s) \/ CooldownElapses(s) PROVE CapRespected'
  BY <1>11, CapUnchanged DEF Trigger, CooldownElapses
<1>12. CASE LoseFills BY <1>12, CapUnchanged DEF LoseFills
<1>13. CASE BlockExpires BY <1>13, CapUnchanged DEF BlockExpires
<1>14. CASE UNCHANGED vars BY <1>14, CapUnchanged DEF vars
<1> QED BY <1>1, <1>2, <1>3, <1>4, <1>5, <1>6, <1>7, <1>8, <1>9, <1>10, <1>11, <1>12,
           <1>13, <1>14 DEF Next

-----------------------------------------------------------------------------
(* The books *)

(* Only actors hold removed positions, so they can be counted. *)
LEMMA InHandFinite == \A s \in Symbols : IsFiniteSet(InHand(s)) /\ Cardinality(InHand(s)) \in Nat
<1>1. \A s \in Symbols : InHand(s) \subseteq Actors BY DEF InHand
<1> QED BY <1>1, SymbolsFinite, FS_Subset, FS_CardinalityType

(* Steps that move no position and nothing in a closer's hands. *)
LEMMA BooksKept ==
    ASSUME LedgerBalanced, UNCHANGED <<live_positions, closed_trades, opened>>,
           \A s \in Symbols : InHand(s)' = InHand(s)
    PROVE  LedgerBalanced'
BY DEF LedgerBalanced

(* Steps that leave the map, the archive and the closers alone. *)
LEMMA BooksUnchanged ==
    ASSUME LedgerBalanced,
           UNCHANGED <<live_positions, closed_trades, opened, target, sym>>
    PROVE  LedgerBalanced'
<1>1. \A s \in Symbols : InHand(s)' = InHand(s) BY DEF InHand
<1> QED BY <1>1, BooksKept

(* An actor with empty hands may turn to another symbol. *)
LEMMA BooksTurn ==
    ASSUME TypeOK, LedgerBalanced, NEW a \in Actors, target[a] = Flat, NEW s,
           sym' = [sym EXCEPT ![a] = s] \/ sym' = sym,
           UNCHANGED <<live_positions, closed_trades, opened, target>>
    PROVE  LedgerBalanced'
<1>1. \A b \in Actors : b # a => sym'[b] = sym[b] BY DEF TypeOK
<1>2. \A t \in Symbols : InHand(t)' = InHand(t) BY <1>1 DEF InHand
<1> QED BY <1>2, BooksKept

(* A removal takes the position, if any, from the map into the closer's    *)
(* hands.                                                                  *)
LEMMA BooksRemove ==
    ASSUME TypeOK, StageDiscipline, LedgerBalanced, NEW a \in Actors, Remove(a)
    PROVE  LedgerBalanced'
<1> DEFINE p == sym[a]
<1>t. /\ p \in Symbols
      /\ live_positions \in [Symbols -> Dirs \cup {Flat}]
      /\ target \in [Actors -> Dirs \cup {Flat}]
  BY DEF TypeOK
<1>1. target[a] = Flat BY DEF Remove, StageDiscipline, Holding
<1>2. /\ target' = [target EXCEPT ![a] = live_positions[p]]
      /\ live_positions' = [live_positions EXCEPT ![p] = Flat]
      /\ UNCHANGED <<closed_trades, opened, sym>>
  BY DEF Remove
<1>3. \A t \in Symbols : InHand(t)' = IF t = p /\ live_positions[p] # Flat
                                      THEN InHand(t) \cup {a} ELSE InHand(t)
  BY <1>t, <1>1, <1>2 DEF InHand
<1>4. \A t \in Symbols : a \notin InHand(t) BY <1>1 DEF InHand
<1>5. SUFFICES ASSUME NEW t \in Symbols
               PROVE  opened[t] = closed_trades[t]
                        + (IF live_positions'[t] # Flat THEN 1 ELSE 0)
                        + Cardinality(InHand(t)')
  BY <1>2 DEF LedgerBalanced
<1>6. /\ opened[t] = closed_trades[t] + (IF live_positions[t] # Flat THEN 1 ELSE 0)
                       + Cardinality(InHand(t))
      /\ closed_trades[t] \in Nat
      /\ Cardinality(InHand(t)) \in Nat
  BY InHandFinite DEF LedgerBalanced, TypeOK
<1>7. CASE t = p /\ live_positions[p] # Flat
  <2>1. InHand(t)' = InHand(t) \cup {a} BY <1>3, <1>7
  <2>2. Cardinality(InHand(t)') = Cardinality(InHand(t)) + 1
    BY <1>4, <2>1, InHandFinite, FS_AddElement
  <2>3. live_positions'[t] = Flat BY <1>t, <1>2, <1>7
  <2> QED BY <1>6, <1>7, <2>2, <2>3
<1>8. CASE ~(t = p /\ live_positions[p] # Flat)
  <2>1. InHand(t)' = InHand(t) BY <1>3, <1>8
  <2>2. live_positions'[t] = live_positions[t] BY <1>t, <1>2, <1>8
  <2> QED BY <1>6, <2>1, <2>2
<1> QED BY <1>7, <1>8

(* Archiving empties the closer's hands and counts one trade. *)
LEMMA BooksArchive ==
    ASSUME TypeOK, LedgerBalanced, NEW a \in Actors, Archive(a)
    PROVE  LedgerBalanced'
<1> DEFINE p == sym[a]
<1>t. /\ p \in Symbols
      /\ sym \in [Actors -> Symbols]
      /\ target \in [Actors -> Dirs \cup {Flat}]
      /\ closed_trades \in [Symbols -> Nat]
  BY DEF TypeOK
<1>1. /\ target[a] # Flat => closed_trades' = [closed_trades EXCEPT ![p] = @ + 1]
      /\ target[a] = Flat => closed_trades' = closed_trades
      /\ target' = [target EXCEPT ![a] = Flat]
      /\ sym' = [sym EXCEPT ![a] = Home(a)]
      /\ UNCHANGED <<live_positions, opened>>
  BY DEF Archive, Return
<1>2. \A b \in Actors : /\ b # a => target'[b] = target[b] /\ sym'[b] = sym[b]
                        /\ target'[a] = Flat
  BY <1>t, <1>1
<1>3. \A t \in Symbols : InHand(t)' = InHand(t) \ {a}
  BY <1>2 DEF InHand
<1>4. SUFFICES ASSUME NEW t \in Symbols
               PROVE  opened[t] = closed_trades'[t]
                        + (IF live_positions[t] # Flat THEN 1 ELSE 0)
                        + Cardinality(InHand(t)')
  BY <1>1 DEF LedgerBalanced
<1>5. /\ opened[t] = closed_trades[t] + (IF live_positions[t] # Flat THEN 1 ELSE 0)
                       + Cardinality(InHand(t))
      /\ closed_trades[t] \in Nat
      /\ Cardinality(InHand(t)) \in Nat
  BY <1>t, InHandFinite DEF LedgerBalanced
<1>6. CASE target[a] # Flat /\ t = p
  <2>1. a \in InHand(t) BY <1>6 DEF InHand
  <2>2. Cardinality(InHand(t)') = Cardinality(InHand(t)) - 1
    BY <1>3, <2>1, InHandFinite, FS_RemoveElement
  <2>3. closed_trades'[t] = closed_trades[t] + 1 BY <1>t, <1>1, <1>6
  <2> QED BY <1>5, <2>2, <2>3
<1>7. CASE ~(target[a] # Flat /\ t = p)
  <2>1. InHand(t)' = InHand(t) BY <1>3, <1>7 DEF InHand
  <2>2. closed_trades'[t] = closed_trades[t] BY <1>t, <1>1, <1>7
  <2> QED BY <1>5, <2>1, <2>2
<1> QED BY <1>6, <1>7

(* Recording needs an empty slot in the map, which no step of another      *)
(* actor can have filled since the gate.                                   *)
LEMMA BooksInsert ==
    ASSUME TypeOK, StageDiscipline, LedgerBalanced, NEW s \in Symbols, Insert(s)
    PROVE  LedgerBalanced'
<1>t. /\ live_positions \in [Symbols -> Dirs \cup {Flat}]
      /\ opened \in [Symbols -> Nat]
      /\ dir[s] # Flat
  BY DEF TypeOK, Dirs, Flat
<1>1. live_positions[s] = Flat BY DEF Insert, StageDiscipline, InFlight
<1>2. /\ live_positions' = [live_positions EXCEPT ![s] = dir[s]]
      /\ opened' = [opened EXCEPT ![s] = @ + 1]
      /\ UNCHANGED <<closed_trades, target, sym>>
  BY DEF Insert, closing
<1>3. \A t \in Symbols : InHand(t)' = InHand(t) BY <1>2 DEF InHand
<1>4. SUFFICES ASSUME NEW t \in Symbols
               PROVE  opened'[t] = closed_trades[t]
                        + (IF live_positions'[t] # Flat THEN 1 ELSE 0)
                        + Cardinality(InHand(t))
  BY <1>2, <1>3 DEF LedgerBalanced
<1>5. /\ opened[t] = closed_trades[t] + (IF live_positions[t] # Flat THEN 1 ELSE 0)
                       + Cardinality(InHand(t))
      /\ closed_trades[t] \in Nat
      /\ Cardinality(InHand(t)) \in Nat
  BY InHandFinite DEF LedgerBalanced, TypeOK
<1>6. CASE t = s
  <2>1. opened'[t] = opened[t] + 1 /\ live_positions'[t] # Flat BY <1>t, <1>2, <1>6
  <2> QED BY <1>1, <1>5, <1>6, <2>1
<1>7. CASE t # s
  <2>1. opened'[t] = opened[t] /\ live_positions'[t] = live_positions[t]
    BY <1>t, <1>2, <1>7
  <2> QED BY <1>5, <2>1
<1> QED BY <1>6, <1>7

(* The purge moves the position from the map straight to the archive. *)
LEMMA BooksDelist ==
    ASSUME TypeOK, LedgerBalanced, NEW s \in Symbols, Delist(s)
    PROVE  LedgerBalanced'
<1>t. /\ live_positions \in [Symbols -> Dirs \cup {Flat}]
      /\ closed_trades \in [Symbols -> Nat]
  BY DEF TypeOK
<1>1. /\ live_positions' = [live_positions EXCEPT ![s] = Flat]
      /\ live_positions[s] # Flat => closed_trades' = [closed_trades EXCEPT ![s] = @ + 1]
      /\ live_positions[s] = Flat => closed_trades' = closed_trades
      /\ UNCHANGED <<opened, target, sym>>
  BY DEF Delist, closing
<1>2. \A t \in Symbols : InHand(t)' = InHand(t) BY <1>1 DEF InHand
<1>3. SUFFICES ASSUME NEW t \in Symbols
               PROVE  opened[t] = closed_trades'[t]
                        + (IF live_positions'[t] # Flat THEN 1 ELSE 0)
                        + Cardinality(InHand(t))
  BY <1>1, <1>2 DEF LedgerBalanced
<1>4. /\ opened[t] = closed_trades[t] + (IF live_positions[t] # Flat THEN 1 ELSE 0)
                       + Cardinality(InHand(t))
      /\ closed_trades[t] \in Nat
      /\ Cardinality(InHand(t)) \in Nat
  BY <1>t, InHandFinite DEF LedgerBalanced
<1>5. CASE t = s /\ live_positions[s] # Flat
  <2>1. closed_trades'[t] = closed_trades[t] + 1 /\ live_positions'[t] = Flat
    BY <1>t, <1>1, <1>5
  <2> QED BY <1>4, <1>5, <2>1
<1>6. CASE ~(t = s /\ live_positions[s] # Flat)
  <2>1. closed_trades'[t] = closed_trades[t] /\ live_positions'[t] = live_positions[t]
    BY <1>t, <1>1, <1>6
  <2> QED BY <1>4, <2>1
<1> QED BY <1>5, <1>6

(* No interleaving of openers, closers and purge unbalances the books. *)
LEMMA LedgerStep ==
    TypeOK /\ StageDiscipline /\ LedgerBalanced /\ [Next]_vars => LedgerBalanced'
<1> SUFFICES ASSUME TypeOK, StageDiscipline, LedgerBalanced, [Next]_vars
             PROVE  LedgerBalanced'
  OBVIOUS
<1> USE DEF ledger, closing
<1>0. Ws \in Actors /\ Psync \in Actors BY DEF Actors
<1>1. CASE StartTasks BY <1>1, BooksUnchanged DEF StartTasks
<1>2. ASSUME NEW s \in Generic, EndTask(s) PROVE LedgerBalanced'
  BY <1>2, BooksUnchanged DEF EndTask
<1>3. ASSUME NEW s \in Symbols, Opening(s) PROVE LedgerBalanced'
  <2>1. ASSUME NEW d \in Dirs, OpenAttempt(s, d) PROVE LedgerBalanced'
    BY <2>1, BooksUnchanged DEF OpenAttempt
  <2>2. CASE GateAdmit(s) BY <2>2, BooksUnchanged DEF GateAdmit
  <2>3. CASE GateRefuse(s) BY <2>3, BooksUnchanged DEF GateRefuse
  <2>4. CASE GiveUp(s) BY <2>4, BooksUnchanged DEF GiveUp
  <2>5. CASE PassBlock(s) BY <2>5, BooksUnchanged DEF PassBlock
  <2>6. CASE EntryBlocked(s) BY <2>6, BooksUnchanged DEF EntryBlocked
  <2>7. CASE EntryFilled(s) BY <2>7, BooksUnchanged DEF EntryFilled
  <2>8. CASE Protect(s) BY <2>8, BooksUnchanged DEF Protect
  <2>9. CASE SealRefs(s) BY <2>9, BooksUnchanged DEF SealRefs
  <2>10. CASE Insert(s) BY <2>10, BooksInsert
  <2>11. CASE OpenReturns(s) BY <2>11, BooksUnchanged DEF OpenReturns
  <2> QED BY <1>3, <2>1, <2>2, <2>3, <2>4, <2>5, <2>6, <2>7, <2>8, <2>9, <2>10, <2>11
          DEF Opening
<1>4. ASSUME NEW s \in Symbols, EngineClose(s) PROVE LedgerBalanced'
  BY <1>4, BooksUnchanged DEF EngineClose
<1>5. ASSUME NEW a \in Actors, Closing(a) PROVE LedgerBalanced'
  <2>1. CASE Remove(a) BY <2>1, BooksRemove
  <2>2. CASE ReadRefs(a) \/ Cancel(a) \/ Unref(a) \/ Query(a) \/ MarketClose(a)
    BY <2>2, BooksUnchanged DEF ReadRefs, Cancel, Unref, Query, MarketClose
  <2>3. CASE Archive(a) BY <2>3, BooksArchive
  <2> QED BY <1>5, <2>1, <2>2, <2>3 DEF Closing
<1>6. CASE WsFill
  <2>1. target[Ws] = Flat BY <1>0, <1>6 DEF WsFill, StageDiscipline, Holding
  <2>2. UNCHANGED <<live_positions, closed_trades, opened, target>> BY <1>6 DEF WsFill
  <2>3. sym' = [sym EXCEPT ![Ws] = Head(fills).sym] \/ sym' = sym
    BY <1>6, Zenon DEF WsFill
  <2> QED BY <1>0, <2>1, <2>2, <2>3, BooksTurn
<1>7. ASSUME NEW a \in {Ws, Psync}, CancelAll(a) PROVE LedgerBalanced'
  BY <1>7, BooksUnchanged DEF CancelAll
<1>8. ASSUME NEW a \in {Ws, Psync}, CandlesMissing(a) PROVE LedgerBalanced'
  <2>1. target[a] = Flat BY <1>0, <1>8 DEF CandlesMissing, StageDiscipline, Holding
  <2>2. UNCHANGED <<live_positions, closed_trades, opened, target>>
    BY <1>8 DEF CandlesMissing
  <2>3. sym' = [sym EXCEPT ![a] = Home(a)] BY <1>8 DEF CandlesMissing, Return
  <2> QED BY <1>0, <2>1, <2>2, <2>3, BooksTurn
<1>9. CASE SyncSnapshot BY <1>9, BooksUnchanged DEF SyncSnapshot
<1>10. ASSUME NEW s \in Generic, SyncAnswered(s) PROVE LedgerBalanced'
  <2>1. target[Psync] = Flat BY <1>0, <1>10 DEF SyncAnswered, StageDiscipline, Holding
  <2>2. UNCHANGED <<live_positions, closed_trades, opened, target>>
    BY <1>10 DEF SyncAnswered
  <2>3. sym' = [sym EXCEPT ![Psync] = s] \/ sym' = sym
    BY <1>10, Zenon DEF SyncAnswered
  <2> QED BY <1>0, <2>1, <2>2, <2>3, BooksTurn
<1>11. ASSUME NEW s \in Generic, SyncError(s) PROVE LedgerBalanced'
  BY <1>11, BooksUnchanged DEF SyncError
<1>12. ASSUME NEW s \in Symbols, Delist(s) PROVE LedgerBalanced' BY <1>12, BooksDelist
<1>13. ASSUME NEW s \in Symbols, Trigger(s) \/ CooldownElapses(s) PROVE LedgerBalanced'
  BY <1>13, BooksUnchanged DEF Trigger, CooldownElapses
<1>14. CASE LoseFills BY <1>14, BooksUnchanged DEF LoseFills
<1>15. CASE BlockExpires BY <1>15, BooksUnchanged DEF BlockExpires
<1>16. CASE UNCHANGED vars BY <1>16, BooksUnchanged DEF vars
<1> QED BY <1>1, <1>2, <1>3, <1>4, <1>5, <1>6, <1>7, <1>8, <1>9, <1>10, <1>11, <1>12,
           <1>13, <1>14, <1>15, <1>16 DEF Next

-----------------------------------------------------------------------------
(* Recorded order ids have an owner.  No other invariant is needed: the     *)
(* owner is handed on by one actor's step at a time.                        *)

Owners == {"refs", "cancel", "unref"}

(* Steps that leave every possible owner where it is. *)
LEMMA RefsUnchanged ==
    ASSUME RefsOwned, UNCHANGED <<live_positions, live_orders, delisted, pc, sym>>
    PROVE  RefsOwned'
BY DEF RefsOwned

(* An actor that owns nothing goes on with something else. *)
LEMMA RefsMove ==
    ASSUME TypeOK, RefsOwned, NEW a \in Actors, pc[a] \notin {"insert"} \cup Owners,
           NEW stage, pc' = [pc EXCEPT ![a] = stage],
           NEW s, sym' = [sym EXCEPT ![a] = s] \/ sym' = sym,
           UNCHANGED <<live_positions, live_orders, delisted>>
    PROVE  RefsOwned'
<1>1. \A b \in Actors \ {a} : pc'[b] = pc[b] /\ sym'[b] = sym[b] BY DEF TypeOK
<1>2. Symbols \subseteq Actors BY DEF Actors
<1>3. SUFFICES ASSUME NEW t \in Symbols \ delisted, live_orders[t] # {}
               PROVE  \/ live_positions[t] # Flat
                      \/ pc'[t] = "insert"
                      \/ \E b \in Actors : sym'[b] = t /\ pc'[b] \in Owners
  BY DEF RefsOwned, Owners
<1>4. CASE live_positions[t] # Flat BY <1>4
<1>5. CASE pc[t] = "insert" BY <1>1, <1>2, <1>5
<1>6. CASE \E b \in Actors : sym[b] = t /\ pc[b] \in Owners
  <2>1. PICK b \in Actors : sym[b] = t /\ pc[b] \in Owners BY <1>6
  <2>2. b # a BY <2>1
  <2> QED BY <1>1, <2>1, <2>2
<1> QED BY <1>3, <1>4, <1>5, <1>6 DEF RefsOwned, Owners

(* A closer keeps the ids it owns until it has removed them. *)
LEMMA RefsKept ==
    ASSUME TypeOK, RefsOwned, NEW a \in Actors,
           NEW stage \in Owners, pc' = [pc EXCEPT ![a] = stage], pc[a] # "insert",
           UNCHANGED <<sym, live_positions, live_orders, delisted>>
    PROVE  RefsOwned'
<1>1. /\ pc'[a] \in Owners /\ \A b \in Actors \ {a} : pc'[b] = pc[b]
  BY DEF TypeOK
<1>2. Symbols \subseteq Actors BY DEF Actors
<1>3. \A b \in Actors : pc[b] \in Owners => pc'[b] \in Owners BY <1>1
<1>4. \A t \in Symbols : pc[t] = "insert" => pc'[t] = "insert" BY <1>1, <1>2
<1> QED BY <1>3, <1>4 DEF RefsOwned, Owners

LEMMA RefsStep == TypeOK /\ RefsOwned /\ [Next]_vars => RefsOwned'
<1> SUFFICES ASSUME TypeOK, RefsOwned, [Next]_vars PROVE RefsOwned'
  OBVIOUS
<1> USE DEF ledger, guards, Goto, Release, Return, Owners
<1>0. Ws \in Actors /\ Psync \in Actors /\ Symbols \subseteq Actors BY DEF Actors
<1>1. CASE StartTasks BY <1>1, RefsUnchanged DEF StartTasks
<1>2. ASSUME NEW s \in Generic, EndTask(s) PROVE RefsOwned'
  BY <1>2, RefsUnchanged DEF EndTask
<1>3. ASSUME NEW s \in Symbols, Opening(s) PROVE RefsOwned'
  <2>0. s \in Actors BY <1>0
  <2>1. ASSUME NEW d \in Dirs, OpenAttempt(s, d) PROVE RefsOwned'
    BY <2>0, <2>1, RefsMove DEF OpenAttempt, Turn
  <2>2. CASE GateAdmit(s) BY <2>0, <2>2, RefsMove DEF GateAdmit
  <2>3. CASE GateRefuse(s) BY <2>0, <2>3, RefsMove DEF GateRefuse
  <2>4. CASE GiveUp(s) BY <2>0, <2>4, RefsMove DEF GiveUp
  <2>5. CASE PassBlock(s) BY <2>0, <2>5, RefsMove DEF PassBlock
  <2>6. CASE EntryBlocked(s) BY <2>0, <2>6, RefsMove DEF EntryBlocked
  <2>7. CASE EntryFilled(s) BY <2>0, <2>7, RefsMove DEF EntryFilled
  <2>8. CASE Protect(s) BY <2>0, <2>8, RefsMove DEF Protect
  <2>9. CASE SealRefs(s)
    <3>1. pc'[s] = "insert" /\ \A b \in Actors \ {s} : pc'[b] = pc[b] BY <2>0, <2>9 DEF SealRefs, TypeOK
    <3>2. pc[s] = "ref" /\ \A t \in Symbols \ {s} : live_orders'[t] = live_orders[t]
      BY <2>9 DEF SealRefs, TypeOK
    <3>3. \A b \in Actors : pc[b] \in Owners => pc'[b] \in Owners BY <3>1, <3>2
    <3>4. UNCHANGED <<live_positions, sym, delisted>> BY <2>9 DEF SealRefs
    <3>5. \A t \in Symbols \ {s} : pc[t] = "insert" => pc'[t] = "insert" BY <1>0, <3>1
    <3> QED BY <3>1, <3>2, <3>3, <3>4, <3>5 DEF RefsOwned
  <2>10. CASE Insert(s)
    <3>1. pc[s] = "insert" /\ \A b \in Actors \ {s} : pc'[b] = pc[b] BY <2>0, <2>10 DEF Insert, TypeOK
    <3>2. /\ live_positions'[s] # Flat
          /\ \A t \in Symbols \ {s} : live_positions'[t] = live_positions[t]
      BY <2>10 DEF Insert, TypeOK, Dirs, Flat
    <3>3. \A b \in Actors : pc[b] \in Owners => pc'[b] \in Owners BY <3>1
    <3>4. UNCHANGED <<live_orders, sym, delisted>> BY <2>10 DEF Insert
    <3>5. \A t \in Symbols \ {s} : pc[t] = "insert" => pc'[t] = "insert" BY <1>0, <3>1
    <3> QED BY <3>2, <3>3, <3>4, <3>5 DEF RefsOwned
  <2>11. CASE OpenReturns(s) BY <2>0, <2>11, RefsMove DEF OpenReturns
  <2> QED BY <1>3, <2>1, <2>2, <2>3, <2>4, <2>5, <2>6, <2>7, <2>8, <2>9, <2>10, <2>11
          DEF Opening
<1>4. ASSUME NEW s \in Symbols, EngineClose(s) PROVE RefsOwned'
  BY <1>0, <1>4, RefsMove DEF EngineClose, Turn
<1>5. ASSUME NEW a \in Actors, Closing(a) PROVE RefsOwned'
  <2>1. CASE Remove(a)
    <3>1. /\ pc[a] = "remove" /\ pc'[a] = "refs" /\ \A b \in Actors \ {a} : pc'[b] = pc[b]
          /\ UNCHANGED <<live_orders, sym, delisted>>
      BY <2>1 DEF Remove, TypeOK
    <3>2. \A t \in Symbols : live_positions'[t] = live_positions[t] \/ t = sym[a]
      BY <2>1 DEF Remove, TypeOK
    <3>3. \A b \in Actors : pc[b] \in Owners => pc'[b] \in Owners BY <3>1
    <3>4. \A t \in Symbols : pc[t] = "insert" => pc'[t] = "insert" BY <1>0, <3>1
    <3> QED BY <3>1, <3>2, <3>3, <3>4 DEF RefsOwned
  <2>2. CASE ReadRefs(a) BY <2>2, RefsKept DEF ReadRefs
  <2>3. CASE Cancel(a) BY <2>3, RefsKept DEF Cancel
  <2>4. CASE Unref(a)
    <3>1. /\ pc[a] = "unref" /\ \A b \in Actors \ {a} : pc'[b] = pc[b]
          /\ UNCHANGED <<live_positions, sym, delisted>>
      BY <2>4 DEF Unref, TypeOK
    <3>2. \A t \in Symbols : live_orders'[t] = IF t = sym[a] THEN {} ELSE live_orders[t]
      BY <2>4 DEF Unref, TypeOK
    <3>3. \A b \in Actors : sym[b] # sym[a] => pc'[b] = pc[b] BY <3>1
    <3>4. \A t \in Symbols : pc[t] = "insert" => pc'[t] = "insert" BY <1>0, <3>1
    <3> QED BY <3>1, <3>2, <3>3, <3>4 DEF RefsOwned
  <2>5. CASE Query(a)
    <3>1. PICK stage : pc' = [pc EXCEPT ![a] = stage] BY <2>5 DEF Query
    <3> QED BY <2>5, <3>1, RefsMove DEF Query
  <2>6. CASE MarketClose(a) BY <2>6, RefsMove DEF MarketClose
  <2>7. CASE Archive(a) BY <2>7, RefsMove DEF Archive
  <2> QED BY <1>5, <2>1, <2>2, <2>3, <2>4, <2>5, <2>6, <2>7 DEF Closing
<1>6. CASE WsFill
  <2>1. CASE UNCHANGED <<sym, pc>> BY <1>6, <2>1, RefsUnchanged DEF WsFill
  <2>2. CASE sym' = [sym EXCEPT ![Ws] = Head(fills).sym] /\ pc' = [pc EXCEPT ![Ws] = "wscancel"]
    BY <1>0, <1>6, <2>2, RefsMove DEF WsFill
  <2> QED BY <1>6, <2>1, <2>2 DEF WsFill
<1>7. ASSUME NEW a \in {Ws, Psync}, CancelAll(a) PROVE RefsOwned'
  BY <1>0, <1>7, RefsMove DEF CancelAll
<1>8. ASSUME NEW a \in {Ws, Psync}, CandlesMissing(a) PROVE RefsOwned'
  BY <1>0, <1>8, RefsMove DEF CandlesMissing
<1>9. CASE SyncSnapshot BY <1>9, RefsUnchanged DEF SyncSnapshot
<1>10. ASSUME NEW s \in Generic, SyncAnswered(s) PROVE RefsOwned'
  <2>1. CASE UNCHANGED <<sym, pc>> BY <1>10, <2>1, RefsUnchanged DEF SyncAnswered
  <2>2. ASSUME NEW stage, sym' = [sym EXCEPT ![Psync] = s], pc' = [pc EXCEPT ![Psync] = stage]
        PROVE  RefsOwned'
    BY <1>0, <1>10, <2>2, RefsMove DEF SyncAnswered
  <2> QED BY <1>10, <2>1, <2>2 DEF SyncAnswered
<1>11. ASSUME NEW s \in Generic, SyncError(s) PROVE RefsOwned'
  BY <1>11, RefsUnchanged DEF SyncError
<1>12. ASSUME NEW s \in Symbols, Delist(s) PROVE RefsOwned'
  <2>1. \A t \in Symbols \ {s} : live_positions'[t] = live_positions[t] BY <1>12 DEF Delist, TypeOK
  <2>2. delisted' = delisted \cup {s} /\ UNCHANGED <<live_orders, pc, sym>> BY <1>12 DEF Delist
  <2> QED BY <2>1, <2>2 DEF RefsOwned
<1>13. ASSUME NEW s \in Symbols, Trigger(s) \/ CooldownElapses(s) PROVE RefsOwned'
  BY <1>13, RefsUnchanged DEF Trigger, CooldownElapses
<1>14. CASE LoseFills BY <1>14, RefsUnchanged DEF LoseFills
<1>15. CASE BlockExpires BY <1>15, RefsUnchanged DEF BlockExpires
<1>16. CASE UNCHANGED vars BY <1>16, RefsUnchanged DEF vars
<1> QED BY <1>1, <1>2, <1>3, <1>4, <1>5, <1>6, <1>7, <1>8, <1>9, <1>10, <1>11, <1>12,
           <1>13, <1>14, <1>15, <1>16 DEF Next

-----------------------------------------------------------------------------
(* The invariant, and what follows from it *)

(* The initial state satisfies every part of the invariant. *)
LEMMA InitInv == Init => IInv
<1> SUFFICES ASSUME Init PROVE IInv OBVIOUS
<1>1. TypeOK BY InitType
<1>0. Symbols \subseteq Actors /\ Generic \subseteq Symbols BY DEF Actors, Symbols
<1>2. StageDiscipline
  BY <1>0 DEF Init, StageDiscipline, InFlight, OpenStages, Actors
<1>3. PendingExact
  <2>1. \A d \in Dirs : Reserved(d) = {} BY DEF Init, Reserved
  <2> QED BY <2>1, FS_EmptySet DEF Init, PendingExact
<1>4. CapRespected
  <2>1. \A d \in Dirs : Exposure(d) = {}
    BY <1>0 DEF Init, Exposure, Dirs, Flat
  <2>2. \A d \in Dirs : Cap(d) \in Nat BY TuningAssumption DEF Cap
  <2>3. \A d \in Dirs : Cardinality(Exposure(d)) = 0 BY <2>1, FS_EmptySet
  <2>4. \A d \in Dirs : Cap(d) > 0 => Cardinality(Exposure(d)) <= Cap(d)
    BY <2>2, <2>3
  <2> QED BY <2>4 DEF CapRespected
<1>5. LedgerBalanced
  <2>1. \A s \in Symbols : InHand(s) = {} BY DEF Init, InHand
  <2>2. \A s \in Symbols : Cardinality(InHand(s)) = 0 BY <2>1, FS_EmptySet
  <2>3. \A s \in Symbols : opened[s] = 0 /\ closed_trades[s] = 0 /\ live_positions[s] = Flat
    BY DEF Init
  <2> QED BY <2>2, <2>3 DEF LedgerBalanced
<1> QED BY <1>1, <1>2, <1>3, <1>4, <1>5 DEF IInv

(* The parts are inductive together: the counter and the cap need the      *)
(* stages, the cap needs the counter, the types need it not to underflow.  *)
LEMMA StepInv == IInv /\ [Next]_vars => IInv'
BY TypeStep, StageStep, PendingStep, CapStep, LedgerStep DEF IInv

(* The inductive invariant holds in every reachable state. *)
LEMMA Invariance == Spec => []IInv
BY InitInv, StepInv, PTL DEF Spec

(* Types, for every number of symbols, tracks and openings; in particular  *)
(* the unsigned pending counter never goes below zero.                     *)
THEOREM TypeCorrect == Spec => []TypeOK
<1>1. IInv => TypeOK BY DEF IInv
<1> QED BY <1>1, Invariance, PTL

(* The pending counter is the number of guards held, at every moment.      *)
THEOREM PendingIsExact == Spec => []PendingExact
<1>1. IInv => PendingExact BY DEF IInv
<1> QED BY <1>1, Invariance, PTL

(* Parallel openings never carry a capped direction above its cap,         *)
(* whatever the number of symbols and the caps.                            *)
THEOREM CapIsRespected == Spec => []CapRespected
<1>1. IInv => CapRespected BY DEF IInv
<1> QED BY <1>1, Invariance, PTL

(* Every position ever recorded is in the map, in a closer's hands or in   *)
(* the archive, exactly once.                                              *)
THEOREM BooksBalance == Spec => []LedgerBalanced
<1>1. IInv => LedgerBalanced BY DEF IInv
<1> QED BY <1>1, Invariance, PTL

(* Recorded order ids always have someone who will clear them, so that no  *)
(* fill of an old order closes a later position of its symbol.             *)
THEOREM RefsAreOwned == Spec => []RefsOwned
<1>1. Init => RefsOwned BY DEF Init, RefsOwned
<1>2. TypeOK /\ RefsOwned /\ [Next]_vars => RefsOwned' BY RefsStep
<1> QED BY <1>1, <1>2, TypeCorrect, PTL DEF Spec

-----------------------------------------------------------------------------
(* LiveTrading implements PositionLedger: for any symbols and caps, what   *)
(* the tasks, the closers and the purge do to the books is recording below *)
(* the cap, taking, settling and writing off.                              *)


Unsettled == [s \in Symbols |-> Cardinality(InHand(s))]

(* What one closer takes or settles shows at its symbol only. *)
LEMMA UnsettledChange ==
    ASSUME NEW p \in Symbols, NEW n, Cardinality(InHand(p)') = n,
           \A t \in Symbols : t # p => InHand(t)' = InHand(t)
    PROVE  Unsettled' = [Unsettled EXCEPT ![p] = n]
<1>1. \A t \in Symbols : Unsettled'[t] = IF t = p THEN n ELSE Unsettled[t]
  BY DEF Unsettled
<1>2. DOMAIN Unsettled = Symbols /\ DOMAIN (Unsettled') = Symbols BY DEF Unsettled
<1>3. Unsettled' = [t \in Symbols |-> Unsettled'[t]] BY DEF Unsettled
<1>4. [Unsettled EXCEPT ![p] = n] = [t \in Symbols |-> IF t = p THEN n ELSE Unsettled[t]]
  BY <1>2
<1> QED BY <1>1, <1>3, <1>4

(* The ledger's own copy of Cardinality is the standard one. *)
LEMMA SameCardinality == \A S : Ledger!Cardinality(S) = Cardinality(S)
BY DEF Ledger!Cardinality, Cardinality

(* The books of the engine start empty. *)
LEMMA LedgerInit == Init => Ledger!Init
<1> SUFFICES ASSUME Init PROVE Ledger!Init OBVIOUS
<1>1. \A s \in Symbols : InHand(s) = {} BY DEF Init, InHand
<1>2. \A s \in Symbols : Cardinality(InHand(s)) = 0 BY <1>1, FS_EmptySet
<1>3. [s \in Symbols |-> Cardinality(InHand(s))] = [s \in Symbols |-> 0] BY <1>2
<1> QED BY <1>3 DEF Init, Ledger!Init, Ledger!Symbols, Symbols, Flat

(* Recording: the opener's reservation is the free place below the cap. *)
LEMMA InsertRecords ==
    ASSUME IInv, NEW s \in Symbols, Insert(s)
    PROVE  Ledger!Record(s, dir[s])
<1> DEFINE d == dir[s]
           Open == {t \in Generic : live_positions[t] = d}
<1>t. live_positions \in [Symbols -> Dirs \cup {Flat}] /\ d \in Dirs
  BY DEF IInv, TypeOK
<1>1. live_positions[s] = Flat BY DEF IInv, Insert, StageDiscipline, InFlight
<1>2. /\ live_positions' = [live_positions EXCEPT ![s] = d]
      /\ UNCHANGED <<closed_trades, target, sym>>
  BY DEF Insert, closing
<1>3. Unsettled' = Unsettled BY <1>2 DEF Unsettled, InHand
<1>4. ASSUME s \in Generic, Cap(d) > 0 PROVE Cardinality(Open) < Cap(d)
  <2>1. slot[s] BY <1>4 DEF IInv, Insert, StageDiscipline, InFlight
  <2>2. s \notin Open BY <1>t, <1>1 DEF Dirs, Flat
  <2>3. Open \cup {s} \subseteq Exposure(d) BY <1>4, <2>1 DEF Exposure
  <2>4. IsFiniteSet(Exposure(d)) /\ IsFiniteSet(Open)
    BY <1>t, <2>3, ExposureFinite, FS_Subset
  <2>5. Cardinality(Open \cup {s}) = Cardinality(Open) + 1 BY <2>2, <2>4, FS_AddElement
  <2>6. Cardinality(Open \cup {s}) <= Cardinality(Exposure(d))
    BY <2>3, <2>4, FS_Subset
  <2>7. Cardinality(Exposure(d)) <= Cap(d) BY <1>t, <1>4 DEF IInv, CapRespected
  <2>8. Cardinality(Open) \in Nat /\ Cardinality(Exposure(d)) \in Nat /\ Cap(d) \in Nat
    BY <2>4, FS_CardinalityType, TuningAssumption DEF Cap
  <2> HIDE DEF Open, d
  <2> QED BY <2>5, <2>6, <2>7, <2>8
<1>5. Ledger!Cap(d) = Cap(d) BY DEF Ledger!Cap, Cap
<1> QED BY <1>1, <1>2, <1>3, <1>4, <1>5, SameCardinality DEF Ledger!Record, Unsettled, Flat

(* Removing from the map is taking, or nothing when another came first. *)
LEMMA RemoveTakes ==
    ASSUME IInv, NEW a \in Actors, Remove(a), NEW p \in Symbols, p = sym[a]
    PROVE  Ledger!Take(p) \/ UNCHANGED <<live_positions, Unsettled, closed_trades>>
<1>t. /\ live_positions \in [Symbols -> Dirs \cup {Flat}]
      /\ target \in [Actors -> Dirs \cup {Flat}]
  BY DEF IInv, TypeOK
<1>1. target[a] = Flat BY DEF IInv, Remove, StageDiscipline, Holding
<1>2. /\ target' = [target EXCEPT ![a] = live_positions[p]]
      /\ live_positions' = [live_positions EXCEPT ![p] = Flat]
      /\ UNCHANGED <<closed_trades, sym>>
  BY DEF Remove
<1>3. \A t \in Symbols : InHand(t)' = IF t = p /\ live_positions[p] # Flat
                                      THEN InHand(t) \cup {a} ELSE InHand(t)
  BY <1>t, <1>1, <1>2 DEF InHand
<1>4. CASE live_positions[p] = Flat
  <2>1. live_positions' = live_positions BY <1>t, <1>2, <1>4
  <2>2. Unsettled' = Unsettled BY <1>3, <1>4 DEF Unsettled
  <2> QED BY <1>2, <2>1, <2>2
<1>5. CASE live_positions[p] # Flat
  <2>1. a \notin InHand(p) BY <1>1 DEF InHand
  <2>2. InHand(p)' = InHand(p) \cup {a} BY <1>t, <1>3, <1>5
  <2>3. Cardinality(InHand(p)') = Cardinality(InHand(p)) + 1
    BY <1>t, <2>1, <2>2, InHandFinite, FS_AddElement
  <2>4. \A t \in Symbols : t # p => InHand(t)' = InHand(t) BY <1>3
  <2>5. Unsettled' = [Unsettled EXCEPT ![p] = @ + 1]
    <3>1. Cardinality(InHand(p)') = Unsettled[p] + 1 BY <2>3 DEF Unsettled
    <3> QED BY <2>4, <3>1, UnsettledChange
  <2> QED BY <1>2, <1>5, <2>5 DEF Ledger!Take, Unsettled, Flat
<1> QED BY <1>4, <1>5

(* Archiving settles what the closer holds, or nothing. *)
LEMMA ArchiveSettles ==
    ASSUME IInv, NEW a \in Actors, Archive(a), NEW p \in Symbols, p = sym[a]
    PROVE  Ledger!Settle(p) \/ UNCHANGED <<live_positions, Unsettled, closed_trades>>
<1>t. /\ sym \in [Actors -> Symbols]
      /\ target \in [Actors -> Dirs \cup {Flat}]
      /\ closed_trades \in [Symbols -> Nat]
  BY DEF IInv, TypeOK
<1>1. /\ target[a] # Flat => closed_trades' = [closed_trades EXCEPT ![p] = @ + 1]
      /\ target[a] = Flat => closed_trades' = closed_trades
      /\ target' = [target EXCEPT ![a] = Flat]
      /\ sym' = [sym EXCEPT ![a] = Home(a)]
      /\ UNCHANGED live_positions
  BY DEF Archive, Return
<1>2. \A b \in Actors : /\ b # a => target'[b] = target[b] /\ sym'[b] = sym[b]
                        /\ target'[a] = Flat
  BY <1>t, <1>1
<1>3. \A t \in Symbols : InHand(t)' = InHand(t) \ {a}
  BY <1>2 DEF InHand
<1>4. CASE target[a] = Flat
  <2>1. \A t \in Symbols : InHand(t)' = InHand(t) BY <1>3, <1>4 DEF InHand
  <2> QED BY <1>1, <1>4, <2>1 DEF Unsettled
<1>5. CASE target[a] # Flat
  <2>1. a \in InHand(p) BY <1>5 DEF InHand
  <2>2. Cardinality(InHand(p)') = Cardinality(InHand(p)) - 1
    <3>1. InHand(p)' = InHand(p) \ {a} BY <1>t, <1>3
    <3> QED BY <1>t, <2>1, <3>1, InHandFinite, FS_RemoveElement
  <2>3. Cardinality(InHand(p)) > 0
    <3>1. InHand(p) # {} BY <2>1
    <3> QED BY <1>t, <3>1, InHandFinite, FS_EmptySet
  <2>4. \A t \in Symbols : t # p => InHand(t)' = InHand(t) BY <1>3 DEF InHand
  <2>5. Unsettled' = [Unsettled EXCEPT ![p] = @ - 1]
    <3>1. Cardinality(InHand(p)') = Unsettled[p] - 1 BY <2>2 DEF Unsettled
    <3> QED BY <2>4, <3>1, UnsettledChange
  <2> QED BY <1>t, <1>1, <1>5, <2>3, <2>5 DEF Ledger!Settle, Unsettled
<1> QED BY <1>4, <1>5

(* The purge writes the symbol's position off, or finds none. *)
LEMMA DelistWritesOff ==
    ASSUME IInv, NEW s \in Symbols, Delist(s)
    PROVE  Ledger!WriteOff(s) \/ UNCHANGED <<live_positions, Unsettled, closed_trades>>
<1>t. live_positions \in [Symbols -> Dirs \cup {Flat}] BY DEF IInv, TypeOK
<1>1. /\ live_positions' = [live_positions EXCEPT ![s] = Flat]
      /\ live_positions[s] # Flat => closed_trades' = [closed_trades EXCEPT ![s] = @ + 1]
      /\ live_positions[s] = Flat => closed_trades' = closed_trades
      /\ UNCHANGED <<target, sym>>
  BY DEF Delist, closing
<1>2. Unsettled' = Unsettled BY <1>1 DEF Unsettled, InHand
<1>3. CASE live_positions[s] = Flat
  <2>1. live_positions' = live_positions BY <1>t, <1>1, <1>3
  <2> QED BY <1>1, <1>2, <1>3, <2>1
<1>4. CASE live_positions[s] # Flat
  BY <1>1, <1>2, <1>4 DEF Ledger!WriteOff, Unsettled, Flat
<1> QED BY <1>3, <1>4

(* Steps outside the map, the archive and the closers' hands. *)
LEMMA LedgerStutters ==
    ASSUME UNCHANGED <<live_positions, closed_trades, target, sym>>
    PROVE  UNCHANGED <<live_positions, Unsettled, closed_trades>>
BY DEF Unsettled, InHand

LEMMA LedgerStuttersOnTurn ==
    ASSUME IInv, NEW a \in Actors, target[a] = Flat, NEW s,
           sym' = [sym EXCEPT ![a] = s] \/ sym' = sym,
           UNCHANGED <<live_positions, closed_trades, target>>
    PROVE  UNCHANGED <<live_positions, Unsettled, closed_trades>>
<1>1. \A b \in Actors : b # a => sym'[b] = sym[b] BY DEF IInv, TypeOK
<1>2. \A t \in Symbols : InHand(t)' = InHand(t) BY <1>1 DEF InHand
<1> QED BY <1>2 DEF Unsettled

(* Every step of the engine is a step of the ledger or leaves it alone. *)
LEMMA LedgerNext == IInv /\ [Next]_vars => [Ledger!Next]_(Ledger!vars)
<1> SUFFICES ASSUME IInv, [Next]_vars
             PROVE  Ledger!Next \/ UNCHANGED <<live_positions, Unsettled, closed_trades>>
  BY DEF Ledger!vars, Unsettled
<1> DEFINE Stutter == UNCHANGED <<live_positions, Unsettled, closed_trades>>
           Goal == Ledger!Next \/ Stutter
<1>s. UNCHANGED <<live_positions, closed_trades, target, sym>> => Goal
  BY LedgerStutters
<1>t. ASSUME NEW a \in Actors, target[a] = Flat, NEW s,
             sym' = [sym EXCEPT ![a] = s] \/ sym' = sym,
             UNCHANGED <<live_positions, closed_trades, target>>
      PROVE  Goal
  BY <1>t, LedgerStuttersOnTurn
<1>n. /\ Ledger!Symbols = Symbols /\ Ledger!Dirs = Dirs
      /\ Ws \in Actors /\ Psync \in Actors
      /\ sym \in [Actors -> Symbols]
  BY DEF Ledger!Symbols, Symbols, Ledger!Dirs, Dirs, Actors, IInv, TypeOK
<1> HIDE DEF Goal
<1>g. \A s \in Symbols : Ledger!Take(s) \/ Ledger!Settle(s) \/ Ledger!WriteOff(s) => Goal
  BY <1>n DEF Goal, Ledger!Next
<1>u. Stutter => Goal BY DEF Goal
<1> HIDE DEF Stutter
<1> USE DEF ledger, closing
<1>1. ASSUME StartTasks PROVE Goal BY <1>1, <1>s DEF StartTasks
<1>2. ASSUME NEW s \in Generic, EndTask(s) PROVE Goal BY <1>2, <1>s DEF EndTask
<1>3. ASSUME NEW s \in Symbols, Opening(s) PROVE Goal
  <2>1. ASSUME NEW d \in Dirs, OpenAttempt(s, d) PROVE Goal
    BY <2>1, <1>s DEF OpenAttempt
  <2>2. CASE \/ GateAdmit(s) \/ GateRefuse(s) \/ GiveUp(s) \/ PassBlock(s)
             \/ EntryBlocked(s) \/ EntryFilled(s)
    BY <2>2, <1>s DEF GateAdmit, GateRefuse, GiveUp, PassBlock, EntryBlocked, EntryFilled
  <2>3. CASE Protect(s) \/ SealRefs(s) \/ OpenReturns(s)
    BY <2>3, <1>s DEF Protect, SealRefs, OpenReturns
  <2>4. CASE Insert(s)
    <3>1. dir[s] \in Dirs BY DEF IInv, TypeOK
    <3> QED BY <1>n, <2>4, <3>1, InsertRecords DEF Goal, Ledger!Next
  <2> QED BY <1>3, <2>1, <2>2, <2>3, <2>4 DEF Opening
<1>4. ASSUME NEW s \in Symbols, EngineClose(s) PROVE Goal BY <1>4, <1>s DEF EngineClose
<1>5. ASSUME NEW a \in Actors, Closing(a) PROVE Goal
  <2>0. sym[a] \in Symbols BY <1>n
  <2>1. CASE Remove(a) BY <1>g, <1>u, <2>0, <2>1, RemoveTakes DEF Stutter
  <2>2. CASE ReadRefs(a) \/ Cancel(a) \/ Unref(a) \/ Query(a) \/ MarketClose(a)
    BY <2>2, <1>s DEF ReadRefs, Cancel, Unref, Query, MarketClose
  <2>3. CASE Archive(a) BY <1>g, <1>u, <2>0, <2>3, ArchiveSettles DEF Stutter
  <2> QED BY <1>5, <2>1, <2>2, <2>3 DEF Closing
<1>6. ASSUME WsFill PROVE Goal
  <2>1. target[Ws] = Flat BY <1>n, <1>6 DEF WsFill, IInv, StageDiscipline, Holding
  <2>2. UNCHANGED <<live_positions, closed_trades, target>> BY <1>6 DEF WsFill
  <2>3. sym' = [sym EXCEPT ![Ws] = Head(fills).sym] \/ sym' = sym
    BY <1>6, Zenon DEF WsFill
  <2> QED BY <1>n, <1>t, <2>1, <2>2, <2>3
<1>7. ASSUME NEW a \in {Ws, Psync}, CancelAll(a) PROVE Goal BY <1>7, <1>s DEF CancelAll
<1>8. ASSUME NEW a \in {Ws, Psync}, CandlesMissing(a) PROVE Goal
  <2>1. target[a] = Flat
    BY <1>n, <1>8 DEF CandlesMissing, IInv, StageDiscipline, Holding
  <2>2. UNCHANGED <<live_positions, closed_trades, target>> BY <1>8 DEF CandlesMissing
  <2>3. sym' = [sym EXCEPT ![a] = Home(a)] BY <1>8 DEF CandlesMissing, Return
  <2> QED BY <1>n, <1>t, <2>1, <2>2, <2>3
<1>9. ASSUME SyncSnapshot PROVE Goal BY <1>9, <1>s DEF SyncSnapshot
<1>10. ASSUME NEW s \in Generic, SyncAnswered(s) PROVE Goal
  <2>1. target[Psync] = Flat
    BY <1>n, <1>10 DEF SyncAnswered, IInv, StageDiscipline, Holding
  <2>2. UNCHANGED <<live_positions, closed_trades, target>> BY <1>10 DEF SyncAnswered
  <2>3. sym' = [sym EXCEPT ![Psync] = s] \/ sym' = sym
    BY <1>10, Zenon DEF SyncAnswered
  <2> QED BY <1>n, <1>t, <2>1, <2>2, <2>3
<1>11. ASSUME NEW s \in Generic, SyncError(s) PROVE Goal BY <1>11, <1>s DEF SyncError
<1>12. ASSUME NEW s \in Symbols, Delist(s) PROVE Goal
  BY <1>g, <1>u, <1>12, DelistWritesOff DEF Stutter
<1>13. ASSUME NEW s \in Symbols, Trigger(s) \/ CooldownElapses(s) PROVE Goal
  BY <1>13, <1>s DEF Trigger, CooldownElapses
<1>14. ASSUME LoseFills PROVE Goal BY <1>14, <1>s DEF LoseFills
<1>15. ASSUME BlockExpires PROVE Goal BY <1>15, <1>s DEF BlockExpires
<1>16. ASSUME UNCHANGED vars PROVE Goal BY <1>16, <1>s DEF vars
<1>17. Goal
  BY <1>1, <1>2, <1>3, <1>4, <1>5, <1>6, <1>7, <1>8, <1>9, <1>10, <1>11, <1>12, <1>13,
     <1>14, <1>15, <1>16 DEF Next
<1> QED BY <1>17 DEF Goal, Stutter

(* The engine keeps its books as the abstract ledger promises: recording   *)
(* only an empty symbol and only below the cap, settling each position     *)
(* that leaves the map exactly once.                                       *)
THEOREM EngineImplementsLedger == Spec => ImplementsLedger
BY LedgerInit, LedgerNext, Invariance, PTL DEF Spec, ImplementsLedger, Ledger!Spec

=============================================================================
