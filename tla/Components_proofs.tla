-------------------------- MODULE Components_proofs ---------------------------
(***************************************************************************)
(* The components together, as the run Components takes them: a step is a  *)
(* step of one of them and leaves the others alone, so the behaviour of all *)
(* is a behaviour of each, and what is proved of each holds of all.        *)
(***************************************************************************)
EXTENDS MCComponents, MakerEntry_proofs, PositionParts_proofs, ExitParts_proofs,
        JobParts_proofs, ManagerParts_proofs, TLAPS

(* A step of the whole is, for each component, a step of it or none.       *)
LEMMA StepsApart ==
    [NextParts]_allVars =>
        /\ NextMaker \/ UNCHANGED vars
        /\ NextSize \/ UNCHANGED sizeVars
        /\ NextBooks \/ UNCHANGED acctVars
        /\ NextBook \/ UNCHANGED bookVars
        /\ NextPath \/ UNCHANGED pathVars
        /\ NextBt \/ UNCHANGED engineVars
        /\ NextCandles \/ UNCHANGED candlesVars
        /\ NextDelist \/ UNCHANGED delistVars
        /\ NextScreen \/ UNCHANGED screenVars
        /\ NextTuning \/ UNCHANGED tuningVars
        /\ NextPlan \/ UNCHANGED planVars
        /\ NextRegime \/ UNCHANGED regimeVars
        /\ NextSched \/ UNCHANGED schedVars
        /\ NextReload \/ UNCHANGED reloadVars
        /\ NextBreaker \/ UNCHANGED breakerVars
        /\ NextHealth \/ UNCHANGED healthVars
        /\ NextMt5 \/ UNCHANGED mt5Vars
<1> SUFFICES ASSUME [NextParts]_allVars
             PROVE  /\ NextMaker \/ UNCHANGED vars
                    /\ NextSize \/ UNCHANGED sizeVars
                    /\ NextBooks \/ UNCHANGED acctVars
                    /\ NextBook \/ UNCHANGED bookVars
                    /\ NextPath \/ UNCHANGED pathVars
                    /\ NextBt \/ UNCHANGED engineVars
                    /\ NextCandles \/ UNCHANGED candlesVars
                    /\ NextDelist \/ UNCHANGED delistVars
                    /\ NextScreen \/ UNCHANGED screenVars
                    /\ NextTuning \/ UNCHANGED tuningVars
                    /\ NextPlan \/ UNCHANGED planVars
                    /\ NextRegime \/ UNCHANGED regimeVars
                    /\ NextSched \/ UNCHANGED schedVars
                    /\ NextReload \/ UNCHANGED reloadVars
                    /\ NextBreaker \/ UNCHANGED breakerVars
                    /\ NextHealth \/ UNCHANGED healthVars
                    /\ NextMt5 \/ UNCHANGED mt5Vars
  OBVIOUS
<1>1. CASE UNCHANGED allVars BY <1>1 DEF allVars
<1>2. CASE NextMaker
  <2>1. Only("maker") BY <1>2 DEF NextMaker
  <2> QED BY <1>2, <2>1 DEF Only
<1>3. CASE NextSize
  <2>1. Only("size") BY <1>3 DEF NextSize
  <2> QED BY <1>3, <2>1 DEF Only
<1>4. CASE NextBooks
  <2>1. Only("acct") BY <1>4 DEF NextBooks
  <2> QED BY <1>4, <2>1 DEF Only
<1>5. CASE NextBook
  <2>1. Only("book") BY <1>5 DEF NextBook
  <2> QED BY <1>5, <2>1 DEF Only
<1>6. CASE NextPath
  <2>1. Only("path") BY <1>6 DEF NextPath
  <2> QED BY <1>6, <2>1 DEF Only
<1>7. CASE NextBt
  <2>1. Only("engine") BY <1>7 DEF NextBt
  <2> QED BY <1>7, <2>1 DEF Only
<1>8. CASE NextCandles
  <2>1. Only("candles") BY <1>8 DEF NextCandles
  <2> QED BY <1>8, <2>1 DEF Only
<1>9. CASE NextDelist
  <2>1. Only("delist") BY <1>9 DEF NextDelist
  <2> QED BY <1>9, <2>1 DEF Only
<1>10. CASE NextScreen
  <2>1. Only("screen") BY <1>10 DEF NextScreen
  <2> QED BY <1>10, <2>1 DEF Only
<1>11. CASE NextTuning
  <2>1. Only("tuning") BY <1>11 DEF NextTuning
  <2> QED BY <1>11, <2>1 DEF Only
<1>12. CASE NextPlan
  <2>1. Only("plan") BY <1>12 DEF NextPlan
  <2> QED BY <1>12, <2>1 DEF Only
<1>13. CASE NextRegime
  <2>1. Only("regime") BY <1>13 DEF NextRegime
  <2> QED BY <1>13, <2>1 DEF Only
<1>14. CASE NextSched
  <2>1. Only("sched") BY <1>14 DEF NextSched
  <2> QED BY <1>14, <2>1 DEF Only
<1>15. CASE NextReload
  <2>1. Only("reload") BY <1>15 DEF NextReload
  <2> QED BY <1>15, <2>1 DEF Only
<1>16. CASE NextBreaker
  <2>1. Only("breaker") BY <1>16 DEF NextBreaker
  <2> QED BY <1>16, <2>1 DEF Only
<1>17. CASE NextHealth
  <2>1. Only("health") BY <1>17 DEF NextHealth
  <2> QED BY <1>17, <2>1 DEF Only
<1>18. CASE NextMt5
  <2>1. Only("mt5") BY <1>18 DEF NextMt5
  <2> QED BY <1>18, <2>1 DEF Only
<1> QED BY <1>1, <1>2, <1>3, <1>4, <1>5, <1>6, <1>7, <1>8, <1>9, <1>10, <1>11, <1>12, <1>13,
       <1>14, <1>15, <1>16, <1>17, <1>18 DEF NextParts

(* So the whole implements each component: that its steps are steps of the  *)
(* component, or leave its variables alone, is all that has to be shown.    *)
LEMMA MakerInWhole == SpecParts => Spec
<1>1. InitParts => Init BY DEF InitParts
<1>2. [NextParts]_allVars => [Next]_vars BY StepsApart DEF NextMaker
<1> QED BY <1>1, <1>2, PTL DEF SpecParts, Spec

LEMMA SizeInWhole == SpecParts => Size!Spec
<1>1. InitParts => Size!Init BY DEF InitParts
<1>2. UNCHANGED sizeVars => UNCHANGED Size!vars BY DEF sizeVars, Size!vars, Size!task,
      Size!closes
<1>3. [NextParts]_allVars => [Size!Next]_Size!vars BY <1>2, StepsApart DEF NextSize
<1> QED BY <1>1, <1>3, PTL DEF SpecParts, Size!Spec

LEMMA BooksInWhole == SpecParts => Books!Spec
<1>1. InitParts => Books!Init BY DEF InitParts
<1>2. UNCHANGED acctVars => UNCHANGED Books!bookVars BY DEF acctVars, Books!bookVars,
      Books!engine, Books!exchange, Books!repair
<1>3. [NextParts]_allVars => [Books!Next]_Books!bookVars BY <1>2, StepsApart DEF NextBooks
<1> QED BY <1>1, <1>3, PTL DEF SpecParts, Books!Spec

LEMMA BookInWhole == SpecParts => Book!Spec
<1>1. InitParts => Book!Init BY DEF InitParts
<1>2. UNCHANGED bookVars => UNCHANGED Book!bookVars BY DEF bookVars, Book!bookVars, Book!plan
<1>3. [NextParts]_allVars => [Book!Next]_Book!bookVars BY <1>2, StepsApart DEF NextBook
<1> QED BY <1>1, <1>3, PTL DEF SpecParts, Book!Spec

LEMMA PathInWhole == SpecParts => Path!Spec
<1>1. InitParts => Path!Init BY DEF InitParts
<1>2. UNCHANGED pathVars => UNCHANGED Path!pathVars BY DEF pathVars, Path!pathVars
<1>3. [NextParts]_allVars => [Path!Next]_Path!pathVars BY <1>2, StepsApart DEF NextPath
<1> QED BY <1>1, <1>3, PTL DEF SpecParts, Path!Spec

LEMMA BtInWhole == SpecParts => Bt!Spec
<1>1. InitParts => Bt!Init BY DEF InitParts
<1>2. UNCHANGED engineVars => UNCHANGED Bt!engineVars BY DEF engineVars, Bt!engineVars
<1>3. [NextParts]_allVars => [Bt!Next]_Bt!engineVars BY <1>2, StepsApart DEF NextBt
<1> QED BY <1>1, <1>3, PTL DEF SpecParts, Bt!Spec

LEMMA CandlesInWhole == SpecParts => Candles!Spec
<1>1. InitParts => Candles!Init BY DEF InitParts
<1>2. UNCHANGED candlesVars => UNCHANGED Candles!downloadVars BY DEF candlesVars,
      Candles!downloadVars
<1>3. [NextParts]_allVars => [Candles!Next]_Candles!downloadVars BY <1>2, StepsApart DEF
      NextCandles
<1> QED BY <1>1, <1>3, PTL DEF SpecParts, Candles!Spec

LEMMA DelistInWhole == SpecParts => Delist!Spec
<1>1. InitParts => Delist!Init BY DEF InitParts
<1>2. UNCHANGED delistVars => UNCHANGED Delist!watchVars BY DEF delistVars, Delist!watchVars
<1>3. [NextParts]_allVars => [Delist!Next]_Delist!watchVars BY <1>2, StepsApart DEF NextDelist
<1> QED BY <1>1, <1>3, PTL DEF SpecParts, Delist!Spec

LEMMA ScreenInWhole == SpecParts => Screen!Spec
<1>1. InitParts => Screen!Init BY DEF InitParts
<1>2. UNCHANGED screenVars => UNCHANGED Screen!screenerVars BY DEF screenVars,
      Screen!screenerVars
<1>3. [NextParts]_allVars => [Screen!Next]_Screen!screenerVars BY <1>2, StepsApart DEF
      NextScreen
<1> QED BY <1>1, <1>3, PTL DEF SpecParts, Screen!Spec

LEMMA TuningInWhole == SpecParts => Tuning!Spec
<1>1. InitParts => Tuning!Init BY DEF InitParts
<1>2. UNCHANGED tuningVars => UNCHANGED Tuning!tuningVars BY DEF tuningVars, Tuning!tuningVars
<1>3. [NextParts]_allVars => [Tuning!Next]_Tuning!tuningVars BY <1>2, StepsApart DEF NextTuning
<1> QED BY <1>1, <1>3, PTL DEF SpecParts, Tuning!Spec

LEMMA PlanInWhole == SpecParts => Plan!Spec
<1>1. InitParts => Plan!Init BY DEF InitParts
<1>2. UNCHANGED planVars => UNCHANGED Plan!vars BY DEF planVars, Plan!vars
<1>3. [NextParts]_allVars => [Plan!Next]_Plan!vars BY <1>2, StepsApart DEF NextPlan
<1> QED BY <1>1, <1>3, PTL DEF SpecParts, Plan!Spec

LEMMA RegimeInWhole == SpecParts => Regime!Spec
<1>1. InitParts => Regime!Init BY DEF InitParts
<1>2. UNCHANGED regimeVars => UNCHANGED Regime!vars BY DEF regimeVars, Regime!vars
<1>3. [NextParts]_allVars => [Regime!Next]_Regime!vars BY <1>2, StepsApart DEF NextRegime
<1> QED BY <1>1, <1>3, PTL DEF SpecParts, Regime!Spec

LEMMA SchedInWhole == SpecParts => Sched!Spec
<1>1. InitParts => Sched!Init BY DEF InitParts
<1>2. UNCHANGED schedVars => UNCHANGED Sched!schedVars BY DEF schedVars, Sched!schedVars
<1>3. [NextParts]_allVars => [Sched!Next]_Sched!schedVars BY <1>2, StepsApart DEF NextSched
<1> QED BY <1>1, <1>3, PTL DEF SpecParts, Sched!Spec

LEMMA ReloadInWhole == SpecParts => Reload!Spec
<1>1. InitParts => Reload!Init BY DEF InitParts
<1>2. UNCHANGED reloadVars => UNCHANGED Reload!reloadVars BY DEF reloadVars, Reload!reloadVars,
      Reload!updateVars, Reload!versionVars, Reload!loaderVars
<1>3. [NextParts]_allVars => [Reload!Next]_Reload!reloadVars BY <1>2, StepsApart DEF NextReload
<1> QED BY <1>1, <1>3, PTL DEF SpecParts, Reload!Spec

LEMMA BreakerInWhole == SpecParts => Breaker!Spec
<1>1. InitParts => Breaker!Init BY DEF InitParts
<1>2. UNCHANGED breakerVars => UNCHANGED Breaker!breakerVars BY DEF breakerVars,
      Breaker!breakerVars
<1>3. [NextParts]_allVars => [Breaker!Next]_Breaker!breakerVars BY <1>2, StepsApart DEF
      NextBreaker
<1> QED BY <1>1, <1>3, PTL DEF SpecParts, Breaker!Spec

LEMMA HealthInWhole == SpecParts => Health!Spec
<1>1. InitParts => Health!Init BY DEF InitParts
<1>2. UNCHANGED healthVars => UNCHANGED <<Health!failoverVars, Health!healthVars>> BY DEF
      healthVars, Health!failoverVars, Health!healthVars
<1>3. [NextParts]_allVars => [Health!Next]_<<Health!failoverVars, Health!healthVars>> BY <1>2,
      StepsApart DEF NextHealth
<1> QED BY <1>1, <1>3, PTL DEF SpecParts, Health!Spec

LEMMA Mt5InWhole == SpecParts => Mt5!Spec
<1>1. InitParts => Mt5!Init BY DEF InitParts
<1>2. UNCHANGED mt5Vars => UNCHANGED Mt5!bridgeVars BY DEF mt5Vars, Mt5!bridgeVars
<1>3. [NextParts]_allVars => [Mt5!Next]_Mt5!bridgeVars BY <1>2, StepsApart DEF NextMt5
<1> QED BY <1>1, <1>3, PTL DEF SpecParts, Mt5!Spec

(* Every component keeps its types, whatever its parameters (run Components). *)
THEOREM AllTypesCorrect == SpecParts => []TypesCorrect
<1>1. SpecParts => []TypeOK BY MakerInWhole, EntryTypeCorrect, PTL
<1>2. SpecParts => []Size!TypeOK BY SizeInWhole, SizeTypeCorrect, PTL
<1>3. SpecParts => []Books!TypeOK BY BooksInWhole, BooksTypeCorrect, PTL
<1>4. SpecParts => []Book!TypeOK BY BookInWhole, BookTypeCorrect, PTL
<1>5. SpecParts => []Path!TypeOK BY PathInWhole, PathTypeCorrect, PTL
<1>6. SpecParts => []Bt!TypeOK BY BtInWhole, EngineTypeCorrect, PTL
<1>7. SpecParts => []Candles!TypeOK BY CandlesInWhole, CandlesTypeCorrect, PTL
<1>8. SpecParts => []Delist!TypeOK BY DelistInWhole, WatchTypeCorrect, PTL
<1>9. SpecParts => []Screen!TypeOK BY ScreenInWhole, PoolIsBounded, PTL
<1>10. SpecParts => []Tuning!TypeOK BY TuningInWhole, TuningTypeCorrect, PTL
<1>11. SpecParts => []Plan!TypeOK BY PlanInWhole, PlanTypeCorrect, PTL
<1>12. SpecParts => []Regime!TypeOK BY RegimeInWhole, RegimeTypeCorrect, PTL
<1>13. SpecParts => []Sched!TypeOK BY SchedInWhole, SchedulerTypeCorrect, PTL
<1>14. SpecParts => []Reload!TypeOK BY ReloadInWhole, ReloadTypeCorrect, PTL
<1>15. SpecParts => []Breaker!TypeOK BY BreakerInWhole, BreakerTypeCorrect, PTL
<1>16. SpecParts => []Health!TypeOK BY HealthInWhole, HealthTypeCorrect, PTL
<1>17. SpecParts => []Mt5!TypeOK BY Mt5InWhole, BridgeTypeCorrect, PTL
<1> QED BY <1>1, <1>2, <1>3, <1>4, <1>5, <1>6, <1>7, <1>8, <1>9, <1>10, <1>11, <1>12, <1>13,
       <1>14, <1>15, <1>16, <1>17, PTL DEF TypesCorrect

(* So do the invariants, the action properties and the refinements the run  *)
(* Components checks, which says more of them than its small instances do.   *)
THEOREM WholeIsCorrect ==
    SpecParts =>
        /\ []RecordedIsBought
        /\ []StrayNeedsFailure
        /\ []OwnTranchesInOrder
        /\ PositionsMoveOn
        /\ []StateHasOwner
        /\ []EquityIsWallet
        /\ []TargetIsStable
        /\ []ChurnNeedsBars
        /\ []FlatButStale
        /\ []LossIsBounded
        /\ []ArmedNeverLoses
        /\ []SoldOnce
        /\ []BreakevenHolds
        /\ []HolesNeedFailure
        /\ []PartialOnlyAtSeams
        /\ []PurgeNeedsWord
        /\ []SelectionInForce
        /\ []TunedForStrategy
        /\ []SealedIsWhole
        /\ []EdgeIsProven
        /\ []JobPatchKept
        /\ PaperFirst
        /\ ClosesOnlyTested
        /\ GivenUpForItsOwn
        /\ ServesRequests
        /\ []ExecutedInOrder
<1>1. SpecParts => []RecordedIsBought BY MakerInWhole, EnteredIsBought, PTL
<1>2. SpecParts => []StrayNeedsFailure BY MakerInWhole, NoStrayOrder, PTL
<1>3. SpecParts => []OwnTranchesInOrder BY SizeInWhole, OwnTranches, PTL
<1>4. SpecParts => PositionsMoveOn BY SizeInWhole, SizeImplementsLife, PTL
<1>5. SpecParts => []StateHasOwner BY SizeInWhole, GradedStateIsOwned, PTL
<1>6. SpecParts => []EquityIsWallet BY BooksInWhole, EquityFollowsWallet, PTL
<1>7. SpecParts => []TargetIsStable BY BookInWhole, TargetRests, PTL
<1>8. SpecParts => []ChurnNeedsBars BY BookInWhole, LegsAreHeld, PTL
<1>9. SpecParts => []FlatButStale BY BookInWhole, FlatIsFlat, PTL
<1>10. SpecParts => []LossIsBounded BY PathInWhole, StopBoundsLoss, PTL
<1>11. SpecParts => []ArmedNeverLoses BY PathInWhole, BreakevenNeverLoses, PTL
<1>12. SpecParts => []SoldOnce BY BtInWhole, PartsSoldOnce, PTL
<1>13. SpecParts => []BreakevenHolds BY BtInWhole, BreakevenIsKept, PTL
<1>14. SpecParts => []HolesNeedFailure BY CandlesInWhole, HolesAreExplained, PTL
<1>15. SpecParts => []PartialOnlyAtSeams BY CandlesInWhole, PartialsAreExplained, PTL
<1>16. SpecParts => []PurgeNeedsWord BY DelistInWhole, PurgedOnItsWord, PTL
<1>17. SpecParts => []SelectionInForce BY ScreenInWhole, PoolIsSelection, PTL
<1>18. SpecParts => []TunedForStrategy BY TuningInWhole, TunedTogether, PTL
<1>19. SpecParts => []SealedIsWhole BY TuningInWhole, SealsAreWhole, PTL
<1>20. SpecParts => []EdgeIsProven BY PlanInWhole, EdgeProven, PTL
<1>21. SpecParts => []JobPatchKept BY RegimeInWhole, JobDecides, PTL
<1>22. SpecParts => PaperFirst BY SchedInWhole, PaperComesFirst, PTL
<1>23. SpecParts => ClosesOnlyTested BY BreakerInWhole, ClosedWhenTested, PTL
<1>24. SpecParts => GivenUpForItsOwn BY HealthInWhole, FailoverIsEarned, PTL
<1>25. SpecParts => ServesRequests BY Mt5InWhole, BridgeIsService, PTL
<1>26. SpecParts => []ExecutedInOrder BY Mt5InWhole, OrdersInOrder, PTL
<1> QED BY <1>1, <1>2, <1>3, <1>4, <1>5, <1>6, <1>7, <1>8, <1>9, <1>10, <1>11, <1>12, <1>13,
       <1>14, <1>15, <1>16, <1>17, <1>18, <1>19, <1>20, <1>21, <1>22, <1>23, <1>24, <1>25, <1>26

=============================================================================
