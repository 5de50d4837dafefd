---------------------------- MODULE RegimePatches ----------------------------
(* The parameter patches of the market regimes: the heuristic one a cycle    *)
(* installs when it meets a regime for the first time, the one the backtest  *)
(* job writes, and the tightening after drifts and losing trades             *)
(* (robot/parameters/store.rs, engines/master/edge_regime.rs).               *)
EXTENDS Naturals, Sequences, FiniteSets

CONSTANTS Symbols,      \* each has a cycle task of its own, run in parallel
          Regimes,
          HasDefault,   \* the regimes default_patch_for_regime has a patch for
          DRIFT_CONFIRMATION_TURNS, DRIFT_COOLDOWN_SECS,
          WINDOW,       \* trades a regime's feedback looks back on
          Horizon       \* bound: seconds
RegimeAssumption ==
    /\ HasDefault \subseteq Regimes
    /\ {DRIFT_CONFIRMATION_TURNS, WINDOW, Horizon} \subseteq Nat \ {0}
    /\ DRIFT_COOLDOWN_SECS \in Nat

None == "none"

VARIABLES overrides,            \* per regime its patch: whose it is, and whether it sets a policy
          feedback,             \* per regime the last trades: won or not
          last_observed_regime,
          pending_regime,       \* the candidate and how often it was seen in a row
          last_drift_at,        \* 0: no drift yet
          now,
          cycle,                \* per symbol: between which of its locked sections, in which regime
          decided               \* regimes whose direction, as the job decided it, has to be in force (history)
vars == <<overrides, feedback, last_observed_regime, pending_regime, last_drift_at, now, cycle,
          decided>>

Patch == [by: {"base", "default", "job"}, policy: BOOLEAN]
NoPatch == [by |-> None, policy |-> FALSE]

TypeOK ==
    /\ overrides \in [Regimes -> Patch \cup {NoPatch}]
    /\ \A r \in Regimes : feedback[r] \in Seq(BOOLEAN) /\ Len(feedback[r]) <= WINDOW
    /\ last_observed_regime \in Regimes \cup {None}
    /\ pending_regime \in [regime: Regimes \cup {None}, count: Nat]
    /\ last_drift_at \in 0 .. Horizon /\ now \in 1 .. Horizon
    /\ cycle \in [Symbols -> [at: {"start", "install", "observe"}, regime: Regimes \cup {None}]]
    /\ decided \subseteq Regimes

NoCandidate == [regime |-> None, count |-> 0]

Init ==
    /\ overrides = [r \in Regimes |-> NoPatch]
    /\ feedback = [r \in Regimes |-> <<>>]
    /\ last_observed_regime = None /\ pending_regime = NoCandidate
    /\ last_drift_at = 0 /\ now = 1
    /\ cycle = [s \in Symbols |-> [at |-> "start", regime |-> None]]
    /\ decided = {}

\* tighten_regime_patch: thresholds and risk a step tighter than the patch's, or than the base
\* values; policy and trail target are not carried over.
Tightened(r) ==
    [by |-> IF overrides[r] = NoPatch THEN "base" ELSE overrides[r].by,
     policy |-> FALSE]

Tighten(r) ==
    /\ overrides' = [overrides EXCEPT ![r] = Tightened(r)]
    /\ decided' = decided \ {r}

\* Mutant: a patch that is not the heuristic one is replaced by it.
NeedsPatchAlways(r) == overrides[r].by # "default" /\ r \in HasDefault

\* ensure_regime_patch: whether the regime has a patch is read under one lock ...
NeedsPatch(r) == overrides[r] = NoPatch /\ r \in HasDefault

EnsureCheck(s) ==
    /\ cycle[s].at = "start"
    /\ \E r \in Regimes :
         cycle' = [cycle EXCEPT ![s] = [at |-> IF NeedsPatch(r) THEN "install" ELSE "observe",
                                        regime |-> r]]
    /\ UNCHANGED <<overrides, feedback, last_observed_regime, pending_regime, last_drift_at, now, decided>>

\* ... and the patch is written under another.
EnsureInstall(s) ==
    /\ cycle[s].at = "install"
    /\ overrides' = [overrides EXCEPT ![cycle[s].regime] = [by |-> "default", policy |-> FALSE]]
    /\ cycle' = [cycle EXCEPT ![s].at = "observe"]
    /\ UNCHANGED <<feedback, last_observed_regime, pending_regime, last_drift_at, now, decided>>

\* The count the candidate has with this observation; it is only compared with
\* DRIFT_CONFIRMATION_TURNS and need not be told apart beyond it.
Sightings(r) ==
    IF pending_regime.regime # r THEN 1
    ELSE IF pending_regime.count < DRIFT_CONFIRMATION_TURNS THEN pending_regime.count + 1
    ELSE pending_regime.count

CoolingDown == last_drift_at # 0 /\ now - last_drift_at < DRIFT_COOLDOWN_SECS

\* observe_regime_with_now, without the tightening of a confirmed drift.
Observed(r) ==
    IF last_observed_regime \in {None, r}
    THEN /\ last_observed_regime' = r /\ pending_regime' = NoCandidate
         /\ UNCHANGED last_drift_at
    ELSE IF Sightings(r) < DRIFT_CONFIRMATION_TURNS \/ CoolingDown
    THEN /\ pending_regime' = [regime |-> r, count |-> Sightings(r)]
         /\ UNCHANGED <<last_observed_regime, last_drift_at>>
    ELSE /\ last_observed_regime' = r /\ pending_regime' = NoCandidate
         /\ last_drift_at' = now

Drifts(r) == last_observed_regime' # last_observed_regime /\ last_observed_regime # None

Observe(s) ==
    LET r == cycle[s].regime IN
    /\ cycle[s].at = "observe"
    /\ Observed(r)
    /\ IF Drifts(r) THEN Tighten(r) ELSE UNCHANGED <<overrides, decided>>
    /\ cycle' = [cycle EXCEPT ![s] = [at |-> "start", regime |-> None]]
    /\ UNCHANGED <<feedback, now>>

\* RegimeFeedback::record.
Recorded(r, won) ==
    LET q == Append(feedback[r], won) IN IF Len(q) > WINDOW THEN Tail(q) ELSE q

LosingWindow(q) ==
    /\ Len(q) >= WINDOW
    /\ 100 * Cardinality({i \in DOMAIN q : q[i]}) < 40 * Len(q)

\* apply_trade_feedback, at a close.
Close(r) ==
    \E won \in BOOLEAN :
      /\ feedback' = [feedback EXCEPT ![r] = Recorded(r, won)]
      /\ IF LosingWindow(feedback'[r]) THEN Tighten(r) ELSE UNCHANGED <<overrides, decided>>
      /\ UNCHANGED <<last_observed_regime, pending_regime, last_drift_at, now, cycle>>

\* The backtest job replaces the patches of the regimes it has samples of, with a direction
\* policy for those its A/B test decided.  A patch that a cycle has already found missing may
\* still be overwritten.
JobWrites ==
    \E rs \in SUBSET Regimes \ {{}} : \E directed \in SUBSET rs :
      /\ overrides' = [r \in Regimes |->
                         IF r \in rs THEN [by |-> "job", policy |-> r \in directed] ELSE overrides[r]]
      /\ decided' = ((decided \ rs) \cup directed)
                       \ {cycle[s].regime : s \in {t \in Symbols : cycle[t].at = "install"}}
      /\ UNCHANGED <<feedback, last_observed_regime, pending_regime, last_drift_at, now, cycle>>

Tick ==
    /\ now < Horizon /\ now' = now + 1
    /\ UNCHANGED <<overrides, feedback, last_observed_regime, pending_regime, last_drift_at, cycle, decided>>

Next ==
    \/ \E s \in Symbols : EnsureCheck(s) \/ EnsureInstall(s) \/ Observe(s)
    \/ \E r \in Regimes : Close(r)
    \/ JobWrites \/ Tick

Spec == Init /\ [][Next]_vars

\* The patch and the direction policy the job decided on for a regime stay in force until
\* the regime drifts or loses; only a cycle that had found no patch before the job wrote may
\* put the heuristic one in its place.
JobPatchKept == \A r \in decided : overrides[r].by = "job" /\ overrides[r].policy

=============================================================================
