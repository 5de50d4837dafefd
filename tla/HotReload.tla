------------------------------ MODULE HotReload ------------------------------
(***************************************************************************)
(* Exchanging a strategy while it runs (hot_reload/): the update process   *)
(* (zero_downtime.rs), the history of released versions                    *)
(* (version_manager.rs) and the loaded strategies (strategy_loader.rs).    *)
(* The three are objects of their own that a caller drives side by side;   *)
(* a call that is refused changes nothing.                                 *)
(***************************************************************************)
EXTENDS Integers, Sequences, FiniteSets

CONSTANTS Versions, max_history, Strategies, max_strategies,
          Bound                 \* bounds the updates, releases and loads

ReloadAssumption == max_history \in Nat /\ max_strategies \in Nat /\ Bound \in Nat

VARIABLES
    state,                      \* of the update; there is one iff it is not Idle
    updates,                    \* counters: total, successful, failed, rollbacks
    cancelled,                  \* updates given up by cancel_update (history)
    history,                    \* released versions, the newest first
    current_version,            \* "none" before the first release
    releases,
    loaded_strategies,          \* the loaded ones with their open positions
    total_loaded, total_unloaded

updateVars == <<state, updates, cancelled>>
versionVars == <<history, current_version, releases>>
loaderVars == <<loaded_strategies, total_loaded, total_unloaded>>
reloadVars == <<updateVars, versionVars, loaderVars>>

Init ==
    /\ state = "Idle" /\ cancelled = 0
    /\ updates = [total |-> 0, successful |-> 0, failed |-> 0, rollbacks |-> 0]
    /\ history = <<>> /\ current_version = "none" /\ releases = 0
    /\ loaded_strategies = [s \in {} |-> 0] /\ total_loaded = 0 /\ total_unloaded = 0

-----------------------------------------------------------------------------
\* The update

StartUpdate ==
    /\ state = "Idle" /\ updates.total < Bound
    /\ state' = "Preparing"
    /\ updates' = [updates EXCEPT !.total = @ + 1]
    /\ UNCHANGED <<cancelled, versionVars, loaderVars>>

TestVersion ==
    /\ state = "Preparing" /\ state' = "Ready"
    /\ UNCHANGED <<updates, cancelled, versionVars, loaderVars>>

ExecuteSwitch ==
    /\ state = "Ready" /\ state' = "Transitioning"
    /\ UNCHANGED <<updates, cancelled, versionVars, loaderVars>>

\* Completed, and Rollback below, are left again in the same call.
MarkCompleted ==
    /\ state = "Transitioning" /\ state' = "Idle"
    /\ updates' = [updates EXCEPT !.successful = @ + 1]
    /\ UNCHANGED <<cancelled, versionVars, loaderVars>>

RollbackUpdate ==
    /\ state # "Idle" /\ state' = "Idle"
    /\ updates' = [updates EXCEPT !.failed = @ + 1, !.rollbacks = @ + 1]
    /\ UNCHANGED <<cancelled, versionVars, loaderVars>>

CancelUpdate ==
    /\ state # "Idle" /\ state' = "Idle"
    /\ cancelled' = cancelled + 1
    /\ UNCHANGED <<updates, versionVars, loaderVars>>

-----------------------------------------------------------------------------
\* The versions

ReleaseVersion(v) ==
    /\ releases < Bound /\ releases' = releases + 1
    /\ current_version' = v
    /\ LET longer == <<v>> \o history
       IN  history' = IF Len(longer) > max_history THEN SubSeq(longer, 1, max_history) ELSE longer
    /\ UNCHANGED <<updateVars, loaderVars>>

\* The newest release of the version moves to the front.
RollbackVersion(v) ==
    /\ \E i \in DOMAIN history :
         /\ history[i] = v /\ \A j \in 1 .. i - 1 : history[j] # v
         /\ history' = <<v>> \o SubSeq(history, 1, i - 1) \o SubSeq(history, i + 1, Len(history))
    /\ current_version' = v
    /\ UNCHANGED <<releases, updateVars, loaderVars>>

-----------------------------------------------------------------------------
\* The loaded strategies

Loaded == DOMAIN loaded_strategies

LoadStrategy(s) ==
    /\ s \notin Loaded /\ Cardinality(Loaded) < max_strategies
    /\ total_loaded < Bound
    /\ loaded_strategies' = [t \in Loaded \cup {s} |-> IF t = s THEN 0 ELSE loaded_strategies[t]]
    /\ total_loaded' = total_loaded + 1
    /\ UNCHANGED <<total_unloaded, updateVars, versionVars>>

Unload(s) ==
    /\ s \in Loaded /\ loaded_strategies[s] = 0
    /\ loaded_strategies' = [t \in Loaded \ {s} |-> loaded_strategies[t]]
    /\ total_unloaded' = total_unloaded + 1
    /\ UNCHANGED <<total_loaded, updateVars, versionVars>>

UpdatePositions(s, count) ==
    /\ s \in Loaded
    /\ loaded_strategies' = [loaded_strategies EXCEPT ![s] = count]
    /\ UNCHANGED <<total_loaded, total_unloaded, updateVars, versionVars>>

\* All of them, or none while one is in use.
Clear ==
    /\ \A s \in Loaded : loaded_strategies[s] = 0
    /\ loaded_strategies' = [s \in {} |-> 0]
    /\ total_unloaded' = total_unloaded + Cardinality(Loaded)
    /\ UNCHANGED <<total_loaded, updateVars, versionVars>>

Next ==
    \/ StartUpdate \/ TestVersion \/ ExecuteSwitch \/ MarkCompleted \/ RollbackUpdate \/ CancelUpdate
    \/ \E v \in Versions : ReleaseVersion(v) \/ RollbackVersion(v)
    \/ \E s \in Strategies :
         \/ LoadStrategy(s) \/ Unload(s)
         \/ \E count \in {0, 1} : UpdatePositions(s, count)
    \/ Clear

Spec == Init /\ [][Next]_reloadVars

-----------------------------------------------------------------------------

\* Types, and the counters: every update ends once, completed, rolled back or cancelled,
\* or it is the one under way.
TypeOK ==
    /\ state \in {"Idle", "Preparing", "Ready", "Transitioning"}
    /\ updates.total = updates.successful + updates.failed + cancelled
                       + (IF state = "Idle" THEN 0 ELSE 1)
    /\ history \in Seq(Versions) /\ current_version \in Versions \cup {"none"}
    /\ Loaded \subseteq Strategies

=============================================================================
