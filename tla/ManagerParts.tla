----------------------------- MODULE ManagerParts -----------------------------
(***************************************************************************)
(* The managers: of the parameters in force (plan, patches, scheduler, loaded *)
(* versions), of failing executors, and of the terminal bridge.            *)
(* Each is an instance with parameters and state of its own; names that    *)
(* several components have carry the instance they belong to.              *)
(***************************************************************************)
EXTENDS Integers, Sequences, FiniteSets

-----------------------------------------------------------------------------
CONSTANTS Frames, plan_Candidates, ConfigFrame, plan_Strategies, Seeds, MIN_SCORE,
          STRAT_MARGIN, MaxScore, plan_Jobs

VARIABLES symbol_interval, symbol_strategy, symbol_tracks, booted, plan_job, proven,
          pieced

Plan == INSTANCE SymbolPlan WITH
          Candidates <- plan_Candidates, Strategies <- plan_Strategies,
          Jobs <- plan_Jobs, job <- plan_job

ASSUME PlanAssumed == Plan!PlanAssumption

\* A strategy assigned to a symbol is traded on the time frame it passed on when last
\* scored, though the two are chosen one after the other, each may be kept, and the job
\* writes what it chose later.  Exempt: two jobs that overlapped; tracks from the boot,
\* which no job revises; and a job whose second read of the candles failed or was short,
\* which writes a new time frame under the old strategy (until the next one that scores).
EdgeIsProven == Plan!EdgeIsProven

-----------------------------------------------------------------------------
CONSTANTS Symbols, Regimes, HasDefault, DRIFT_CONFIRMATION_TURNS,
          DRIFT_COOLDOWN_SECS, WINDOW, regime_Horizon

VARIABLES overrides, feedback, last_observed_regime, pending_regime, last_drift_at,
          regime_now, cycle, decided

Regime == INSTANCE RegimePatches WITH
          Horizon <- regime_Horizon, now <- regime_now

ASSUME RegimeAssumed == Regime!RegimeAssumption

\* The patch and the direction policy the job decided on for a regime stay in force until
\* the regime drifts or loses; only a cycle that had found no patch before the job wrote may
\* put the heuristic one in its place.
JobPatchKept == Regime!JobPatchKept

-----------------------------------------------------------------------------
CONSTANTS backtest_interval, paper_duration, max_consecutive_losses, sched_Horizon

VARIABLES sched_now, mode, mode_switch_time, last_backtest, losses, paper_since

Sched == INSTANCE BacktestScheduler WITH
          Horizon <- sched_Horizon, now <- sched_now

ASSUME SchedAssumed == Sched!SchedulerAssumption

\* Every spell of live trading is preceded by a full paper time of its own.
PaperFirst == Sched!PaperFirst

-----------------------------------------------------------------------------
CONSTANTS Versions, max_history, reload_Strategies, max_strategies, Bound

VARIABLES reload_state, updates, cancelled, history, current_version, releases,
          loaded_strategies, total_loaded, total_unloaded

Reload == INSTANCE HotReload WITH
          Strategies <- reload_Strategies, state <- reload_state

ASSUME ReloadAssumed == Reload!ReloadAssumption

-----------------------------------------------------------------------------
CONSTANTS failure_count_threshold, failure_percent, success_count_to_close,
          MaxRequests

VARIABLES breaker_state, total_requests, failed_requests, half_open_success_count,
          expired, streak

Breaker == INSTANCE CircuitBreaker WITH
          state <- breaker_state

ASSUME BreakerAssumed == Breaker!BreakerAssumption

\* A circuit that opened is closed by success_count_to_close successes in a row, the
\* tests of earlier recoveries not counted (or by a reset, which leaves no streak).
ClosesOnlyTested == Breaker!ClosesOnlyTested

-----------------------------------------------------------------------------
CONSTANTS max_consecutive_failures, max_checks_to_recover, max_checks_to_critical,
          Values, MaxChecks

VARIABLES current_executor, failover, failure_count, failures, current_state,
          consecutive_healthy_checks, consecutive_critical_checks

Health == INSTANCE FailoverManager

ASSUME HealthAssumed == Health!FailoverAssumption

\* An executor is given up only for its own failures: the primary's do not count
\* against the fallback, and a success in between starts the count again.
GivenUpForItsOwn == Health!GivenUpForItsOwn

-----------------------------------------------------------------------------
CONSTANTS Callers, Requests, Links

VARIABLES request, conn, backlog, wire, replies, dropped, closed, sock, buf,
          written, executed, answer, asked, linked

Mt5 == INSTANCE Mt5Bridge

ASSUME Mt5Assumed == Mt5!BridgeAssumption

\* Whatever is cut off, late, dropped or restarted, the callers see a service that sends a
\* request once, carries out what was sent once and in order, and answers a request only
\* after it has been carried out, with its own answer.
ServesRequests == Mt5!ServesRequests

\* Orders are carried out in the order they were sent and none of them twice, though some
\* after their request has failed.
ExecutedInOrder == Mt5!ExecutedInOrder

=============================================================================
