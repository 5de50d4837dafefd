--------------------------- MODULE FailoverManager ---------------------------
(***************************************************************************)
(* The choice between a primary and a fallback executor                    *)
(* (error_recovery/failover.rs, strategy PrimaryWithFallback) and the      *)
(* health state machine beside it (error_recovery/recovery_state.rs).      *)
(* Both only see what is reported to them, in any order.  Metrics are      *)
(* updated between two checks in any way, so a check reads any values, in  *)
(* tenths.                                                                 *)
(***************************************************************************)
EXTENDS Integers, FiniteSets, FiniteSetsExt

CONSTANTS
    max_consecutive_failures,
    max_checks_to_recover,
    max_checks_to_critical,
    Values,                     \* tenths a metric can show
    MaxChecks                   \* bound on the healthy checks counted

FailoverAssumption ==
    /\ max_consecutive_failures \in Nat \ {0}
    /\ max_checks_to_recover \in Nat /\ max_checks_to_critical \in Nat /\ MaxChecks \in Nat
    /\ Values \subseteq 0 .. 10

VARIABLES
    current_executor,
    failover,                    \* FailoverState
    failure_count,               \* kept at the limit once it is reached
    failures,                    \* the executor's failures in a row (history)
    current_state,               \* RecoveryState
    consecutive_healthy_checks,
    consecutive_critical_checks

failoverVars == <<current_executor, failover, failure_count, failures>>
healthVars == <<current_state, consecutive_healthy_checks, consecutive_critical_checks>>

Init ==
    /\ current_executor = "Binance" /\ failover = "Primary"
    /\ failure_count = 0 /\ failures = 0
    /\ current_state = "Healthy"
    /\ consecutive_healthy_checks = 0 /\ consecutive_critical_checks = 0

UpTo(n, limit) == IF n > limit THEN limit ELSE n

-----------------------------------------------------------------------------
(* failover.rs *)

\* One success on the fallback returns to the primary; the failed state is kept.
RecordSuccess ==
    /\ failure_count' = 0 /\ failures' = 0
    /\ IF failover = "OnFallback"
       THEN current_executor' = "Binance" /\ failover' = "Primary"
       ELSE UNCHANGED <<current_executor, failover>>

\* Mutant: the count goes on after the switch.
RecordFailureKeepsCount ==
    LET count == UpTo(failure_count + 1, max_consecutive_failures)
        full  == count = max_consecutive_failures
        switch == full /\ current_executor = "Binance"
    IN  /\ current_executor' = IF switch THEN "Mock" ELSE current_executor
        /\ failover' = IF switch THEN "OnFallback" ELSE IF full THEN "Failed" ELSE failover
        /\ failure_count' = count
        /\ failures' = IF current_executor' # current_executor THEN 0
                       ELSE UpTo(failures + 1, max_consecutive_failures)

\* The fallback begins with a count of its own.
RecordFailure ==
    LET count == UpTo(failure_count + 1, max_consecutive_failures)
        full  == count = max_consecutive_failures
        switch == full /\ current_executor = "Binance"
    IN  /\ current_executor' = IF switch THEN "Mock" ELSE current_executor
        /\ failover' = IF switch THEN "OnFallback" ELSE IF full THEN "Failed" ELSE failover
        /\ failure_count' = IF switch THEN 0 ELSE count
        /\ failures' = IF current_executor' # current_executor THEN 0
                       ELSE UpTo(failures + 1, max_consecutive_failures)

ResetFailover ==
    /\ current_executor' = "Binance" /\ failover' = "Primary"
    /\ failure_count' = 0 /\ failures' = 0

-----------------------------------------------------------------------------
(* recovery_state.rs *)

Thresholds ==
    [executor_health |-> 8, api_response_time |-> 7, error_rate |-> 8, memory_usage |-> 7]
Metrics == DOMAIN Thresholds
Reports == [Metrics -> Values]

Unhealthy(report) == Cardinality({k \in Metrics : report[k] < Thresholds[k]})
AvgBelow(report, tenths) == MapThenSumSet(LAMBDA k : report[k], Metrics) < 4 * tenths
AllWell(report) == Unhealthy(report) = 0 /\ ~AvgBelow(report, 8)

\* The healthy checks counted here are not forgotten when the state is left.
CheckHealthy(report) ==
    /\ current_state = "Healthy"
    /\ IF Unhealthy(report) > 0 \/ AvgBelow(report, 7)
       THEN /\ current_state' = "Degraded"
            /\ consecutive_critical_checks' = 0
            /\ UNCHANGED consecutive_healthy_checks
       ELSE /\ consecutive_healthy_checks' = UpTo(consecutive_healthy_checks + 1, MaxChecks)
            /\ UNCHANGED <<current_state, consecutive_critical_checks>>

CheckDegraded(report) ==
    /\ current_state = "Degraded"
    /\ IF Unhealthy(report) > 2 \/ AvgBelow(report, 5)
       THEN /\ current_state' = "Critical"
            /\ consecutive_critical_checks' = consecutive_critical_checks + 1
            /\ UNCHANGED consecutive_healthy_checks
       ELSE /\ UNCHANGED consecutive_critical_checks
            /\ IF AllWell(report)
               THEN IF consecutive_healthy_checks + 1 >= max_checks_to_recover
                    THEN current_state' = "Healthy" /\ consecutive_healthy_checks' = 0
                    ELSE /\ consecutive_healthy_checks' = consecutive_healthy_checks + 1
                         /\ UNCHANGED current_state
               ELSE consecutive_healthy_checks' = 0 /\ UNCHANGED current_state

\* A healthy check leaves the critical state, at the last moment too.
CheckCritical(report) ==
    /\ current_state = "Critical"
    /\ IF AllWell(report)
       THEN current_state' = "Degraded" /\ consecutive_critical_checks' = 0
       ELSE /\ consecutive_critical_checks' = consecutive_critical_checks + 1
            /\ current_state' = IF consecutive_critical_checks' >= max_checks_to_critical
                                THEN "Shutdown" ELSE "Critical"
    /\ UNCHANGED consecutive_healthy_checks

CheckHealth ==
    \E report \in Reports : CheckHealthy(report) \/ CheckDegraded(report) \/ CheckCritical(report)

ResetHealth ==
    /\ current_state' = "Healthy"
    /\ consecutive_healthy_checks' = 0 /\ consecutive_critical_checks' = 0

Next ==
    \/ (RecordSuccess \/ RecordFailure \/ ResetFailover) /\ UNCHANGED healthVars
    \/ (CheckHealth \/ ResetHealth) /\ UNCHANGED failoverVars

Spec == Init /\ [][Next]_<<failoverVars, healthVars>>

-----------------------------------------------------------------------------

TypeOK ==
    /\ current_executor \in {"Binance", "Mock"}
    /\ failover \in {"Primary", "OnFallback", "Failed"}
    /\ failure_count \in 0 .. max_consecutive_failures
    /\ current_state \in {"Healthy", "Degraded", "Critical", "Shutdown"}
    /\ consecutive_healthy_checks \in Nat /\ consecutive_critical_checks \in Nat

\* An executor is given up only for its own failures: the primary's do not count
\* against the fallback, and a success in between starts the count again.
GivenUpForItsOwn ==
    [][(failover' # failover /\ failover' # "Primary") =>
         failures + 1 >= max_consecutive_failures]_failover

=============================================================================
