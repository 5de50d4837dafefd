--------------------------- MODULE CircuitBreaker ---------------------------
(***************************************************************************)
(* The circuit breaker of error_recovery/circuit_breaker.rs: counts since  *)
(* the last closing decide when it opens, a success reported after the     *)
(* timeout begins the test, enough successes in a row end it.  Only the    *)
(* outcome of calls is reported to it; it does not admit calls itself, and *)
(* sliding_window_secs is never read.                                      *)
(***************************************************************************)
EXTENDS Integers

CONSTANTS
    failure_count_threshold,
    failure_percent,         \* failure_threshold, in per cent
    success_count_to_close,
    MaxRequests              \* bound on the requests counted

BreakerAssumption ==
    /\ failure_count_threshold \in Nat /\ failure_percent \in 0 .. 100
    /\ success_count_to_close \in Nat /\ MaxRequests \in Nat

VARIABLES
    state,         \* "Closed", "Open" or "HalfOpen"
    total_requests,
    failed_requests,
    half_open_success_count,
    expired,       \* has timeout_secs passed since last_open_time ?
    streak         \* successes accepted since it opened or failed (history)

breakerVars == <<state, total_requests, failed_requests, half_open_success_count, expired, streak>>

Init ==
    /\ state = "Closed"
    /\ total_requests = 0 /\ failed_requests = 0
    /\ half_open_success_count = 0
    /\ expired = FALSE /\ streak = 0

-----------------------------------------------------------------------------

\* update_failure_rate, of the counts after the request just reported.
RateTooHigh(total, failed) ==
    total >= failure_count_threshold /\ failed * 100 >= total * failure_percent

Counted(failure) ==
    /\ total_requests < MaxRequests
    /\ total_requests' = total_requests + 1
    /\ failed_requests' = failed_requests + failure

\* A success too can bring the total to the threshold and open the circuit.
Judge ==
    IF RateTooHigh(total_requests', failed_requests')
    THEN state' = "Open" /\ expired' = FALSE
    ELSE UNCHANGED <<state, expired>>

SuccessClosed ==
    /\ state = "Closed"
    /\ Counted(0)
    /\ Judge
    /\ streak' = 0
    /\ UNCHANGED half_open_success_count

\* Mutant: the tests of an earlier recovery are counted again.
SuccessOpenKeepsCount ==
    /\ state = "Open"
    /\ Counted(0)
    /\ IF expired
       THEN /\ state' = "HalfOpen" /\ streak' = streak + 1
            /\ half_open_success_count' = half_open_success_count + 1
       ELSE UNCHANGED <<state, half_open_success_count, streak>>
    /\ UNCHANGED expired

\* Refused while the timeout runs; afterwards the first test of the half-open circuit.
SuccessOpen ==
    /\ state = "Open"
    /\ Counted(0)
    /\ IF expired
       THEN state' = "HalfOpen" /\ half_open_success_count' = 1 /\ streak' = streak + 1
       ELSE UNCHANGED <<state, half_open_success_count, streak>>
    /\ UNCHANGED expired

\* Enough tests close the circuit and forget the counts.
SuccessHalfOpen ==
    /\ state = "HalfOpen"
    /\ half_open_success_count' = half_open_success_count + 1
    /\ streak' = streak + 1
    /\ IF half_open_success_count' >= success_count_to_close
       THEN state' = "Closed" /\ total_requests' = 0 /\ failed_requests' = 0
       ELSE state' = state /\ Counted(0)
    /\ UNCHANGED expired

FailureClosed ==
    /\ state = "Closed"
    /\ Counted(1)
    /\ Judge
    /\ streak' = 0
    /\ UNCHANGED half_open_success_count

\* An open circuit counts the failure, but its timeout is not begun again.
FailureOpen ==
    /\ state = "Open"
    /\ Counted(1)
    /\ streak' = 0
    /\ UNCHANGED <<state, half_open_success_count, expired>>

FailureHalfOpen ==
    /\ state = "HalfOpen"
    /\ Counted(1)
    /\ state' = "Open" /\ expired' = FALSE
    /\ half_open_success_count' = 0 /\ streak' = 0

Reset ==
    /\ state' = "Closed"
    /\ total_requests' = 0 /\ failed_requests' = 0
    /\ half_open_success_count' = 0
    /\ expired' = FALSE
    /\ streak' = 0

Expire ==
    /\ state = "Open" /\ ~expired
    /\ expired' = TRUE
    /\ UNCHANGED <<state, total_requests, failed_requests, half_open_success_count, streak>>

Next ==
    \/ SuccessClosed \/ SuccessOpen \/ SuccessHalfOpen
    \/ FailureClosed \/ FailureOpen \/ FailureHalfOpen
    \/ Reset \/ Expire

Spec == Init /\ [][Next]_breakerVars

-----------------------------------------------------------------------------

TypeOK ==
    /\ state \in {"Closed", "Open", "HalfOpen"}
    /\ failed_requests \in 0 .. total_requests /\ total_requests \in 0 .. MaxRequests
    /\ half_open_success_count \in Nat /\ streak \in Nat /\ expired \in BOOLEAN

\* A circuit that opened is closed by success_count_to_close successes in a row, the
\* tests of earlier recoveries not counted (or by a reset, which leaves no streak).
ClosesOnlyTested ==
    [][(state # "Closed" /\ state' = "Closed") =>
         streak' >= success_count_to_close \/ streak' = 0]_breakerVars

=============================================================================
