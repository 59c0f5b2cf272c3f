--------------------------- MODULE CircuitBreaker ---------------------------
(***************************************************************************)
(* The circuit breaker of adapters/base/circuit_breaker.py, as operators   *)
(* on a record.  Every method of the class is synchronous, so in the       *)
(* single-threaded event loop it is atomic: a component that owns a        *)
(* breaker (PravoClient, the ingest gate of the pravo adapter) keeps one   *)
(* record in a variable and applies these operators in its own actions.    *)
(*                                                                         *)
(* Two quantities are saturated, because the code only compares them with  *)
(* a threshold:                                                            *)
(*   since           time.monotonic() - _last_failure_time, in ticks, at   *)
(*                   most RecoveryTimeout                                  *)
(*   failure_count   at most CountCap                                      *)
(***************************************************************************)
EXTENDS Naturals

CONSTANTS
  FailureThreshold,   \* failure_threshold: failures that open the circuit
  RecoveryTimeout,    \* recovery_timeout, in ticks (tests also use 0)
  HalfOpenMax,        \* half_open_max_requests
  CountCap            \* bound: failure_count is saturated here

ASSUME BreakerAssumption ==
  /\ FailureThreshold \in Nat \ {0}
  /\ RecoveryTimeout \in Nat
  /\ HalfOpenMax \in Nat \ {0}
  /\ CountCap \in Nat
  /\ CountCap >= FailureThreshold

CircuitState == {"CLOSED", "OPEN", "HALF_OPEN"}

Breaker == [state: CircuitState,
            failure_count: 0 .. CountCap,
            half_open_requests: 0 .. HalfOpenMax,
            since: 0 .. RecoveryTimeout]

(* The state left by __init__ and by reset(): the last failure is long ago *)
(* (_last_failure_time = 0.0 on the monotonic clock).                      *)
NewBreaker == [state |-> "CLOSED", failure_count |-> 0,
               half_open_requests |-> 0, since |-> RecoveryTimeout]

-----------------------------------------------------------------------------
(* Time.                                                                   *)

TimedOut(cb) == cb.since >= RecoveryTimeout

Elapse(cb) == [cb EXCEPT !.since = IF @ < RecoveryTimeout THEN @ + 1 ELSE @]

-----------------------------------------------------------------------------
(* Requests.                                                               *)

BeginHalfOpen(cb) == [cb EXCEPT !.state = "HALF_OPEN", !.half_open_requests = 0]

(* can_request() returns TRUE.  The mutants admit too early, too many, or  *)
(* leave the end of the timeout to is_open.                                *)
AdmitsEarly(cb) == cb.state # "HALF_OPEN" \/ cb.half_open_requests < HalfOpenMax
AdmitsSlack(cb) ==
  \/ cb.state = "CLOSED"
  \/ cb.state = "OPEN" /\ TimedOut(cb)
  \/ cb.state = "HALF_OPEN"
RefusesExpired(cb) ==
  \/ cb.state = "CLOSED"
  \/ cb.state = "HALF_OPEN" /\ cb.half_open_requests < HalfOpenMax
CanRequest(cb) ==
  \/ cb.state = "CLOSED"
  \/ cb.state = "OPEN" /\ TimedOut(cb)
  \/ cb.state = "HALF_OPEN" /\ cb.half_open_requests < HalfOpenMax

(* What can_request() leaves behind.  The request that turns OPEN into     *)
(* HALF_OPEN is admitted without being counted as a probe.                 *)
AfterCanRequest(cb) ==
  CASE cb.state = "OPEN" /\ TimedOut(cb) -> BeginHalfOpen(cb)
    [] cb.state = "HALF_OPEN" /\ CanRequest(cb) ->
         [cb EXCEPT !.half_open_requests = @ + 1]
    [] OTHER -> cb

(* Reading the property is_open also moves an expired OPEN to HALF_OPEN. *)
AfterIsOpen(cb) ==
  IF cb.state = "OPEN" /\ TimedOut(cb) THEN BeginHalfOpen(cb) ELSE cb

-----------------------------------------------------------------------------
(* Verdicts.                                                               *)

(* record_success(): closes the circuit from any state. *)
SuccessKeepsCount(cb) ==
  [cb EXCEPT !.state = "CLOSED", !.half_open_requests = 0]
AfterSuccess(cb) ==
  [cb EXCEPT !.state = "CLOSED", !.failure_count = 0, !.half_open_requests = 0]

Saturated(n) == IF n < CountCap THEN n ELSE CountCap

(* record_failure(): the failure restarts the recovery timeout in every    *)
(* state; a failure in HALF_OPEN re-opens whatever the count.              *)
AfterFailure(cb) ==
  LET n == Saturated(cb.failure_count + 1)
  IN  [cb EXCEPT !.failure_count = n,
                 !.since = 0,
                 !.state = IF cb.state = "HALF_OPEN" \/ n >= FailureThreshold
                           THEN "OPEN" ELSE @]

=============================================================================
