---------------------------- MODULE PravoClient ----------------------------
(***************************************************************************)
(* The HTTP client of adapters/pravo/pravo_client.py: coroutines that      *)
(* share one circuit breaker.  Each call asks can_request() once, then     *)
(* makes up to MaxRetries attempts with a backoff sleep between them, and  *)
(* records one verdict.  check_health() wraps such a call and records a    *)
(* verdict of its own on top.  Coroutines interleave only where the code   *)
(* awaits: at client.request() and at asyncio.sleep().                     *)
(*                                                                         *)
(*   cb     the breaker                                                    *)
(*   task   per coroutine: its pc, the kind of call it makes ("call" an    *)
(*          endpoint method, "health" check_health), the attempt it is at  *)
(*   down   the source's condition: while FALSE no attempt can fail        *)
(*                                                                         *)
(* History, read by properties only:                                       *)
(*   probes     requests admitted in the current HALF_OPEN period          *)
(*   streak     calls that failed since the last success or reset          *)
(*   openFor    ticks since the circuit last became OPEN, at most          *)
(*              RecoveryTimeout                                            *)
(***************************************************************************)
EXTENDS CircuitBreaker

CONSTANTS
  Callers,         \* coroutines that use the client
  MaxRetries,      \* max_retries: HTTP attempts of one call
  Kinds,           \* the kinds of call made, a subset of {"call", "health"}
  Interruptible    \* may an exception other than httpx's (cancellation, a
                   \* closed client) end a call at an await?

ASSUME ClientAssumption ==
  /\ MaxRetries \in Nat \ {0}
  /\ Kinds \subseteq {"call", "health"}
  /\ Interruptible \in BOOLEAN

VARIABLES cb, task, down, probes, streak, openFor

vars == <<cb, task, down, probes, streak, openFor>>

Idle == [pc |-> "idle", kind |-> "call", attempt |-> 1]

Task == [pc: {"idle", "attempt", "backoff"}, kind: {"call", "health"},
         attempt: 1 .. MaxRetries]

TypeOK ==
  /\ cb \in Breaker
  /\ task \in [Callers -> Task]
  /\ down \in BOOLEAN
  /\ probes \in Nat
  /\ streak \in 0 .. CountCap
  /\ openFor \in 0 .. RecoveryTimeout

Init ==
  /\ cb = NewBreaker
  /\ task = [c \in Callers |-> Idle]
  /\ down = TRUE
  /\ probes = 0
  /\ streak = 0
  /\ openFor = 0

-----------------------------------------------------------------------------
(* History.                                                                *)

Opens == cb.state # "OPEN" /\ cb'.state = "OPEN"

(* `admitted` requests (0 or 1) were let through by this step. *)
CountProbes(admitted) ==
  probes' = IF cb'.state = "HALF_OPEN" THEN probes + admitted ELSE 0

Remember(admitted, streak1) ==
  /\ CountProbes(admitted)
  /\ streak' = streak1
  /\ openFor' = IF Opens THEN 0 ELSE openFor

-----------------------------------------------------------------------------
(* Calls.                                                                  *)

Finish(c) == task' = [task EXCEPT ![c] = Idle]

(* The gate at the head of _request lets the call through. *)
Start(c, k) ==
  /\ task[c].pc = "idle"
  /\ CanRequest(cb)
  /\ task' = [task EXCEPT ![c] = [pc |-> "attempt", kind |-> k, attempt |-> 1]]
  /\ cb' = AfterCanRequest(cb)
  /\ Remember(1, streak)
  /\ UNCHANGED down

(* The gate raises SourceUnavailableError.  An endpoint method passes it   *)
(* on and leaves the breaker alone; check_health catches it and records a  *)
(* failure although nothing was sent.                                      *)
Blocked(c, k) ==
  /\ task[c].pc = "idle"
  /\ ~CanRequest(cb)
  /\ cb' = IF k = "health" THEN AfterFailure(cb) ELSE cb
  /\ Remember(0, streak)
  /\ UNCHANGED <<task, down>>

(* The attempt is answered with a 2xx: _request records a success at once  *)
(* (check_health repeats it, to no further effect).  A body that is not    *)
(* JSON raises only after that.                                            *)
Answered(c) ==
  /\ task[c].pc = "attempt"
  /\ cb' = AfterSuccess(cb)
  /\ Finish(c)
  /\ Remember(0, 0)
  /\ UNCHANGED down

(* A timeout, an HTTP error status or a transport error with attempts left: *)
(* the coroutine sleeps.                                                    *)
AttemptFails(c) ==
  /\ down
  /\ task[c].pc = "attempt"
  /\ task[c].attempt < MaxRetries
  /\ task' = [task EXCEPT ![c].pc = "backoff"]
  /\ UNCHANGED <<cb, down, probes, streak, openFor>>

BackoffEnds(c) ==
  /\ task[c].pc = "backoff"
  /\ task' = [task EXCEPT ![c].pc = "attempt", ![c].attempt = @ + 1]
  /\ UNCHANGED <<cb, down, probes, streak, openFor>>

(* The verdict of a call that gives up: one failure from _request, one     *)
(* more from check_health.                                                 *)
VerdictUnlessHalfOpen(k, b) == IF b.state = "HALF_OPEN" THEN b ELSE AfterFailure(b)
VerdictTwice(k, b) == AfterFailure(AfterFailure(b))
FailureVerdict(k, b) ==
  IF k = "health" THEN AfterFailure(AfterFailure(b)) ELSE AfterFailure(b)

(* The call gives up: its last attempt failed, or any attempt got a status *)
(* of _NON_RETRYABLE_STATUSES.                                             *)
GivesUp(c) ==
  /\ down
  /\ task[c].pc = "attempt"
  /\ cb' = FailureVerdict(task[c].kind, cb)
  /\ Finish(c)
  /\ Remember(0, Saturated(streak + 1))
  /\ UNCHANGED down

(* Any other exception escapes _request and check_health: no verdict. *)
Interrupted(c) ==
  /\ Interruptible
  /\ task[c].pc \in {"attempt", "backoff"}
  /\ Finish(c)
  /\ UNCHANGED <<cb, down, probes, streak, openFor>>

-----------------------------------------------------------------------------
(* The breaker's own public interface, the clock and the source.           *)

(* circuit_breaker.is_open is read. *)
ReadIsOpen ==
  /\ cb' = AfterIsOpen(cb)
  /\ cb' # cb
  /\ Remember(0, streak)
  /\ UNCHANGED <<task, down>>

(* circuit_breaker.reset(). *)
Reset ==
  /\ cb' = NewBreaker
  /\ Remember(0, 0)
  /\ UNCHANGED <<task, down>>

Tick ==
  /\ cb' = Elapse(cb)
  /\ openFor' = IF cb.state = "OPEN" /\ openFor < RecoveryTimeout
                THEN openFor + 1 ELSE openFor
  /\ <<cb', openFor'>> # <<cb, openFor>>
  /\ UNCHANGED <<task, down, probes, streak>>

(* The source is healthy from now on. *)
SourceHeals ==
  /\ down
  /\ down' = FALSE
  /\ UNCHANGED <<cb, task, probes, streak, openFor>>

-----------------------------------------------------------------------------
(* The specification.                                                      *)

Progress(c) ==
  \/ Answered(c)
  \/ AttemptFails(c)
  \/ BackoffEnds(c)
  \/ GivesUp(c)

Next ==
  \/ \E c \in Callers, k \in Kinds : Start(c, k)
  \/ \E c \in Callers, k \in Kinds : Blocked(c, k)
  \/ \E c \in Callers : Progress(c)
  \/ \E c \in Callers : Interrupted(c)
  \/ ReadIsOpen
  \/ Reset
  \/ Tick
  \/ SourceHeals

Spec == Init /\ [][Next]_vars

(* The event loop runs every awaiting coroutine (each HTTP attempt ends by *)
(* its timeout, each sleep ends), the clock advances, and the ingest loop  *)
(* keeps making calls.  Nothing obliges anyone to probe health, to read    *)
(* is_open, to reset the breaker, or the source to heal.                   *)
Fairness ==
  /\ WF_vars(Tick)
  /\ \A c \in Callers : WF_vars(Progress(c))
  /\ WF_vars(\E c \in Callers : Start(c, "call"))
FairSpec == Spec /\ Fairness

-----------------------------------------------------------------------------
(* Safety.                                                                 *)

(* The failure count and the state tell the same story: the circuit is     *)
(* CLOSED exactly while fewer than failure_threshold failures are counted, *)
(* whatever order the verdicts of concurrent calls arrive in.              *)
CountMatchesState ==
  cb.state = "CLOSED" <=> cb.failure_count < FailureThreshold

(* A HALF_OPEN period lets at most one request more than                   *)
(* half_open_max_requests through (the one whose can_request() made the    *)
(* transition is not counted), however many callers race for it.           *)
ProbesBounded == probes <= HalfOpenMax + 1

(* For RecoveryTimeout ticks after the circuit opens, no call gets past    *)
(* the gate of _request while it stays OPEN.                               *)
CoolDown ==
  [][\A c \in Callers :
       cb.state = "OPEN" /\ openFor < RecoveryTimeout /\ task[c].pc = "idle"
         => task'[c].pc = "idle"]_vars

(* The circuit leaves CLOSED only when failure_threshold calls have failed *)
(* since the last success.                                                 *)
OpensOnThreshold == cb.state = "CLOSED" /\ cb'.state # "CLOSED" => streak' >= FailureThreshold

-----------------------------------------------------------------------------
(* Liveness.                                                               *)

(* A HALF_OPEN circuit whose probe slots are taken hears from a probe: it  *)
(* closes or re-opens.                                                     *)
HalfOpenResolves ==
  cb.state = "HALF_OPEN" /\ ~CanRequest(cb) ~> cb.state # "HALF_OPEN"

(* Once the source is healthy for good the circuit closes for good. *)
Recovery == ~down ~> [](cb.state = "CLOSED")

=============================================================================
