------------------------- MODULE PravoClientProofs -------------------------
(***************************************************************************)
(* Proofs about PravoClient, for every number of callers, thresholds,      *)
(* timeouts and retries.                                                   *)
(***************************************************************************)
EXTENDS MCPravoClient, TLAPS

USE BreakerAssumption, ClientAssumption DEF BreakerAssumption, ClientAssumption

-----------------------------------------------------------------------------
(* The breaker's operators stay within the breaker's type and keep its     *)
(* count in step with its state.                                           *)

Consistent(b) == b.state = "CLOSED" <=> b.failure_count < FailureThreshold

(* The values the operators write are of the breaker's types. *)
LEMMA Written ==
  /\ {"CLOSED", "OPEN", "HALF_OPEN"} = CircuitState
  /\ "CLOSED" \in CircuitState /\ "OPEN" \in CircuitState /\ "HALF_OPEN" \in CircuitState
  /\ 0 \in 0 .. CountCap /\ 0 \in 0 .. HalfOpenMax /\ 0 \in 0 .. RecoveryTimeout
BY DEF CircuitState

(* A new or reset breaker is CLOSED with nothing counted. *)
LEMMA NewBreakerSound == NewBreaker \in Breaker /\ Consistent(NewBreaker)
BY DEF NewBreaker, Breaker, CircuitState, Consistent

(* Time touches only the age of the last failure, and never rejuvenates it. *)
LEMMA ElapseSound ==
  ASSUME NEW b \in Breaker, Consistent(b)
  PROVE  /\ Elapse(b) \in Breaker
         /\ Consistent(Elapse(b))
         /\ Elapse(b).state = b.state
         /\ Elapse(b).half_open_requests = b.half_open_requests
         /\ Elapse(b).since = IF b.since < RecoveryTimeout THEN b.since + 1 ELSE b.since
BY DEF Elapse, Breaker, CircuitState, Consistent

(* An admitted request either leaves the breaker alone, starts a HALF_OPEN *)
(* period, or takes one probe slot.                                        *)
LEMMA CanRequestSound ==
  ASSUME NEW b \in Breaker, Consistent(b), CanRequest(b)
  PROVE  /\ AfterCanRequest(b) \in Breaker
         /\ Consistent(AfterCanRequest(b))
         /\ \/ b.state = "CLOSED" /\ AfterCanRequest(b) = b
            \/ /\ b.state = "OPEN" /\ b.since = RecoveryTimeout
               /\ AfterCanRequest(b).state = "HALF_OPEN"
               /\ AfterCanRequest(b).half_open_requests = 0
            \/ /\ b.state = "HALF_OPEN"
               /\ AfterCanRequest(b).state = "HALF_OPEN"
               /\ AfterCanRequest(b).half_open_requests = b.half_open_requests + 1
<1>1. CASE b.state = "CLOSED"
  BY <1>1 DEF AfterCanRequest, Breaker
<1>2. CASE b.state = "OPEN"
  <2>1. b.since = RecoveryTimeout /\ AfterCanRequest(b) = BeginHalfOpen(b)
    BY <1>2 DEF AfterCanRequest, CanRequest, TimedOut, Breaker
  <2>2. BeginHalfOpen(b) \in Breaker
    BY Written DEF BeginHalfOpen, Breaker
  <2>. QED
    BY <1>2, <2>1, <2>2 DEF BeginHalfOpen, Breaker, Consistent
<1>3. CASE b.state = "HALF_OPEN"
  <2>1. b.half_open_requests + 1 \in 0 .. HalfOpenMax
    BY <1>3 DEF CanRequest, Breaker
  <2>2. AfterCanRequest(b) = [b EXCEPT !.half_open_requests = @ + 1]
    BY <1>3 DEF AfterCanRequest, CanRequest
  <2>. QED
    BY <1>3, <2>1, <2>2 DEF Breaker, Consistent
<1>. QED
  BY <1>1, <1>2, <1>3 DEF Breaker, CircuitState

(* Reading is_open does nothing or starts a HALF_OPEN period. *)
LEMMA IsOpenSound ==
  ASSUME NEW b \in Breaker, Consistent(b)
  PROVE  /\ AfterIsOpen(b) \in Breaker
         /\ Consistent(AfterIsOpen(b))
         /\ \/ AfterIsOpen(b) = b
            \/ b.state = "OPEN" /\ AfterIsOpen(b).state = "HALF_OPEN"
<1>1. BeginHalfOpen(b) \in Breaker
  BY Written DEF BeginHalfOpen, Breaker
<1>. QED
  BY <1>1 DEF AfterIsOpen, BeginHalfOpen, Breaker, Consistent

(* A success closes. *)
LEMMA SuccessSound ==
  ASSUME NEW b \in Breaker
  PROVE  /\ AfterSuccess(b) \in Breaker
         /\ Consistent(AfterSuccess(b))
         /\ AfterSuccess(b).state = "CLOSED"
<1>1. AfterSuccess(b) \in Breaker
  BY Written DEF AfterSuccess, Breaker
<1>. QED
  BY <1>1 DEF AfterSuccess, Breaker, Consistent

(* A failure restarts the timeout and never leaves the breaker HALF_OPEN. *)
LEMMA FailureSound ==
  ASSUME NEW b \in Breaker, Consistent(b)
  PROVE  /\ AfterFailure(b) \in Breaker
         /\ Consistent(AfterFailure(b))
         /\ AfterFailure(b).state # "HALF_OPEN"
         /\ AfterFailure(b).since = 0
         /\ b.state # "CLOSED" => AfterFailure(b).state = "OPEN"
<1>. DEFINE n == Saturated(b.failure_count + 1)
<1>1. n \in 0 .. CountCap /\ n >= b.failure_count
  BY DEF Saturated, Breaker
<1>2. b.state # "CLOSED" => n >= FailureThreshold
  BY <1>1 DEF Consistent, Breaker
<1>. HIDE DEF n
<1>. DEFINE s == IF b.state = "HALF_OPEN" \/ n >= FailureThreshold THEN "OPEN" ELSE b.state
<1>3. AfterFailure(b) = [b EXCEPT !.failure_count = n, !.since = 0, !.state = s]
  BY DEF AfterFailure, n
<1>4. s \in CircuitState
  BY Written DEF Breaker
<1>5. /\ s # "HALF_OPEN"
      /\ b.state # "CLOSED" => s = "OPEN"
      /\ s = "CLOSED" <=> n < FailureThreshold
  BY <1>1, <1>2, Written DEF Breaker
<1>. HIDE DEF s
<1>6. AfterFailure(b) \in Breaker
  BY <1>1, <1>3, <1>4, Written DEF Breaker
<1>7. AfterFailure(b).state = s /\ AfterFailure(b).failure_count = n /\ AfterFailure(b).since = 0
  BY <1>3 DEF Breaker
<1>. QED
  BY <1>5, <1>6, <1>7 DEF Consistent

(* One verdict or two, the result is the same kind of breaker. *)
LEMMA VerdictSound ==
  ASSUME NEW b \in Breaker, Consistent(b), NEW k
  PROVE  /\ FailureVerdict(k, b) \in Breaker
         /\ Consistent(FailureVerdict(k, b))
         /\ FailureVerdict(k, b).state # "HALF_OPEN"
         /\ FailureVerdict(k, b).since = 0
         /\ b.state # "CLOSED" => FailureVerdict(k, b).state = "OPEN"
<1>1. CASE k # "health"
  BY <1>1, FailureSound DEF FailureVerdict
<1>2. CASE k = "health"
  <2>1. AfterFailure(b) \in Breaker /\ Consistent(AfterFailure(b))
        /\ (b.state # "CLOSED" => AfterFailure(b).state # "CLOSED")
    BY FailureSound
  <2>. QED
    BY <1>2, <2>1, FailureSound DEF FailureVerdict
<1>. QED
  BY <1>1, <1>2

-----------------------------------------------------------------------------
(* The inductive invariant.  ProbesBounded is not inductive: it needs that *)
(* the uncounted first probe is the only one half_open_requests misses.    *)
(* CoolDown needs that the last failure is never older than the opening.   *)

ProbesCounted ==
  IF cb.state = "HALF_OPEN" THEN probes <= cb.half_open_requests + 1 ELSE probes = 0

FailureFresh == cb.state = "OPEN" => cb.since <= openFor

IndInv ==
  /\ TypeOK
  /\ Consistent(cb)
  /\ ProbesCounted
  /\ FailureFresh

LEMMA InitInv == Init => IndInv
BY NewBreakerSound
   DEF Init, IndInv, TypeOK, ProbesCounted, FailureFresh, NewBreaker, Idle, Task, Saturated

(* The three steps that move the breaker: a request is admitted, a verdict *)
(* arrives, time passes or somebody reads or resets it.                    *)

LEMMA StartInv ==
  ASSUME IndInv, NEW c \in Callers, NEW k \in {"call", "health"}, Start(c, k)
  PROVE  IndInv'
<1>. USE DEF IndInv
<1>1. /\ cb \in Breaker /\ Consistent(cb) /\ CanRequest(cb)
      /\ cb' = AfterCanRequest(cb)
  BY DEF TypeOK, Start
<1>2. /\ cb' \in Breaker /\ Consistent(cb')
      /\ \/ cb.state = "CLOSED" /\ cb' = cb
         \/ /\ cb.state = "OPEN" /\ cb.since = RecoveryTimeout
            /\ cb'.state = "HALF_OPEN" /\ cb'.half_open_requests = 0
         \/ /\ cb.state = "HALF_OPEN" /\ cb'.state = "HALF_OPEN"
            /\ cb'.half_open_requests = cb.half_open_requests + 1
  BY <1>1, CanRequestSound
<1>3. cb.half_open_requests \in Nat /\ probes \in Nat
  BY <1>1 DEF TypeOK, Breaker
<1>4. TypeOK'
  <2>1. task' \in [Callers -> Task]
    BY DEF TypeOK, Start, Task
  <2>2. probes' \in Nat /\ streak' \in 0 .. CountCap /\ down' \in BOOLEAN
    BY <1>3 DEF TypeOK, Start, Remember, CountProbes
  <2>3. openFor' \in 0 .. RecoveryTimeout
    BY Written DEF TypeOK, Start, Remember
  <2>. QED
    BY <1>2, <2>1, <2>2, <2>3 DEF TypeOK
<1>5. ProbesCounted'
  BY <1>2, <1>3 DEF Start, Remember, CountProbes, ProbesCounted
<1>6. FailureFresh'
  BY <1>2 DEF Start, Remember, Opens, FailureFresh
<1>. QED
  BY <1>2, <1>4, <1>5, <1>6

(* A step that lets nobody in and leaves a sound breaker which is not      *)
(* newly HALF_OPEN keeps the invariant.                                    *)
LEMMA QuietInv ==
  ASSUME IndInv, NEW n \in 0 .. CountCap, Remember(0, n),
         cb' \in Breaker, Consistent(cb'),
         task' \in [Callers -> Task], UNCHANGED down,
         cb'.state = "HALF_OPEN" /\ cb.state = "HALF_OPEN" =>
           cb'.half_open_requests = cb.half_open_requests,
         cb'.state = "OPEN" => cb'.since = 0 \/ cb' = cb
  PROVE  IndInv'
<1>. USE DEF IndInv
<1>1. /\ cb.half_open_requests \in Nat /\ cb'.half_open_requests \in Nat
      /\ probes \in Nat /\ openFor \in 0 .. RecoveryTimeout
  BY DEF TypeOK, Breaker
<1>2. TypeOK'
  <2>1. probes' \in Nat /\ streak' \in 0 .. CountCap /\ down' \in BOOLEAN
    BY <1>1 DEF TypeOK, Remember, CountProbes
  <2>2. openFor' \in 0 .. RecoveryTimeout
    BY <1>1, Written DEF Remember
  <2>. QED
    BY <2>1, <2>2 DEF TypeOK
<1>3. ProbesCounted'
  BY <1>1 DEF Remember, CountProbes, ProbesCounted
<1>4. FailureFresh'
  BY <1>1 DEF Remember, Opens, FailureFresh
<1>. QED
  BY <1>2, <1>3, <1>4

LEMMA FinishTyped ==
  ASSUME TypeOK, NEW c \in Callers, Finish(c)
  PROVE  task' \in [Callers -> Task]
BY DEF TypeOK, Finish, Idle, Task

(* Every step preserves the invariant, in a plain behaviour too.           *)
LEMMA NextInv ==
  ASSUME IndInv, [Next]_vars \/ PlainNext
  PROVE  IndInv'
<1>. USE DEF IndInv
<1>0. cb \in Breaker /\ Consistent(cb)
  BY DEF TypeOK
<1>1. ASSUME NEW c \in Callers, NEW k \in {"call", "health"}, Start(c, k) PROVE IndInv'
  BY <1>1, StartInv
<1>2. ASSUME NEW c \in Callers, NEW k \in {"call", "health"}, Blocked(c, k) PROVE IndInv'
  <2>1. streak \in 0 .. CountCap /\ task' \in [Callers -> Task]
    BY <1>2 DEF Blocked, TypeOK
  <2>2. CASE k = "health"
    <3>1. cb' = AfterFailure(cb)
      BY <1>2, <2>2 DEF Blocked
    <3>. QED
      BY <1>0, <1>2, <2>1, <3>1, FailureSound, QuietInv DEF Blocked
  <2>3. CASE k # "health"
    BY <1>0, <1>2, <2>1, <2>3, QuietInv DEF Blocked
  <2>. QED
    BY <2>2, <2>3
<1>3. ASSUME NEW c \in Callers, Answered(c) PROVE IndInv'
  <2>1. task' \in [Callers -> Task]
    BY <1>3, FinishTyped DEF Answered
  <2>2. cb' = AfterSuccess(cb) /\ Remember(0, 0) /\ UNCHANGED down
    BY <1>3 DEF Answered
  <2>. QED
    BY <1>0, <2>1, <2>2, Written, SuccessSound, QuietInv
<1>4. ASSUME NEW c \in Callers, AttemptFails(c) PROVE IndInv'
  <2>1. task' \in [Callers -> Task]
    BY <1>4 DEF AttemptFails, TypeOK, Task
  <2>. QED
    BY <1>4, <2>1 DEF AttemptFails, TypeOK, ProbesCounted, FailureFresh, Consistent
<1>5. ASSUME NEW c \in Callers, BackoffEnds(c) PROVE IndInv'
  <2>1. task' \in [Callers -> Task]
    BY <1>5 DEF BackoffEnds, TypeOK, Task
  <2>. QED
    BY <1>5, <2>1 DEF BackoffEnds, TypeOK, ProbesCounted, FailureFresh, Consistent
<1>6. ASSUME NEW c \in Callers, GivesUp(c) PROVE IndInv'
  <2>1. task' \in [Callers -> Task]
    BY <1>6, FinishTyped DEF GivesUp
  <2>2. Saturated(streak + 1) \in 0 .. CountCap
    BY DEF TypeOK, Saturated
  <2>3. cb' = FailureVerdict(task[c].kind, cb) /\ Remember(0, Saturated(streak + 1)) /\ UNCHANGED down
    BY <1>6 DEF GivesUp
  <2>. QED
    BY <1>0, <2>1, <2>2, <2>3, VerdictSound, QuietInv
<1>7. ASSUME NEW c \in Callers, Interrupted(c) PROVE IndInv'
  <2>1. task' \in [Callers -> Task]
    BY <1>7, FinishTyped DEF Interrupted
  <2>. QED
    BY <1>7, <2>1 DEF Interrupted, TypeOK, ProbesCounted, FailureFresh, Consistent
<1>8. CASE ReadIsOpen
  <2>1. streak \in 0 .. CountCap /\ task' \in [Callers -> Task]
    BY <1>8 DEF ReadIsOpen, TypeOK
  <2>2. cb' = AfterIsOpen(cb) /\ cb' # cb /\ Remember(0, streak) /\ UNCHANGED down
    BY <1>8 DEF ReadIsOpen
  <2>3. cb.state = "OPEN" /\ cb'.state = "HALF_OPEN" /\ cb' \in Breaker /\ Consistent(cb')
    BY <1>0, <2>2, IsOpenSound
  <2>. QED
    BY <2>1, <2>2, <2>3, QuietInv
<1>9. CASE Reset
  <2>1. task' \in [Callers -> Task] /\ cb' = NewBreaker /\ Remember(0, 0) /\ UNCHANGED down
    BY <1>9 DEF Reset, TypeOK
  <2>2. NewBreaker.state = "CLOSED"
    BY DEF NewBreaker
  <2>. QED
    BY <2>1, <2>2, Written, NewBreakerSound, QuietInv
<1>10. CASE Tick
  <2>1. /\ cb' \in Breaker /\ Consistent(cb') /\ cb'.state = cb.state
        /\ cb'.half_open_requests = cb.half_open_requests
        /\ cb'.since = IF cb.since < RecoveryTimeout THEN cb.since + 1 ELSE cb.since
    BY <1>0, <1>10, ElapseSound DEF Tick
  <2>2. openFor \in 0 .. RecoveryTimeout /\ cb.since \in 0 .. RecoveryTimeout
    BY DEF TypeOK, Breaker
  <2>3. openFor' = IF cb.state = "OPEN" /\ openFor < RecoveryTimeout
                   THEN openFor + 1 ELSE openFor
    BY <1>10 DEF Tick
  <2>4. openFor' \in 0 .. RecoveryTimeout
    BY <2>2, <2>3
  <2>5. FailureFresh'
    BY <2>1, <2>2, <2>3 DEF FailureFresh
  <2>6. TypeOK'
    BY <1>10, <2>1, <2>4 DEF Tick, TypeOK
  <2>7. ProbesCounted'
    BY <1>10, <2>1 DEF Tick, ProbesCounted
  <2>. QED
    BY <2>1, <2>5, <2>6, <2>7
<1>11. CASE SourceHeals
  BY <1>11 DEF SourceHeals, TypeOK, ProbesCounted, FailureFresh, Consistent
<1>12. CASE UNCHANGED vars
  BY <1>12 DEF vars, TypeOK, ProbesCounted, FailureFresh, Consistent
<1>. QED
  BY <1>1, <1>2, <1>3, <1>4, <1>5, <1>6, <1>7, <1>8, <1>9, <1>10, <1>11, <1>12
     DEF Next, PlainNext, Progress

LEMMA Invariance == Spec => []IndInv
BY InitInv, NextInv, PTL DEF Spec

-----------------------------------------------------------------------------
(* The breaker record, the coroutines and the history keep their types. *)
THEOREM TypeCorrect == Spec => []TypeOK
<1>1. IndInv => TypeOK
  BY DEF IndInv
<1>. QED
  BY <1>1, Invariance, PTL

(* Whatever the order in which concurrent calls report, the circuit is     *)
(* CLOSED exactly while the count is below the threshold.                  *)
THEOREM CountMatchesStateHolds == Spec => []CountMatchesState
<1>1. IndInv => CountMatchesState
  BY DEF IndInv, Consistent, CountMatchesState
<1>. QED
  BY <1>1, Invariance, PTL

(* A HALF_OPEN period admits at most half_open_max_requests + 1 requests. *)
THEOREM ProbesBoundedHolds == Spec => []ProbesBounded
<1>1. IndInv => ProbesBounded
  BY DEF IndInv, TypeOK, Breaker, ProbesCounted, ProbesBounded
<1>. QED
  BY <1>1, Invariance, PTL

(* No call passes the gate while the circuit is OPEN and young. *)
THEOREM CoolDownHolds == Spec => CoolDown
<1>1. ASSUME IndInv, [Next]_vars, NEW c \in Callers,
             cb.state = "OPEN", openFor < RecoveryTimeout, task[c].pc = "idle"
      PROVE  task'[c].pc = "idle"
  <2>1. task \in [Callers -> Task] /\ cb \in Breaker /\ openFor \in 0 .. RecoveryTimeout
    BY <1>1 DEF IndInv, TypeOK
  <2>2. ~TimedOut(cb) /\ ~CanRequest(cb)
    BY <1>1, <2>1 DEF IndInv, FailureFresh, TimedOut, CanRequest, Breaker
  <2>3. ASSUME NEW d \in Callers, NEW k \in Kinds, Start(d, k) PROVE task' = task
    BY <2>2, <2>3 DEF Start
  <2>4. ASSUME NEW d \in Callers, Progress(d) \/ Interrupted(d) PROVE task'[c].pc = "idle"
    <3>1. CASE c = d
      BY <1>1, <2>1, <2>4, <3>1
         DEF Progress, Answered, AttemptFails, BackoffEnds, GivesUp, Interrupted, Finish, Idle
    <3>2. CASE c # d
      BY <1>1, <2>1, <2>4, <3>2
         DEF Progress, Answered, AttemptFails, BackoffEnds, GivesUp, Interrupted, Finish
    <3>. QED
      BY <3>1, <3>2
  <2>. QED
    BY <1>1, <2>3, <2>4 DEF Next, vars, Blocked, ReadIsOpen, Reset, Tick, SourceHeals
<1>2. IndInv /\ [Next]_vars =>
        [\A c \in Callers :
           cb.state = "OPEN" /\ openFor < RecoveryTimeout /\ task[c].pc = "idle"
             => task'[c].pc = "idle"]_vars
  BY <1>1
<1>. QED
  BY <1>2, Invariance, PTL DEF Spec, CoolDown

-----------------------------------------------------------------------------
(* Plain behaviours: every verdict is that of a call, so the failures that *)
(* the breaker counts are the calls that failed.                           *)
Plain ==
  /\ cb.failure_count = streak
  /\ \A c \in Callers : task[c].kind = "call"

SessionInv == IndInv /\ (plain => Plain)

(* A failure is counted by the breaker as it is by the history.            *)
LEMMA FailureCounted ==
  ASSUME NEW b \in Breaker
  PROVE  /\ AfterFailure(b).failure_count = Saturated(b.failure_count + 1)
         /\ b.state = "CLOSED" /\ AfterFailure(b).state # "CLOSED" =>
              AfterFailure(b).failure_count >= FailureThreshold
<1>. DEFINE n == Saturated(b.failure_count + 1)
            s == IF b.state = "HALF_OPEN" \/ n >= FailureThreshold THEN "OPEN" ELSE b.state
<1>1. AfterFailure(b) = [b EXCEPT !.failure_count = n, !.since = 0, !.state = s]
  BY DEF AfterFailure
<1>2. AfterFailure(b).state = s /\ AfterFailure(b).failure_count = n
  BY <1>1 DEF Breaker
<1>. QED
  BY <1>2

(* Nothing else opens the circuit or is counted.                           *)
LEMMA OthersDoNotCount ==
  ASSUME NEW b \in Breaker
  PROVE  /\ AfterCanRequest(b).failure_count = b.failure_count
         /\ b.state = "CLOSED" => AfterCanRequest(b).state = "CLOSED"
         /\ AfterIsOpen(b).failure_count = b.failure_count
         /\ b.state = "CLOSED" => AfterIsOpen(b).state = "CLOSED"
         /\ AfterSuccess(b).failure_count = 0 /\ AfterSuccess(b).state = "CLOSED"
         /\ Elapse(b).failure_count = b.failure_count /\ Elapse(b).state = b.state
         /\ NewBreaker.failure_count = 0 /\ NewBreaker.state = "CLOSED"
BY DEF AfterCanRequest, AfterIsOpen, AfterSuccess, Elapse, NewBreaker, BeginHalfOpen, Breaker

LEMMA PlainStep ==
  ASSUME IndInv, Plain, PlainNext
  PROVE  Plain' /\ OpensOnThreshold
<1>1. cb \in Breaker /\ task \in [Callers -> Task]
  BY DEF IndInv, TypeOK
<1>2. ASSUME NEW c \in Callers, Start(c, "call") PROVE Plain' /\ OpensOnThreshold
  BY <1>1, <1>2, OthersDoNotCount DEF Plain, OpensOnThreshold, Start, Remember
<1>3. ASSUME NEW c \in Callers, Blocked(c, "call") PROVE Plain' /\ OpensOnThreshold
  BY <1>1, <1>3 DEF Plain, OpensOnThreshold, Blocked, Remember
<1>4. ASSUME NEW c \in Callers, Answered(c) PROVE Plain' /\ OpensOnThreshold
  BY <1>1, <1>4, OthersDoNotCount DEF Plain, OpensOnThreshold, Answered, Remember, Finish, Idle
<1>5. ASSUME NEW c \in Callers, AttemptFails(c) \/ BackoffEnds(c) PROVE Plain' /\ OpensOnThreshold
  BY <1>1, <1>5 DEF Plain, OpensOnThreshold, AttemptFails, BackoffEnds, Task
<1>6. ASSUME NEW c \in Callers, GivesUp(c) PROVE Plain' /\ OpensOnThreshold
  <2>1. cb' = AfterFailure(cb) /\ streak' = Saturated(streak + 1)
    BY <1>6 DEF Plain, GivesUp, FailureVerdict, Remember
  <2>2. \A d \in Callers : task'[d].kind = "call"
    BY <1>1, <1>6 DEF Plain, GivesUp, Finish, Idle
  <2>. QED
    BY <1>1, <2>1, <2>2, FailureCounted DEF Plain, OpensOnThreshold
<1>7. CASE ReadIsOpen \/ Reset \/ Tick \/ SourceHeals
  BY <1>1, <1>7, OthersDoNotCount
     DEF Plain, OpensOnThreshold, ReadIsOpen, Reset, Tick, SourceHeals, Remember
<1>. QED
  BY <1>2, <1>3, <1>4, <1>5, <1>6, <1>7 DEF PlainNext, Progress

(* Of plain calls exactly failure_threshold failures since the last        *)
(* success open a closed circuit, in whatever order they report.           *)
THEOREM PlainOpensOnThresholdHolds == SessionSpec => PlainOpensOnThreshold
<1>1. SessionInit => SessionInv
  BY InitInv DEF SessionInit, SessionInv, Plain, Init, NewBreaker, Idle
<1>2. SessionInv /\ [SessionNext]_<<vars, plain>> => SessionInv'
  <2>. SUFFICES ASSUME SessionInv, [SessionNext]_<<vars, plain>> PROVE SessionInv'
    OBVIOUS
  <2>1. IndInv'
    BY NextInv DEF SessionInv, SessionNext
  <2>2. ASSUME plain' PROVE Plain'
    <3>1. plain /\ Plain
      BY <2>2 DEF SessionInv, SessionNext
    <3>2. CASE PlainNext
      BY <3>1, <3>2, PlainStep DEF SessionInv
    <3>3. CASE UNCHANGED <<vars, plain>>
      BY <3>1, <3>3 DEF vars, Plain
    <3>. QED
      BY <3>1, <3>2, <3>3 DEF SessionNext
  <2>. QED
    BY <2>1, <2>2 DEF SessionInv
<1>3. SessionInv /\ [SessionNext]_<<vars, plain>> => [plain => OpensOnThreshold]_vars
  BY PlainStep DEF SessionInv, SessionNext
<1>. QED
  BY <1>1, <1>2, <1>3, PTL DEF SessionSpec, PlainOpensOnThreshold

=============================================================================
