--------------------------- MODULE MCPravoClient ---------------------------
(* Model checking of PravoClient.  In a plain behaviour there are only     *)
(* endpoint calls, none is cancelled, and the breaker reports and recovers *)
(* as its documentation says; in any other behaviour only safety is left.  *)
EXTENDS PravoClient

VARIABLE plain

PlainNext ==
  \/ \E c \in Callers : Start(c, "call") \/ Blocked(c, "call") \/ Progress(c)
  \/ ReadIsOpen \/ Reset \/ Tick \/ SourceHeals

SessionInit == Init /\ plain \in BOOLEAN
SessionNext ==
  /\ (plain /\ PlainNext) \/ (~plain /\ Next)
  /\ UNCHANGED plain
SessionSpec == SessionInit /\ [][SessionNext]_<<vars, plain>> /\ Fairness

-----------------------------------------------------------------------------
(* In a plain behaviour: a half-open circuit hears from its probe, ...     *)
PlainHalfOpenResolves == plain => HalfOpenResolves

(* ... a source that is healthy for good has the circuit closed for good,  *)
PlainRecovery == plain => Recovery

(* ... and only failure_threshold failed calls open it.                    *)
PlainOpensOnThreshold == [][plain => OpensOnThreshold]_vars
=============================================================================
