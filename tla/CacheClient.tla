---------------------------- MODULE CacheClient ----------------------------
(***************************************************************************)
(* The Redis client of core/cache/__init__.py.  Coroutines share its two   *)
(* fields and interleave at ping(), at the command and at aclose().  The   *)
(* redis client object is put in _redis before its ping is awaited.        *)
(*                                                                         *)
(*   redis      _redis: a client object, or NoClient (_UNSET and None,     *)
(*              which every method treats alike)                           *)
(*   available  _available                                                 *)
(*   op         per coroutine, the call it is in and the client object it  *)
(*              holds                                                      *)
(*   faulty     while FALSE Redis answers every request                    *)
(*   interrupted   history: was a ping ended by another exception?         *)
(***************************************************************************)
EXTENDS Naturals

CONSTANTS
  Tasks,           \* coroutines that use the cache
  Handles,         \* client objects; one is reused once nobody refers to it
  NoClient,
  Closable         \* is close() ever called?

ASSUME CacheAssumption ==
  /\ NoClient \notin Handles
  /\ Closable \in BOOLEAN

VARIABLES redis, available, op, faulty, interrupted

vars == <<redis, available, op, faulty, interrupted>>

Idle == [pc |-> "idle", client |-> NoClient]

(* A coroutine that waits for Redis holds a client object. *)
TypeOK ==
  /\ redis \in Handles \cup {NoClient}
  /\ available \in BOOLEAN
  /\ op \in [Tasks -> {Idle} \cup [pc: {"ping", "command", "aclose"}, client: Handles]]
  /\ faulty \in BOOLEAN
  /\ interrupted \in BOOLEAN

Init ==
  /\ redis = NoClient
  /\ available = FALSE
  /\ op = [t \in Tasks |-> Idle]
  /\ faulty = TRUE
  /\ interrupted = FALSE

-----------------------------------------------------------------------------
Call(t, pc, client) == op' = [op EXCEPT ![t] = [pc |-> pc, client |-> client]]
Return(t) == op' = [op EXCEPT ![t] = Idle]
Unused == {h \in Handles : h # redis /\ \A t \in Tasks : op[t].client # h}

(* get, set or delete, through _connect: a client object at hand is used   *)
(* at once.                                                                *)
Reuse(t) ==
  /\ op[t].pc = "idle"
  /\ redis # NoClient
  /\ Call(t, "command", redis)
  /\ UNCHANGED <<redis, available, faulty, interrupted>>

(* Otherwise a new one is made and pinged. *)
Create(t) ==
  /\ op[t].pc = "idle"
  /\ redis = NoClient
  /\ \E h \in Unused :
       /\ redis' = h
       /\ Call(t, "ping", h)
  /\ UNCHANGED <<available, faulty, interrupted>>

(* The ping is answered.  _connect returns what _redis holds by now; when  *)
(* that is None the call is a no-op.  The mutant: the flag is not raised.  *)
PingedSilently(t) ==
  /\ op[t].pc = "ping"
  /\ IF redis = NoClient THEN Return(t) ELSE Call(t, "command", redis)
  /\ UNCHANGED <<redis, available, faulty, interrupted>>
Pinged(t) ==
  /\ op[t].pc = "ping"
  /\ available' = TRUE
  /\ IF redis = NoClient THEN Return(t) ELSE Call(t, "command", redis)
  /\ UNCHANGED <<redis, faulty, interrupted>>

(* A connection error or a timeout, of the ping or of the command: the     *)
(* client object is forgotten, whichever it is by now.                     *)
FailsKeepingClient(t) ==
  /\ faulty
  /\ op[t].pc \in {"ping", "command"}
  /\ available' = FALSE
  /\ Return(t)
  /\ UNCHANGED <<redis, faulty, interrupted>>
Fails(t) ==
  /\ faulty
  /\ op[t].pc \in {"ping", "command"}
  /\ redis' = NoClient
  /\ available' = FALSE
  /\ Return(t)
  /\ UNCHANGED <<faulty, interrupted>>

Completes(t) ==
  /\ op[t].pc = "command"
  /\ Return(t)
  /\ UNCHANGED <<redis, available, faulty, interrupted>>

(* close() *)
Closed ==
  /\ redis' = NoClient
  /\ available' = FALSE
CloseBegins(t) ==
  /\ Closable
  /\ op[t].pc = "idle"
  /\ IF redis = NoClient
     THEN Closed /\ UNCHANGED op
     ELSE Call(t, "aclose", redis) /\ UNCHANGED <<redis, available>>
  /\ UNCHANGED <<faulty, interrupted>>
CloseEnds(t) ==
  /\ op[t].pc = "aclose"
  /\ Closed
  /\ Return(t)
  /\ UNCHANGED <<faulty, interrupted>>

(* The coroutine is cancelled, or Redis answers with an error that is      *)
(* neither a connection error nor a timeout.                               *)
Interrupted(t) ==
  /\ op[t].pc # "idle"
  /\ Return(t)
  /\ interrupted' = (interrupted \/ op[t].pc = "ping")
  /\ UNCHANGED <<redis, available, faulty>>

Heal ==
  /\ faulty
  /\ faulty' = FALSE
  /\ UNCHANGED <<redis, available, op, interrupted>>

Progress(t) == Pinged(t) \/ Fails(t) \/ Completes(t) \/ CloseEnds(t)

Next ==
  \/ \E t \in Tasks : Reuse(t) \/ Create(t)
  \/ \E t \in Tasks : Progress(t)
  \/ \E t \in Tasks : CloseBegins(t)
  \/ \E t \in Tasks : Interrupted(t)
  \/ Heal

Spec == Init /\ [][Next]_vars

(* The cache keeps being used, and every await ends (both have timeouts).  *)
(* Nobody is bound to close it, and Redis need not recover.                *)
FairSpec ==
  /\ Spec
  /\ \A t \in Tasks : WF_vars(Progress(t)) /\ WF_vars(Reuse(t) \/ Create(t))

-----------------------------------------------------------------------------
(* Safety.                                                                 *)

(* While `available` says no, a client object in _redis is one that some   *)
(* coroutine is pinging, and will raise the flag or drop the object: the   *)
(* client is never left in use and reported down -- until a ping is cut    *)
(* short by an exception _connect does not catch.                          *)
DownIsBeingChecked ==
  ~available /\ redis # NoClient /\ ~interrupted =>
    \E t \in Tasks : op[t] = [pc |-> "ping", client |-> redis]

-----------------------------------------------------------------------------
(* Liveness.                                                               *)

(* cache/__init__.py:61: available tells "Whether Redis is currently       *)
(* available".  With Redis healthy and the cache in use it comes to say    *)
(* so, whatever failed before and however often the client is closed, as   *)
(* long as no ping is cut short.                                           *)
Reconnects == ~faulty ~> available \/ interrupted

=============================================================================
