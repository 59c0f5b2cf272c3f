------------------------------- MODULE Server -------------------------------
(* The serving process: main() checks PostgreSQL, listens, and on a signal  *)
(* drains the requests and closes the pool.  Requests run their statements  *)
(* over the shared DatabaseClient, whose pool lends a bounded number of     *)
(* connections; the admin requests call connect() first, as main() does: a  *)
(* step of it ends at each of its awaits.  A second signal makes uvicorn    *)
(* leave without waiting for the requests.                                  *)
EXTENDS Integers

CONSTANTS
    Requests,       \* coroutines of uvicorn
    Main,           \* the coroutine of _run_server()
    PoolSize,       \* _POOL_MAX_SIZE
    Statements,     \* bound: statements of a request
    MaxPools        \* bound: pools created in a run of the process

ServerAssumption ==
    /\ Main \notin Requests
    /\ PoolSize \in Nat \ {0}
    /\ Statements \in Nat \ {0}
    /\ MaxPools \in Nat \ {0}

VARIABLES
    main,           \* where _run_server() stands
    stop_event,     \* set by the handler of the signals
    forced,         \* a second signal came while the requests were drained
    should_exit,    \* of the uvicorn server
    pool,           \* DatabaseClient._pool; 0: None
    pools,          \* [1..MaxPools -> "none" | "open" | "closing" | "closed"]
    lent,           \* connections of the pool in place that are in use
    request,        \* the coroutines: pc, statements left
    refused,        \* history: requests that found no usable pool
    db_faulty          \* while TRUE, PostgreSQL may fail

vars == <<main, stop_event, forced, should_exit, pool, pools, lent, request, refused, db_faulty>>

Pools == 1..MaxPools
Idle == [pc |-> "idle", left |-> 0]
InFlight == {r \in Requests : request[r].pc # "idle"}

(* Mutant: uvicorn is started without the check. *)
Unchecked == "serve"
(* _run_server() begins with the check of PostgreSQL, and awaits it.        *)
StartupCheck == "connect"

Init ==
    /\ main = StartupCheck
    /\ stop_event = FALSE /\ forced = FALSE /\ should_exit = FALSE
    /\ pool = 0
    /\ pools = [p \in Pools |-> "none"]
    /\ lent = 0
    /\ request = [r \in Requests |-> Idle]
    /\ refused = {}
    /\ db_faulty = TRUE

-----------------------------------------------------------------------------
(* The coroutines that use the database: where one stands, and goes.        *)
Callers == Requests \cup {Main}
At(x) == IF x = Main THEN main ELSE request[x].pc
Step(r, me) == request' = [request EXCEPT ![r] = me]
GoTo(x, pc) ==
    IF x = Main THEN main' = pc /\ UNCHANGED request
    ELSE Step(x, [request[x] EXCEPT !.pc = pc]) /\ UNCHANGED main

(* DatabaseClient.connect() ends: main() listens, an admin request goes on. *)
Connected(x) == IF x = Main THEN "serve" ELSE "acquire"

(* A pool is created unless one is in place, ...                            *)
FindPool(x) ==
    /\ At(x) = "connect"
    /\ GoTo(x, IF pool # 0 THEN Connected(x) ELSE "create")
    /\ UNCHANGED <<stop_event, forced, should_exit, pool, pools, lent, refused, db_faulty>>

(* ... which is awaited; then it takes the place of whatever is there ...   *)
CreatePool(x) ==
    /\ At(x) = "create"
    /\ \E p \in Pools :
          /\ pools[p] = "none" /\ \A q \in Pools : q < p => pools[q] # "none"
          /\ pool' = p
          /\ pools' = [pools EXCEPT ![p] = "open"]
    /\ GoTo(x, "verify")
    /\ UNCHANGED <<stop_event, forced, should_exit, lent, refused, db_faulty>>

(* ... and is asked a query over one of its connections.                    *)
Verified(x) ==
    /\ At(x) = "query"
    /\ lent' = lent - 1
    /\ GoTo(x, Connected(x))
    /\ UNCHANGED <<stop_event, forced, should_exit, pool, pools, refused, db_faulty>>

(* An error on the way, the connection given back: at startup the process   *)
(* exits, an admin request does without the database.                       *)
ConnectFails(x) ==
    /\ db_faulty
    /\ At(x) \in {"create", "verify", "query"}
    /\ lent' = IF At(x) = "query" THEN lent - 1 ELSE lent
    /\ IF x = Main THEN main' = "failed" /\ UNCHANGED request ELSE Step(x, Idle) /\ UNCHANGED main
    /\ UNCHANGED <<stop_event, forced, should_exit, pool, pools, refused, db_faulty>>

(* pool.acquire(): one of the connections, waited for while all are lent,   *)
(* for the query of connect() or for a statement.                           *)
Usable == pool # 0 /\ pools[pool] = "open"
Acquire(x) ==
    /\ At(x) \in {"verify", "acquire"}
    /\ Usable /\ lent < PoolSize
    /\ lent' = lent + 1
    /\ GoTo(x, IF At(x) = "verify" THEN "query" ELSE "statement")
    /\ UNCHANGED <<stop_event, forced, should_exit, pool, pools, refused, db_faulty>>

-----------------------------------------------------------------------------
(* main().                                                                  *)
Signal ==
    /\ main \in {"serve", "drain"}
    /\ stop_event' = TRUE
    /\ forced' = (forced \/ main = "drain")
    /\ UNCHANGED <<main, should_exit, pool, pools, lent, request, refused, db_faulty>>

(* stop_event.wait() returns.                                               *)
StopServer ==
    /\ main = "serve" /\ stop_event
    /\ should_exit' = TRUE
    /\ main' = "drain"
    /\ UNCHANGED <<stop_event, forced, pool, pools, lent, request, refused, db_faulty>>

(* Mutant: the server is not awaited. *)
DrainedAtOnce == main = "drain"
(* await server_task: uvicorn waits for its requests, unless forced.        *)
Drained == main = "drain" /\ (InFlight = {} \/ forced)

(* The pool begins to close.  A port that is taken ends the server before   *)
(* any request, and SystemExit unwinds main().                              *)
ServerEnds ==
    /\ Drained \/ (main = "serve" /\ ~stop_event /\ InFlight = {})
    /\ should_exit' = TRUE
    /\ main' = "close"
    /\ pools' = [pools EXCEPT ![pool] = "closing"]
    /\ UNCHANGED <<stop_event, forced, pool, lent, request, refused, db_faulty>>

(* Pool.close() returns when every connection was given back; the tasks     *)
(* still running are cancelled when the loop ends.                          *)
PoolClosed ==
    /\ main = "close" /\ lent = 0
    /\ pools' = [pools EXCEPT ![pool] = "closed"]
    /\ pool' = 0
    /\ main' = "stopped"
    /\ request' = [r \in Requests |-> Idle]
    /\ UNCHANGED <<stop_event, forced, should_exit, lent, refused, db_faulty>>

-----------------------------------------------------------------------------
(* A request.                                                               *)
Arrive(r) ==
    /\ main = "serve" /\ ~should_exit
    /\ request[r].pc = "idle"
    /\ \E pc \in {"connect", "acquire"} : Step(r, [pc |-> pc, left |-> Statements])
    /\ UNCHANGED <<main, stop_event, forced, should_exit, pool, pools, lent, refused, db_faulty>>

(* There is no pool, or it is closing: the request ends with an error.      *)
Refuse(r) ==
    /\ request[r].pc \in {"verify", "acquire"} /\ ~Usable
    /\ Step(r, Idle)
    /\ refused' = refused \cup {r}
    /\ UNCHANGED <<main, stop_event, forced, should_exit, pool, pools, lent, db_faulty>>

GoesOn(r) == IF request[r].left = 1 THEN Idle
             ELSE [pc |-> "acquire", left |-> request[r].left - 1]

StatementEnds(r) ==
    /\ request[r].pc = "statement"
    /\ lent' = lent - 1
    /\ Step(r, GoesOn(r))
    /\ UNCHANGED <<main, stop_event, forced, should_exit, pool, pools, refused, db_faulty>>

(* Mutant: a connection is not given back when its statement fails. *)
StatementFailsHolding(r) ==
    /\ db_faulty /\ request[r].pc = "statement"
    /\ \E me \in {Idle, GoesOn(r)} : Step(r, me)
    /\ UNCHANGED <<main, stop_event, forced, should_exit, pool, pools, lent, refused, db_faulty>>

(* An error, or the command timeout: the connection is given back, and the  *)
(* request ends or does without the answer.                                 *)
StatementFails(r) ==
    /\ db_faulty /\ request[r].pc = "statement"
    /\ lent' = lent - 1
    /\ \E me \in {Idle, GoesOn(r)} : Step(r, me)
    /\ UNCHANGED <<main, stop_event, forced, should_exit, pool, pools, refused, db_faulty>>

Heal ==
    /\ db_faulty
    /\ db_faulty' = FALSE
    /\ UNCHANGED <<main, stop_event, forced, should_exit, pool, pools, lent, request, refused>>

Next ==
    \/ \E x \in Callers :
          FindPool(x) \/ CreatePool(x) \/ Verified(x) \/ ConnectFails(x) \/ Acquire(x)
    \/ Signal \/ StopServer \/ ServerEnds \/ PoolClosed
    \/ \E r \in Requests : Arrive(r) \/ Refuse(r) \/ StatementEnds(r) \/ StatementFails(r)
    \/ Heal

(* The event loop runs every coroutine that can go on, calls have timeouts, *)
(* and the pool serves those who wait for a connection in turn.             *)
Fairness ==
    /\ \A x \in Callers :
          /\ WF_vars(FindPool(x) \/ CreatePool(x) \/ Verified(x) \/ ConnectFails(x))
          /\ SF_vars(Acquire(x))
    /\ WF_vars(StopServer \/ PoolClosed)
    /\ WF_vars(main = "drain" /\ ServerEnds)
    /\ \A r \in Requests : WF_vars(Refuse(r) \/ StatementEnds(r) \/ StatementFails(r))

Spec == Init /\ [][Next]_vars /\ Fairness

-----------------------------------------------------------------------------
(* Type invariant. *)
TypeOK ==
    /\ main \in {"connect", "create", "verify", "query", "serve", "drain", "close", "stopped",
                "failed"}
    /\ stop_event \in BOOLEAN /\ forced \in BOOLEAN /\ should_exit \in BOOLEAN
    /\ db_faulty \in BOOLEAN
    /\ pool \in Pools \cup {0}
    /\ pools \in [Pools -> {"none", "open", "closing", "closed"}]
    /\ lent \in 0..PoolSize
    /\ request \in [Requests -> [pc : {"idle", "connect", "create", "verify", "query", "acquire",
                                       "statement"},
                                 left : 0..Statements]]
    /\ refused \subseteq Requests

(* Every pool that was created is the one in place or was closed.  Two      *)
(* calls of connect() that both find none, each awaiting a pool of its own, *)
(* would lose one; that the check at startup is awaited before uvicorn      *)
(* accepts admin requests keeps them from it.                               *)
OnePool ==
    \A p \in Pools : pools[p] \in {"open", "closing"} => pool = p

(* One signal disturbs nobody: a request that was accepted finds the pool   *)
(* until its last statement, unless a second signal forced the end.         *)
Undisturbed == refused # {} => forced

(* Every request ends, however few connections there are and whichever      *)
(* statements fail, and a signal ends the process.                          *)
Ends ==
    /\ \A r \in Requests : request[r].pc # "idle" ~> request[r].pc = "idle"
    /\ stop_event ~> main = "stopped"
=============================================================================
