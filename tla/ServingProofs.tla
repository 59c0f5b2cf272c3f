---------------------------- MODULE ServingProofs ----------------------------
(* Proofs about the three parts of the serving process, each by itself:      *)
(* Server, for every number of requests, connections and statements,         *)
(* CacheClient, for every number of coroutines and client objects, and       *)
(* Retrieval, for every store, text and question.                            *)
EXTENDS MCServing, FiniteSetTheorems, SequenceTheorems, TLAPS

-----------------------------------------------------------------------------
(* Server.                                                                   *)

Request == [pc : {"idle", "connect", "acquire", "statement"}, left : 0..Statements]
PoolState == {"none", "open", "closing", "closed"}
Place == {"connect", "create", "verify", "query", "serve", "drain", "close", "stopped", "failed"}

-----------------------------------------------------------------------------
(* The inductive invariant.                                                  *)

(* The pool in place, where main() stands.                                   *)
PoolInPlace ==
    /\ main \in {"connect", "create"} => pool = 0 /\ \A p \in S!Pools : pools[p] = "none"
    /\ main \in {"verify", "query", "serve", "drain"} => pool \in S!Pools /\ pools[pool] = "open"
    /\ main = "close" => pool \in S!Pools /\ pools[pool] = "closing"

(* No request waits for a pool of its own: each that calls connect() finds   *)
(* the one that main() awaited.                                              *)
NoneCreates == request \in [Requests -> Request]

(* Requests run only while they are served, or when the end was forced.      *)
Served ==
    S!InFlight # {} => main \in {"serve", "drain"} \/ (main = "close" /\ forced)

(* A request in flight has a statement left.                                 *)
Busy == \A r \in Requests : request[r].pc # "idle" => request[r].left # 0

(* The connections in use are counted.                                       *)
Connection == {"statement", "query"}
Using == {x \in S!Callers : S!At(x) \in Connection}
Counted == IsFiniteSet(Using) /\ Cardinality(Using) = lent

ServerInv ==
    /\ S!TypeOK /\ PoolInPlace /\ S!OnePool /\ NoneCreates /\ Served /\ Busy /\ Counted
    /\ S!Undisturbed

-----------------------------------------------------------------------------
(* A request that gives back its connection, or takes one.                   *)

LEMMA IdleTyped ==
  ASSUME S!ServerAssumption
  PROVE  S!Idle \in Request /\ S!Idle.pc = "idle"
<1>1. 0 \in 0..Statements
  BY DEF S!ServerAssumption
<1>. QED
  BY <1>1 DEF S!Idle, Request

LEMMA OneMoves ==
  ASSUME S!ServerAssumption, ServerInv, NEW r \in Requests, NEW me \in Request, S!Step(r, me),
         me.pc # "idle" => me.left # 0, main' = main
  PROVE  /\ NoneCreates' /\ request'[r] = me
         /\ \A q \in Requests : q # r => request'[q] = request[q]
         /\ Busy'
         /\ Using' = IF me.pc = "statement" THEN Using \cup {r} ELSE Using \ {r}
<1>1. request \in [Requests -> Request] /\ Busy
  BY DEF ServerInv, NoneCreates
<1>2. /\ request' \in [Requests -> Request] /\ request'[r] = me
      /\ \A q \in Requests : q # r => request'[q] = request[q]
  BY <1>1 DEF S!Step
<1>3. Busy'
  BY <1>1, <1>2 DEF Busy
<1>4. Using' = IF me.pc = "statement" THEN Using \cup {r} ELSE Using \ {r}
  <2>1. r \in S!Callers /\ r # Main /\ S!At(r)' = me.pc /\ me.pc # "query"
    BY <1>2 DEF S!Callers, S!At, S!ServerAssumption, Request
  <2>2. ASSUME NEW x \in S!Callers, x # r PROVE S!At(x)' = S!At(x)
    BY <1>2, <2>2 DEF S!Callers, S!At
  <2>3. \A x \in S!Callers : x \in Using' <=> S!At(x)' \in Connection
    BY DEF Using, S!Callers
  <2>. QED
    BY <2>1, <2>2, <2>3 DEF Using, Connection, S!Callers
<1>. QED
  BY <1>2, <1>3, <1>4 DEF NoneCreates

(* At most so many connections are lent as there are.                        *)
LEMMA Lending ==
  ASSUME S!ServerAssumption, ServerInv, NEW x \in S!Callers
  PROVE  /\ S!At(x) \notin Connection /\ lent < PoolSize =>
              /\ lent + 1 \in 0..PoolSize
              /\ IsFiniteSet(Using \cup {x}) /\ Cardinality(Using \cup {x}) = lent + 1
         /\ S!At(x) \in Connection =>
              /\ lent - 1 \in 0..PoolSize
              /\ IsFiniteSet(Using \ {x}) /\ Cardinality(Using \ {x}) = lent - 1
         /\ S!At(x) \notin Connection => Using \ {x} = Using
<1>1. IsFiniteSet(Using) /\ Cardinality(Using) = lent /\ lent \in 0..PoolSize
  BY DEF ServerInv, Counted, S!TypeOK
<1>2. x \in Using <=> S!At(x) \in Connection
  BY DEF Using
<1>3. IsFiniteSet(Using \cup {x})
      /\ Cardinality(Using \cup {x}) = IF x \in Using THEN lent ELSE lent + 1
  BY <1>1, FS_AddElement
<1>4. IsFiniteSet(Using \ {x})
      /\ Cardinality(Using \ {x}) = IF x \in Using THEN lent - 1 ELSE lent
  BY <1>1, FS_RemoveElement
<1>5. lent < PoolSize => lent + 1 \in 0..PoolSize
  BY <1>1 DEF S!ServerAssumption
<1>6. Cardinality(Using \ {x}) \in Nat
  BY <1>4, FS_CardinalityType
<1>7. x \in Using => lent - 1 \in 0..PoolSize
  BY <1>1, <1>4, <1>6 DEF S!ServerAssumption
<1>. QED
  BY <1>2, <1>3, <1>4, <1>5, <1>7

(* Where a request stands.                                                   *)
LEMMA Standing ==
  ASSUME S!ServerAssumption, ServerInv, NEW r \in Requests
  PROVE  /\ r \in S!Callers /\ r # Main /\ S!At(r) = request[r].pc /\ request[r] \in Request
         /\ request[r].pc \in {"idle", "connect", "acquire", "statement"}
         /\ request[r].pc \in Connection <=> request[r].pc = "statement"
BY DEF S!Callers, S!At, S!ServerAssumption, ServerInv, NoneCreates, Request, Connection

(* A request in flight finds a pool in place.                                *)
LEMMA PoolFound ==
  ASSUME ServerInv, NEW r \in Requests, request[r].pc # "idle"
  PROVE  /\ pool \in S!Pools /\ pool # 0
         /\ pools[pool] = "open" \/ forced
<1>1. r \in S!InFlight
  BY DEF S!InFlight
<1>2. main \in {"serve", "drain"} \/ (main = "close" /\ forced)
  BY <1>1 DEF ServerInv, Served
<1>3. pool \in S!Pools /\ (pools[pool] = "open" \/ forced)
  BY <1>2 DEF ServerInv, PoolInPlace
<1>. QED
  BY <1>3 DEF S!Pools

(* What a step of a request leaves alone, and what it must say of the rest.  *)
LEMMA RequestKeeps ==
  ASSUME S!ServerAssumption, ServerInv, NEW r \in Requests, NEW me \in Request, S!Step(r, me),
         me.pc # "idle" => me.left # 0,
         request[r].pc # "idle" \/ main = "serve",
         UNCHANGED <<main, stop_event, forced, should_exit, pool, pools, db_faulty>>,
         lent' \in 0..PoolSize, Counted', refused' \subseteq Requests, S!Undisturbed'
  PROVE  ServerInv'
<1>1. /\ NoneCreates' /\ Busy'
      /\ \A q \in Requests : q # r => request'[q] = request[q]
  BY OneMoves
<1>2. Served'
  <2>1. CASE main = "serve"
    BY <2>1 DEF Served
  <2>2. CASE main # "serve"
    <3>1. r \in S!InFlight
      BY <2>2 DEF S!InFlight
    <3>. QED
      BY <3>1 DEF ServerInv, Served
  <2>. QED
    BY <2>1, <2>2
<1>3. S!TypeOK'
  BY <1>1 DEF ServerInv, S!TypeOK, NoneCreates, Request
<1>4. PoolInPlace' /\ S!OnePool'
  BY DEF ServerInv, PoolInPlace, S!OnePool
<1>. QED
  BY <1>1, <1>2, <1>3, <1>4 DEF ServerInv

-----------------------------------------------------------------------------
(* The steps of a request.                                                   *)

LEMMA GoesOnTyped ==
  ASSUME S!ServerAssumption, ServerInv, NEW r \in Requests, request[r].pc # "idle"
  PROVE  /\ S!GoesOn(r) \in Request /\ S!GoesOn(r).pc # "statement"
         /\ S!GoesOn(r).pc # "idle" => S!GoesOn(r).left # 0
<1>1. request[r].left \in 0..Statements /\ request[r].left # 0
  BY DEF ServerInv, S!TypeOK, Busy
<1>2. request[r].left # 1 => request[r].left - 1 \in 0..Statements /\ request[r].left - 1 # 0
  BY <1>1 DEF S!ServerAssumption
<1>3. CASE request[r].left = 1
  BY <1>3, IdleTyped DEF S!GoesOn
<1>4. CASE request[r].left # 1
  <2>1. S!GoesOn(r) = [pc |-> "acquire", left |-> request[r].left - 1]
    BY <1>4 DEF S!GoesOn
  <2>. QED
    BY <1>2, <1>4, <2>1 DEF Request
<1>. QED
  BY <1>3, <1>4

(* The connections in use when a request does not hold one after its step.   *)
LEMMA GivenBack ==
  ASSUME S!ServerAssumption, ServerInv, NEW r \in Requests, NEW me \in Request, S!Step(r, me),
         me.pc # "idle" => me.left # 0, me.pc # "statement", main' = main,
         lent' = IF request[r].pc = "statement" THEN lent - 1 ELSE lent
  PROVE  lent' \in 0..PoolSize /\ Counted'
<1>1. Using' = Using \ {r}
  BY OneMoves
<1>2. lent \in 0..PoolSize /\ Counted
  BY DEF ServerInv, S!TypeOK
<1>3. CASE request[r].pc = "statement"
  BY <1>1, <1>3, Lending, Standing DEF Counted
<1>4. CASE request[r].pc # "statement"
  BY <1>1, <1>2, <1>4, Lending, Standing DEF Counted
<1>. QED
  BY <1>3, <1>4

LEMMA ArriveKeeps ==
  ASSUME S!ServerAssumption, ServerInv, NEW r \in Requests, S!Arrive(r)
  PROVE  ServerInv'
<1>1. PICK pc \in {"connect", "acquire"} : S!Step(r, [pc |-> pc, left |-> Statements])
  BY DEF S!Arrive
<1> DEFINE me == [pc |-> pc, left |-> Statements]
<1>2. me \in Request /\ me.pc # "statement" /\ me.left # 0
  BY DEF S!ServerAssumption, Request
<1>3. /\ main = "serve" /\ request[r].pc = "idle"
      /\ UNCHANGED <<main, stop_event, forced, should_exit, pool, pools, lent, refused, db_faulty>>
  BY DEF S!Arrive
<1> HIDE DEF me
<1>4. lent' \in 0..PoolSize /\ Counted'
  BY <1>1, <1>2, <1>3, GivenBack DEF me
<1>5. refused' \subseteq Requests /\ S!Undisturbed'
  BY <1>3 DEF ServerInv, S!TypeOK, S!Undisturbed
<1>. QED
  BY <1>1, <1>2, <1>3, <1>4, <1>5, RequestKeeps DEF me

(* connect() of an admin request: the pool is there.                         *)
LEMMA AdminConnectKeeps ==
  ASSUME S!ServerAssumption, ServerInv, NEW r \in Requests,
         S!FindPool(r) \/ S!CreatePool(r) \/ S!Verified(r) \/ S!ConnectFails(r)
  PROVE  ServerInv'
<1> DEFINE me == [request[r] EXCEPT !.pc = "acquire"]
<1>1. request[r] \in Request /\ request[r].pc = "connect" /\ S!FindPool(r) /\ r # Main
  BY Standing DEF S!FindPool, S!CreatePool, S!Verified, S!ConnectFails
<1>2. request[r].left # 0 /\ me \in Request /\ me.pc = "acquire" /\ me.left = request[r].left
  BY <1>1 DEF ServerInv, Busy, Request
<1>3. pool # 0
  BY <1>1, PoolFound
<1>4. S!Step(r, me)
      /\ UNCHANGED <<main, stop_event, forced, should_exit, pool, pools, lent, refused, db_faulty>>
  BY <1>1, <1>3 DEF S!FindPool, S!GoTo, S!Connected
<1> HIDE DEF me
<1>5. lent' \in 0..PoolSize /\ Counted'
  BY <1>1, <1>2, <1>4, GivenBack
<1>6. refused' \subseteq Requests /\ S!Undisturbed'
  BY <1>4 DEF ServerInv, S!TypeOK, S!Undisturbed
<1>. QED
  BY <1>1, <1>2, <1>4, <1>5, <1>6, RequestKeeps

LEMMA AcquireKeeps ==
  ASSUME S!ServerAssumption, ServerInv, NEW r \in Requests, S!Acquire(r)
  PROVE  ServerInv'
<1> DEFINE me == [request[r] EXCEPT !.pc = "statement"]
<1>1. request[r] \in Request /\ request[r].pc = "acquire" /\ r # Main /\ S!At(r) = "acquire"
  BY Standing DEF S!Acquire
<1>2. request[r].left # 0 /\ me \in Request /\ me.pc = "statement" /\ me.left = request[r].left
  BY <1>1 DEF ServerInv, Busy, Request
<1>3. /\ lent < PoolSize /\ lent' = lent + 1 /\ S!Step(r, me)
      /\ UNCHANGED <<main, stop_event, forced, should_exit, pool, pools, refused, db_faulty>>
  BY <1>1 DEF S!Acquire, S!GoTo
<1> HIDE DEF me
<1>4. Using' = Using \cup {r}
  BY <1>1, <1>2, <1>3, OneMoves
<1>5. lent' \in 0..PoolSize /\ Counted'
  BY <1>1, <1>3, <1>4, Lending, Standing DEF Counted, Connection
<1>6. refused' \subseteq Requests /\ S!Undisturbed'
  BY <1>3 DEF ServerInv, S!TypeOK, S!Undisturbed
<1>. QED
  BY <1>1, <1>2, <1>3, <1>5, <1>6, RequestKeeps

(* A request is refused only after a second signal.                          *)
LEMMA RefuseKeeps ==
  ASSUME S!ServerAssumption, ServerInv, NEW r \in Requests, S!Refuse(r)
  PROVE  ServerInv'
<1>1. /\ request[r].pc \in {"verify", "acquire"} /\ ~S!Usable /\ S!Step(r, S!Idle)
      /\ refused' = refused \cup {r}
      /\ UNCHANGED <<main, stop_event, forced, should_exit, pool, pools, lent, db_faulty>>
  BY DEF S!Refuse
<1>2. S!Idle \in Request /\ S!Idle.pc = "idle"
  BY IdleTyped
<1>3. forced
  BY <1>1, PoolFound DEF S!Usable
<1>4. lent' \in 0..PoolSize /\ Counted'
  BY <1>1, <1>2, GivenBack
<1>5. refused' \subseteq Requests /\ S!Undisturbed'
  BY <1>1, <1>3 DEF ServerInv, S!TypeOK, S!Undisturbed
<1>. QED
  BY <1>1, <1>2, <1>4, <1>5, RequestKeeps

(* The connection is given back, whatever became of the statement.           *)
LEMMA StatementKeeps ==
  ASSUME S!ServerAssumption, ServerInv, NEW r \in Requests, S!StatementEnds(r) \/ S!StatementFails(r)
  PROVE  ServerInv'
<1>1. /\ request[r].pc = "statement" /\ lent' = lent - 1
      /\ UNCHANGED <<main, stop_event, forced, should_exit, pool, pools, refused, db_faulty>>
  BY DEF S!StatementEnds, S!StatementFails
<1>2. PICK me \in {S!Idle, S!GoesOn(r)} : S!Step(r, me)
  BY DEF S!StatementEnds, S!StatementFails
<1>3. me \in Request /\ me.pc # "statement" /\ (me.pc # "idle" => me.left # 0)
  BY <1>1, IdleTyped, GoesOnTyped
<1>4. lent' \in 0..PoolSize /\ Counted'
  BY <1>1, <1>2, <1>3, GivenBack
<1>5. refused' \subseteq Requests /\ S!Undisturbed'
  BY <1>1 DEF ServerInv, S!TypeOK, S!Undisturbed
<1>. QED
  BY <1>1, <1>2, <1>3, <1>4, <1>5, RequestKeeps

-----------------------------------------------------------------------------
(* The steps of main().                                                      *)

(* While no request moves and none is refused.                               *)
LEMMA RequestsWait ==
  ASSUME ServerInv, UNCHANGED <<request, refused>>, forced => forced',
         lent' \in 0..PoolSize, Counted',
         forced' \in BOOLEAN, stop_event' \in BOOLEAN, should_exit' \in BOOLEAN,
         db_faulty' \in BOOLEAN, main' \in Place, pool' \in S!Pools \cup {0},
         pools' \in [S!Pools -> PoolState]
  PROVE  S!TypeOK' /\ NoneCreates' /\ Busy' /\ S!Undisturbed' /\ S!InFlight' = S!InFlight
<1>1. S!TypeOK'
  BY DEF ServerInv, S!TypeOK, Place, PoolState
<1>2. NoneCreates' /\ Busy' /\ S!Undisturbed' /\ S!InFlight' = S!InFlight
  BY DEF ServerInv, NoneCreates, Busy, S!Undisturbed, S!InFlight
<1>. QED
  BY <1>1, <1>2

(* The connections in use while main() takes and gives back none, ...        *)
LEMMA NoneTaken ==
  ASSUME ServerInv, UNCHANGED <<lent, request>>, main = "query" <=> main' = "query",
         main # "statement", main' # "statement"
  PROVE  lent' \in 0..PoolSize /\ Counted'
<1>1. \A x \in S!Callers : S!At(x)' \in Connection <=> S!At(x) \in Connection
  BY DEF S!At, Connection
<1>2. Using' = Using
  BY <1>1 DEF Using, S!Callers, S!At, Connection
<1>. QED
  BY <1>2 DEF ServerInv, S!TypeOK, Counted

(* ... and when it does, for the query of connect().                         *)
LEMMA MainTakes ==
  ASSUME S!ServerAssumption, ServerInv, request' = request, main' # "statement",
         \/ main = "verify" /\ main' = "query" /\ lent < PoolSize /\ lent' = lent + 1
         \/ main = "query" /\ main' # "query" /\ lent' = lent - 1
  PROVE  lent' \in 0..PoolSize /\ Counted'
<1>1. Main \in S!Callers /\ S!At(Main) = main /\ S!At(Main)' = main'
  BY DEF S!Callers, S!At
<1>2. \A x \in S!Callers : x # Main => S!At(x)' = S!At(x)
  BY DEF S!At
<1>3. \A x : x \in Using' <=> x \in S!Callers /\ S!At(x)' \in Connection
  BY DEF Using, S!Callers
<1>4. \A x : x \in Using <=> x \in S!Callers /\ S!At(x) \in Connection
  BY DEF Using
<1>5. CASE main = "verify"
  <2>1. Using' = Using \cup {Main}
    BY <1>1, <1>2, <1>3, <1>4, <1>5 DEF Connection
  <2>. QED
    BY <1>1, <1>5, <2>1, Lending DEF Counted, Connection
<1>6. CASE main = "query"
  <2>1. Using' = Using \ {Main}
    BY <1>1, <1>2, <1>3, <1>4, <1>6 DEF Connection
  <2>. QED
    BY <1>1, <1>6, <2>1, Lending DEF Counted, Connection
<1>. QED
  BY <1>5, <1>6

(* The check at startup creates the pool, ...                                *)
LEMMA CreatePoolKeeps ==
  ASSUME ServerInv, S!CreatePool(Main)
  PROVE  ServerInv'
<1>1. /\ main = "create" /\ pool = 0 /\ \A p \in S!Pools : pools[p] = "none"
      /\ S!TypeOK
  BY DEF ServerInv, S!CreatePool, S!At, PoolInPlace
<1>2. PICK p \in S!Pools : pool' = p /\ pools' = [pools EXCEPT ![p] = "open"]
  BY DEF S!CreatePool
<1>3. main' = "verify"
      /\ UNCHANGED <<stop_event, forced, should_exit, lent, request, refused, db_faulty>>
  BY DEF S!CreatePool, S!GoTo
<1>4. lent' \in 0..PoolSize /\ Counted'
  BY <1>1, <1>3, NoneTaken
<1>5. S!TypeOK' /\ NoneCreates' /\ Busy' /\ S!Undisturbed' /\ S!InFlight' = S!InFlight
  <2>1. pools' \in [S!Pools -> PoolState] /\ main' \in Place
    BY <1>1, <1>2, <1>3 DEF S!TypeOK, PoolState, Place
  <2>. QED
    BY <1>1, <1>2, <1>3, <1>4, <2>1, RequestsWait DEF S!TypeOK
<1>6. PoolInPlace' /\ S!OnePool'
  BY <1>1, <1>2, <1>3 DEF S!TypeOK, PoolInPlace, S!OnePool
<1>7. Served'
  BY <1>1, <1>5 DEF ServerInv, Served
<1>. QED
  BY <1>4, <1>5, <1>6, <1>7 DEF ServerInv

(* ... and every other step of main() until it closes leaves it alone.       *)
LEMMA MainKeeps ==
  ASSUME S!ServerAssumption, ServerInv,
         \/ S!FindPool(Main) \/ S!Acquire(Main) \/ S!Verified(Main) \/ S!ConnectFails(Main)
         \/ S!Signal \/ S!StopServer \/ S!Heal
  PROVE  ServerInv'
<1>1. UNCHANGED <<pool, pools, request, refused>> /\ S!TypeOK /\ main \in Place
  BY DEF S!FindPool, S!Acquire, S!Verified, S!ConnectFails, S!GoTo, S!Signal, S!StopServer, S!Heal,
         ServerInv, S!TypeOK, Place
<1>2. /\ stop_event' \in BOOLEAN /\ should_exit' \in BOOLEAN
      /\ forced' \in BOOLEAN /\ (forced => forced') /\ db_faulty' \in BOOLEAN
  BY <1>1 DEF S!FindPool, S!Acquire, S!Verified, S!ConnectFails, S!Signal, S!StopServer, S!Heal,
              S!TypeOK
<1>3. main = "connect" => pool = 0
  BY DEF ServerInv, PoolInPlace
<1>4. \/ main' = main /\ lent' = lent
      \/ main = "connect" /\ main' = "create" /\ lent' = lent
      \/ main \in {"create", "verify"} /\ main' = "failed" /\ lent' = lent
      \/ main = "verify" /\ main' = "query" /\ lent < PoolSize /\ lent' = lent + 1
      \/ main = "query" /\ main' \in {"serve", "failed"} /\ lent' = lent - 1
      \/ main = "serve" /\ main' = "drain" /\ lent' = lent
  <2>1. CASE S!FindPool(Main)
    BY <1>3, <2>1 DEF S!FindPool, S!At, S!GoTo, S!Connected
  <2>2. CASE S!Acquire(Main)
    BY <1>1, <2>2 DEF S!Acquire, S!At, S!GoTo, Place
  <2>3. CASE S!Verified(Main) \/ S!ConnectFails(Main)
    BY <2>3 DEF S!Verified, S!ConnectFails, S!At, S!GoTo, S!Connected
  <2>4. CASE S!Signal \/ S!StopServer \/ S!Heal
    BY <2>4 DEF S!Signal, S!StopServer, S!Heal
  <2>. QED
    BY <2>1, <2>2, <2>3, <2>4
<1>5. main' \in Place
  BY <1>1, <1>4 DEF Place
<1>6. lent' \in 0..PoolSize /\ Counted'
  BY <1>1, <1>4, NoneTaken, MainTakes DEF Place
<1>7. S!TypeOK' /\ NoneCreates' /\ Busy' /\ S!Undisturbed' /\ S!InFlight' = S!InFlight
  <2>1. pool' \in S!Pools \cup {0} /\ pools' \in [S!Pools -> PoolState]
    BY <1>1 DEF S!TypeOK, PoolState
  <2>. QED
    BY <1>1, <1>2, <1>5, <1>6, <2>1, RequestsWait DEF ServerInv
<1>8. PoolInPlace' /\ S!OnePool'
  BY <1>1, <1>4 DEF ServerInv, PoolInPlace, S!OnePool
<1>9. Served'
  BY <1>2, <1>4, <1>7 DEF ServerInv, Served
<1>. QED
  BY <1>6, <1>7, <1>8, <1>9 DEF ServerInv

LEMMA ServerEndsKeeps ==
  ASSUME ServerInv, S!ServerEnds
  PROVE  ServerInv'
<1>1. /\ main \in {"serve", "drain"} /\ (S!InFlight = {} \/ forced)
      /\ should_exit' = TRUE /\ main' = "close" /\ pools' = [pools EXCEPT ![pool] = "closing"]
      /\ UNCHANGED <<stop_event, forced, pool, lent, request, refused, db_faulty>>
  BY DEF S!ServerEnds, S!Drained
<1>2. pool \in S!Pools /\ S!TypeOK
  BY <1>1 DEF ServerInv, PoolInPlace
<1>3. lent' \in 0..PoolSize /\ Counted'
  BY <1>1, NoneTaken
<1>6. S!TypeOK' /\ NoneCreates' /\ Busy' /\ S!Undisturbed' /\ S!InFlight' = S!InFlight
  <2>1. pools' \in [S!Pools -> PoolState] /\ main' \in Place
    BY <1>1, <1>2 DEF S!TypeOK, PoolState, Place
  <2>. QED
    BY <1>1, <1>2, <1>3, <2>1, RequestsWait DEF S!TypeOK
<1>4. PoolInPlace' /\ S!OnePool'
  BY <1>1, <1>2 DEF ServerInv, S!TypeOK, PoolInPlace, S!OnePool
<1>5. Served'
  BY <1>1, <1>6 DEF Served
<1>. QED
  BY <1>3, <1>4, <1>5, <1>6 DEF ServerInv

LEMMA PoolClosedKeeps ==
  ASSUME S!ServerAssumption, ServerInv, S!PoolClosed
  PROVE  ServerInv'
<1>1. /\ main = "close" /\ lent = 0 /\ pools' = [pools EXCEPT ![pool] = "closed"]
      /\ pool' = 0 /\ main' = "stopped" /\ request' = [r \in Requests |-> S!Idle]
      /\ UNCHANGED <<stop_event, forced, should_exit, lent, refused, db_faulty>>
  BY DEF S!PoolClosed
<1>2. S!Idle \in Request /\ S!Idle.pc = "idle"
  BY IdleTyped
<1>3. S!TypeOK' /\ NoneCreates'
  <2>1. pools' \in [S!Pools -> PoolState] /\ main' \in Place /\ NoneCreates'
    BY <1>1, <1>2 DEF ServerInv, S!TypeOK, PoolState, Place, NoneCreates
  <2>. QED
    BY <1>1, <2>1 DEF ServerInv, S!TypeOK, PoolState, Place, NoneCreates, Request
<1>4. Busy' /\ S!Undisturbed' /\ S!InFlight' = {} /\ Using' = {}
  BY <1>1, <1>2
     DEF ServerInv, Busy, S!Undisturbed, S!InFlight, Using, S!Callers, S!At, Connection
<1>5. Counted' /\ Served'
  BY <1>1, <1>4, FS_EmptySet DEF Counted, Served
<1>6. PoolInPlace' /\ S!OnePool'
  <2>1. ASSUME NEW p \in S!Pools PROVE pools'[p] \notin {"open", "closing"}
    <3>1. CASE p = pool
      BY <1>1, <3>1 DEF ServerInv, S!TypeOK
    <3>2. CASE p # pool
      BY <1>1, <3>2 DEF ServerInv, S!TypeOK, S!OnePool
    <3>. QED
      BY <3>1, <3>2
  <2>. QED
    BY <1>1, <2>1 DEF PoolInPlace, S!OnePool
<1>. QED
  BY <1>3, <1>4, <1>5, <1>6 DEF ServerInv

LEMMA ServerInit ==
  ASSUME S!ServerAssumption, S!Init
  PROVE  ServerInv
<1>1. S!Idle \in Request /\ S!Idle.pc = "idle" /\ 0 \in 0..PoolSize
  BY IdleTyped DEF S!ServerAssumption
<1>2. S!TypeOK /\ NoneCreates
  BY <1>1 DEF S!Init, S!StartupCheck, S!TypeOK, NoneCreates, Request
<1>3. S!InFlight = {} /\ Using = {}
  BY <1>1 DEF S!Init, S!StartupCheck, S!InFlight, Using, S!Callers, S!At, Connection
<1>4. Counted /\ Served
  BY <1>3, FS_EmptySet DEF S!Init, Counted, Served
<1>5. PoolInPlace /\ S!OnePool /\ Busy /\ S!Undisturbed
  BY <1>1 DEF S!Init, S!StartupCheck, PoolInPlace, S!OnePool, Busy, S!Undisturbed
<1>. QED
  BY <1>2, <1>4, <1>5 DEF ServerInv

LEMMA ServerStep ==
  ASSUME S!ServerAssumption, ServerInv, [S!Next]_(S!vars)
  PROVE  ServerInv'
<1>1. CASE UNCHANGED S!vars
  <2>1. UNCHANGED <<main, stop_event, forced, should_exit, pool, pools, lent, request, refused,
                    db_faulty>>
    BY <1>1 DEF S!vars
  <2>2. S!TypeOK' /\ NoneCreates' /\ Served' /\ Busy' /\ Counted' /\ S!Undisturbed'
    BY <2>1 DEF ServerInv, S!TypeOK, NoneCreates, Served, S!InFlight, Busy, Counted, Using,
                S!Callers, S!At, S!Undisturbed
  <2>3. PoolInPlace' /\ S!OnePool'
    BY <2>1 DEF ServerInv, PoolInPlace, S!OnePool
  <2>. QED
    BY <2>2, <2>3 DEF ServerInv
<1>2. CASE \E x \in S!Callers : \/ S!FindPool(x) \/ S!CreatePool(x) \/ S!Verified(x)
                                 \/ S!ConnectFails(x) \/ S!Acquire(x)
  BY <1>2, AdminConnectKeeps, AcquireKeeps, CreatePoolKeeps, MainKeeps DEF S!Callers
<1>. QED
  BY <1>1, <1>2, ArriveKeeps, RefuseKeeps, StatementKeeps, MainKeeps, ServerEndsKeeps,
     PoolClosedKeeps DEF S!Next

(* The inductive invariant holds in every reachable state.                   *)
THEOREM ServerInvariance == S!Spec => []ServerInv
<1>1. S!Init => ServerInv
  BY ServerInit, ServingAssumption
<1>2. ServerInv /\ [S!Next]_(S!vars) => ServerInv'
  BY ServerStep, ServingAssumption
<1>. QED
  BY <1>1, <1>2, PTL DEF S!Spec

(* Every variable keeps its type: never more connections are lent than the   *)
(* pool has, nor any given back twice.                                       *)
THEOREM ServerTypeCorrect == S!Spec => []S!TypeOK
<1>1. ServerInv => S!TypeOK
  BY DEF ServerInv
<1>. QED
  BY <1>1, ServerInvariance, PTL

(* A pool that is open or closing is the one in place: connect(), called by  *)
(* main() and by any number of requests, never loses one.                    *)
THEOREM OnePoolHolds == S!Spec => []OnePool
<1>1. ServerInv => OnePool
  BY DEF ServerInv, OnePool
<1>. QED
  BY <1>1, ServerInvariance, PTL

(* Until a second signal forces the end, every request that was accepted     *)
(* finds a usable pool.                                                      *)
THEOREM UndisturbedHolds == S!Spec => []Undisturbed
<1>1. ServerInv => Undisturbed
  BY DEF ServerInv, Undisturbed
<1>. QED
  BY <1>1, ServerInvariance, PTL

-----------------------------------------------------------------------------
(* CacheClient.                                                              *)

USE CacheAssumption DEF CacheAssumption

(* The type invariant and DownIsBeingChecked are inductive together.       *)
CacheInv == TypeOK /\ DownIsBeingChecked

(* What a coroutine can be in. *)
LEMMA IdleOrHolding ==
  ASSUME TypeOK, NEW t \in Tasks
  PROVE  /\ op[t] = Idle \/ op[t].client \in Handles
         /\ op[t] # Idle => op[t] = [pc |-> op[t].pc, client |-> op[t].client]
         /\ op[t] = Idle <=> op[t].pc = "idle"
BY DEF TypeOK, Idle

LEMMA CacheTypeStep ==
  ASSUME TypeOK, [Next]_vars
  PROVE  TypeOK'
<1>1. ASSUME NEW t \in Tasks, Reuse(t) PROVE TypeOK'
  BY <1>1 DEF Reuse, Call, TypeOK
<1>2. ASSUME NEW t \in Tasks, Create(t) PROVE TypeOK'
  BY <1>2 DEF Create, Call, Unused, TypeOK
<1>3. ASSUME NEW t \in Tasks, Progress(t) PROVE TypeOK'
  <2>1. CASE Pinged(t)
    <3>1. op[t].client \in Handles
      BY <2>1, IdleOrHolding DEF Pinged, Idle
    <3>. QED
      BY <2>1, <3>1 DEF Pinged, Call, Return, TypeOK
  <2>2. CASE Fails(t)
    BY <2>2 DEF Fails, Return, TypeOK
  <2>3. CASE Completes(t)
    BY <2>3 DEF Completes, Return, TypeOK
  <2>4. CASE CloseEnds(t)
    BY <2>4 DEF CloseEnds, Closed, Return, TypeOK
  <2>. QED
    BY <1>3, <2>1, <2>2, <2>3, <2>4 DEF Progress
<1>4. ASSUME NEW t \in Tasks, CloseBegins(t) PROVE TypeOK'
  <2>1. CASE redis = NoClient
    BY <1>4, <2>1 DEF CloseBegins, Closed, TypeOK
  <2>2. CASE redis # NoClient
    <3>1. redis \in Handles
      BY <2>2 DEF TypeOK
    <3>. QED
      BY <1>4, <2>2, <3>1 DEF CloseBegins, Call, TypeOK
  <2>. QED
    BY <2>1, <2>2
<1>5. ASSUME NEW t \in Tasks, Interrupted(t) PROVE TypeOK'
  BY <1>5 DEF Interrupted, Return, TypeOK
<1>6. CASE Heal \/ UNCHANGED vars
  BY <1>6 DEF Heal, vars, TypeOK
<1>. QED
  BY <1>1, <1>2, <1>3, <1>4, <1>5, <1>6 DEF Next

(* The client object in _redis is being pinged, or the flag is up: each    *)
(* step that ends the ping raises the flag or drops the object.            *)
LEMMA CacheCheckedStep ==
  ASSUME TypeOK, DownIsBeingChecked, [Next]_vars
  PROVE  DownIsBeingChecked'
<1>1. ASSUME NEW t \in Tasks, Reuse(t) PROVE DownIsBeingChecked'
  <2>1. op[t] = Idle /\ op' = [op EXCEPT ![t] = [pc |-> "command", client |-> redis]]
    BY <1>1, IdleOrHolding DEF Reuse, Call
  <2>2. UNCHANGED <<redis, available, interrupted>>
    BY <1>1 DEF Reuse
  <2>. QED
    BY <2>1, <2>2 DEF DownIsBeingChecked, Idle, TypeOK
<1>2. ASSUME NEW t \in Tasks, Create(t) PROVE DownIsBeingChecked'
  <2>1. op'[t] = [pc |-> "ping", client |-> redis']
    BY <1>2 DEF Create, Call, TypeOK
  <2>. QED
    BY <2>1 DEF DownIsBeingChecked
<1>3. ASSUME NEW t \in Tasks, Pinged(t) PROVE DownIsBeingChecked'
  BY <1>3 DEF Pinged, DownIsBeingChecked
<1>4. ASSUME NEW t \in Tasks, Fails(t) \/ CloseEnds(t) PROVE DownIsBeingChecked'
  BY <1>4 DEF Fails, CloseEnds, Closed, DownIsBeingChecked
<1>5. ASSUME NEW t \in Tasks, Completes(t) PROVE DownIsBeingChecked'
  BY <1>5 DEF Completes, Return, DownIsBeingChecked, TypeOK
<1>6. ASSUME NEW t \in Tasks, CloseBegins(t) PROVE DownIsBeingChecked'
  <2>1. CASE redis = NoClient
    BY <1>6, <2>1 DEF CloseBegins, Closed, DownIsBeingChecked
  <2>2. CASE redis # NoClient
    <3>1. op[t] = Idle /\ op' = [op EXCEPT ![t] = [pc |-> "aclose", client |-> redis]]
          /\ UNCHANGED <<redis, available, interrupted>>
      BY <1>6, <2>2, IdleOrHolding DEF CloseBegins, Call
    <3>. QED
      BY <3>1 DEF DownIsBeingChecked, Idle, TypeOK
  <2>. QED
    BY <2>1, <2>2
<1>7. CASE Heal \/ UNCHANGED vars
  BY <1>7 DEF Heal, vars, DownIsBeingChecked
<1>8. ASSUME NEW t \in Tasks, Interrupted(t) PROVE DownIsBeingChecked'
  <2>1. CASE op[t].pc = "ping"
    BY <1>8, <2>1 DEF Interrupted, DownIsBeingChecked
  <2>2. CASE op[t].pc # "ping"
    <3>1. UNCHANGED <<redis, available>> /\ (interrupted' <=> interrupted)
      BY <1>8, <2>2 DEF Interrupted
    <3>2. \A u \in Tasks : op[u].pc = "ping" => op'[u] = op[u]
      BY <1>8, <2>2 DEF Interrupted, Return, TypeOK
    <3>. QED
      BY <3>1, <3>2 DEF DownIsBeingChecked
  <2>. QED
    BY <2>1, <2>2
<1>. QED
  BY <1>1, <1>2, <1>3, <1>4, <1>5, <1>6, <1>7, <1>8 DEF Next, Progress

(* The inductive invariant of the Redis client holds in every reachable     *)
(* state.                                                                   *)
THEOREM CacheInvariance == Spec => []CacheInv
<1>1. Init => CacheInv
  BY DEF Init, CacheInv, TypeOK, DownIsBeingChecked, Idle
<1>2. CacheInv /\ [Next]_vars => CacheInv'
  BY CacheTypeStep, CacheCheckedStep DEF CacheInv
<1>. QED
  BY <1>1, <1>2, PTL DEF Spec

-----------------------------------------------------------------------------
(* Every variable keeps its type: in particular no coroutine ever sends a  *)
(* command without a client object, though _redis may be emptied while it  *)
(* waits for the ping.                                                     *)
THEOREM CacheTypeCorrect == Spec => []TypeOK
BY CacheInvariance, PTL DEF CacheInv

(* Until a ping is cut short, a client that is in place and reported down  *)
(* is being pinged.                                                        *)
THEOREM DownIsBeingCheckedHolds == Spec => []DownIsBeingChecked
BY CacheInvariance, PTL DEF CacheInv

-----------------------------------------------------------------------------
(* Retrieval: sequences in an order.  Order is a set of pairs, and a set can *)
(* be arranged in it if it is strict, total and transitive there.            *)

Arranges(Order, U) ==
    /\ \A x \in U : <<x, x>> \notin Order
    /\ \A x, y \in U : x # y => <<x, y>> \in Order \/ <<y, x>> \in Order
    /\ \A x, y, z \in U : <<x, y>> \in Order /\ <<y, z>> \in Order => <<x, z>> \in Order

(* The place of an element: how many are not behind it.                      *)
UpTo(Order, U, x) == {y \in U : y = x \/ <<y, x>> \in Order}
Rank(Order, U) == [x \in U |-> Cardinality(UpTo(Order, U, x))]

LEMMA RankRises ==
  ASSUME NEW U, NEW Order, IsFiniteSet(U), Arranges(Order, U)
  PROVE  /\ Rank(Order, U) \in [U -> 1..Cardinality(U)]
         /\ \A x, y \in U : <<x, y>> \in Order => Rank(Order, U)[x] < Rank(Order, U)[y]
<1> DEFINE Low(x) == UpTo(Order, U, x)
<1>1. ASSUME NEW x \in U
      PROVE  /\ IsFiniteSet(Low(x)) /\ Cardinality(Low(x)) \in 1..Cardinality(U)
  <2>1. Low(x) \in SUBSET U /\ x \in Low(x)
    BY DEF UpTo
  <2> HIDE DEF Low
  <2>2. IsFiniteSet(Low(x)) /\ Cardinality(Low(x)) <= Cardinality(U)
    BY <2>1, FS_Subset
  <2>3. Cardinality(Low(x)) \in Nat /\ Cardinality(U) \in Nat
    BY <2>2, FS_CardinalityType
  <2>4. Cardinality(Low(x)) # 0
    BY <2>1, <2>2, FS_EmptySet
  <2>. QED
    BY <2>2, <2>3, <2>4
<1>2. ASSUME NEW x \in U, NEW y \in U, <<x, y>> \in Order
      PROVE  Cardinality(Low(x)) < Cardinality(Low(y))
  <2>1. y \in Low(y)
    BY DEF UpTo
  <2>2. y \notin Low(x)
    <3>1. y # x /\ <<y, x>> \notin Order
      BY <1>2 DEF Arranges
    <3>. QED
      BY <3>1 DEF UpTo
  <2>3. \A z \in Low(x) : z \in Low(y)
    BY <1>2 DEF Arranges, UpTo
  <2> HIDE DEF Low
  <2>4. Low(x) \in SUBSET Low(y) /\ Low(x) # Low(y)
    BY <2>1, <2>2, <2>3
  <2>5. /\ Cardinality(Low(x)) <= Cardinality(Low(y))
        /\ Cardinality(Low(x)) # Cardinality(Low(y))
    BY <1>1, <2>4, FS_Subset
  <2>6. Cardinality(Low(x)) \in Nat /\ Cardinality(Low(y)) \in Nat
    BY <1>1, FS_CardinalityType
  <2>. QED
    BY <2>5, <2>6
<1>. QED
  BY <1>1, <1>2 DEF Rank

(* What Arranged() returns: all of them, each once, in the order.            *)
LEMMA ArrangedInOrder ==
  ASSUME NEW U, NEW Order, IsFiniteSet(U), Arranges(Order, U)
  PROVE  LET s == R!Arranged(U, Order)
             n == Cardinality(U)
         IN  /\ n \in Nat /\ s \in [1..n -> U]
             /\ \A i, j \in 1..n : i < j => <<s[i], s[j]>> \in Order
             /\ \A x \in U : \E i \in 1..n : s[i] = x
<1> DEFINE n == Cardinality(U)
           rank == Rank(Order, U)
           InOrder(r) == \A i, j \in DOMAIN r : i < j => <<r[i], r[j]>> \in Order
           s == R!Arranged(U, Order)
<1>1. n \in Nat
  BY FS_CardinalityType
<1>2. rank \in [U -> 1..n] /\ \A x, y \in U : <<x, y>> \in Order => rank[x] < rank[y]
  BY RankRises
<1>3. IsFiniteSet(1..n) /\ Cardinality(1..n) = n
  BY <1>1, FS_Interval
<1> HIDE DEF n, rank, s
<1>5. \A x, y \in U : rank[x] = rank[y] => x = y
  <2>1. ASSUME NEW x \in U, NEW y \in U, rank[x] = rank[y] PROVE x = y
    <3>1. rank[x] \in Nat /\ rank[y] \in Nat
      BY <1>1, <1>2
    <3>2. <<x, y>> \notin Order /\ <<y, x>> \notin Order
      BY <1>2, <2>1, <3>1
    <3>. QED
      BY <3>2 DEF Arranges
  <2>. QED
    BY <2>1
<1>6. rank \in Surjection(U, 1..n)
  <2>1. rank \in Injection(U, 1..n)
    BY <1>2, <1>5 DEF Injection, IsInjective
  <2>. QED
    BY <1>3, <2>1, FS_Injection DEF n
<1> DEFINE t == [i \in 1..n |-> CHOOSE x \in U : rank[x] = i]
<1>7. t \in [1..n -> U] /\ \A i \in 1..n : rank[t[i]] = i
  <2>1. \A i \in 1..n : \E x \in U : rank[x] = i
    BY <1>6 DEF Surjection
  <2>. QED
    BY <2>1
<1> HIDE DEF t
<1>8. InOrder(t)
  <2>1. ASSUME NEW i \in 1..n, NEW j \in 1..n, i < j PROVE <<t[i], t[j]>> \in Order
    <3>1. t[i] \in U /\ t[j] \in U /\ rank[t[i]] = i /\ rank[t[j]] = j
      BY <1>7
    <3>2. i \in Nat /\ j \in Nat
      BY <1>1
    <3>3. t[i] # t[j]
      BY <2>1, <3>1, <3>2
    <3>4. <<t[j], t[i]>> \notin Order
      <4>1. <<t[j], t[i]>> \in Order => j < i
        BY <1>2, <3>1
      <4>. QED
        BY <2>1, <3>2, <4>1
    <3>. QED
      BY <3>1, <3>3, <3>4 DEF Arranges
  <2>2. DOMAIN t = 1..n
    BY <1>7
  <2>. QED
    BY <2>1, <2>2
<1> HIDE DEF InOrder
<1>9. s \in [1..n -> U] /\ InOrder(s)
  <2>1. s = CHOOSE r \in [1..n -> U] : InOrder(r)
    <3>1. R!Cardinality(U) = n
      BY DEF R!Cardinality, Cardinality, n
    <3>. QED
      BY <3>1 DEF s, R!Arranged, InOrder
  <2>2. \E r \in [1..n -> U] : InOrder(r)
    BY <1>7, <1>8
  <2>. QED
    BY <2>1, <2>2
<1>10. \A i, j \in 1..n : i < j => <<s[i], s[j]>> \in Order
  BY <1>9 DEF InOrder
<1>11. \A i, j \in 1..n : s[i] = s[j] => i = j
  <2>1. ASSUME NEW i \in 1..n, NEW j \in 1..n, i < j PROVE s[i] # s[j]
    <3>1. s[i] \in U /\ s[j] \in U /\ <<s[i], s[j]>> \in Order
      BY <1>9, <1>10, <2>1
    <3>. QED
      BY <3>1 DEF Arranges
  <2>. QED
    BY <1>1, <2>1
<1>12. s \in Surjection(1..n, U)
  <2>1. s \in Injection(1..n, U)
    BY <1>9, <1>11 DEF Injection, IsInjective
  <2>. QED
    BY <1>3, <2>1, FS_Injection DEF n
<1>13. \A x \in U : \E i \in 1..n : s[i] = x
  BY <1>12 DEF Surjection
<1>. QED
  BY <1>1, <1>9, <1>10, <1>13 DEF n, s

(* The first of them.                                                        *)
LEMMA FirstArranged ==
  ASSUME NEW U, NEW Order, IsFiniteSet(U), Arranges(Order, U), U # {}
  PROVE  LET first == R!Arranged(U, Order)[1]
         IN  first \in U /\ \A x \in U : x = first \/ <<first, x>> \in Order
<1> DEFINE s == R!Arranged(U, Order)
           n == Cardinality(U)
<1>1. /\ n \in Nat /\ s \in [1..n -> U]
      /\ \A i, j \in 1..n : i < j => <<s[i], s[j]>> \in Order
      /\ \A x \in U : \E i \in 1..n : s[i] = x
  BY ArrangedInOrder
<1> HIDE DEF s, n
<1>2. 1 \in 1..n
  <2>1. PICK x \in U : TRUE
    OBVIOUS
  <2>2. PICK i \in 1..n : s[i] = x
    BY <1>1
  <2>. QED
    BY <1>1, <2>2
<1>3. ASSUME NEW x \in U PROVE x = s[1] \/ <<s[1], x>> \in Order
  <2>1. PICK i \in 1..n : s[i] = x
    BY <1>1
  <2>2. i = 1 \/ 1 < i
    BY <1>1, <2>1
  <2>. QED
    BY <1>1, <1>2, <2>1, <2>2
<1>. QED
  BY <1>1, <1>2, <1>3 DEF s

(* Numbers are arranged, upwards and downwards.                              *)
LEMMA NumbersArranged ==
  ASSUME NEW U, U \subseteq Nat, IsFiniteSet(U)
  PROVE  /\ Arranges({e \in U \X U : e[1] < e[2]}, U)
         /\ U # {} => R!Max(U) \in U
<1> DEFINE Up == {e \in U \X U : e[1] < e[2]}
           Down == {e \in U \X U : e[2] < e[1]}
<1>1. /\ \A i, j \in U : <<i, j>> \in Up <=> i < j
      /\ \A i, j \in U : <<i, j>> \in Down <=> j < i
  OBVIOUS
<1> HIDE DEF Up, Down
<1>2. Arranges(Up, U) /\ Arranges(Down, U)
  BY <1>1 DEF Arranges
<1>3. ASSUME U # {} PROVE R!Max(U) \in U
  <2> DEFINE top == R!Arranged(U, Down)[1]
  <2>1. top \in U /\ \A x \in U : x = top \/ <<top, x>> \in Down
    BY <1>2, <1>3, FirstArranged
  <2> HIDE DEF top
  <2>2. \A x \in U : x \in Nat
    OBVIOUS
  <2>3. ASSUME NEW x \in U PROVE top >= x
    <3>1. x \in Nat /\ top \in Nat
      BY <2>1, <2>2
    <3>2. x = top \/ x < top
      BY <1>1, <2>1
    <3>. QED
      BY <3>1, <3>2
  <2>. QED
    BY <2>1, <2>3 DEF R!Max
<1>. QED
  BY <1>2, <1>3 DEF Up

(* The ranking of chunks.                                                    *)

Posed == asked \in Questions /\ corpus \in Corpora[asked.kind]
Strong(p) == R!Passes(corpus[p].score, asked.score_threshold)

LEMMA Posing ==
  ASSUME Posed
  PROVE  /\ R!Points \subseteq Nat /\ IsFiniteSet(R!Points)
         /\ \A p \in R!Points : /\ corpus[p].score \in Int
                               /\ corpus[p].section \in Int /\ corpus[p].index \in Int
                               /\ corpus[p].text \in Seq(Letters)
         /\ asked.max_results \in Nat \ {0} /\ asked.max_length \in Nat
         /\ asked.score_threshold \in Int \cup {None}
<1>1. R!IsFiniteSet(DOMAIN corpus) => IsFiniteSet(DOMAIN corpus)
  BY DEF R!IsFiniteSet, IsFiniteSet
<1>. QED
  BY <1>1, ServingAssumption DEF Posed, R!RetrievalAssumption, R!Points

LEMMA AheadIsAnOrder ==
  ASSUME Posed, NEW p \in R!Points, NEW q \in R!Points
  PROVE  /\ ~R!Ahead(p, p)
         /\ R!Ahead(p, q) => ~R!Ahead(q, p) /\ p # q
         /\ p # q => R!Ahead(p, q) \/ R!Ahead(q, p)
         /\ \A r \in R!Points : R!Ahead(p, q) /\ R!Ahead(q, r) => R!Ahead(p, r)
         /\ R!Ahead(p, q) /\ Strong(q) => Strong(p)
  BY Posing DEF R!Ahead, Strong, R!Passes

LEMMA RankedIsArranged ==
  ASSUME Posed, NEW U \in SUBSET R!Points
  PROVE  LET Order == {e \in U \X U : R!Ahead(e[1], e[2])}
         IN  /\ IsFiniteSet(U) /\ Arranges(Order, U)
             /\ R!Ranked(U) = R!Arranged(U, Order)
             /\ \A x, y \in U : <<x, y>> \in Order <=> R!Ahead(x, y)
<1> DEFINE Order == {e \in U \X U : R!Ahead(e[1], e[2])}
<1>1. IsFiniteSet(U)
  BY Posing, FS_Subset
<1>2. R!Ranked(U) = R!Arranged(U, Order)
  BY DEF R!Ranked
<1>3. \A x, y \in U : <<x, y>> \in Order <=> R!Ahead(x, y)
  OBVIOUS
<1> HIDE DEF Order
<1>4. Arranges(Order, U)
  <2>1. \A x \in U : <<x, x>> \notin Order
    BY <1>3, AheadIsAnOrder
  <2>2. \A x, y \in U : x # y => <<x, y>> \in Order \/ <<y, x>> \in Order
    BY <1>3, AheadIsAnOrder
  <2>3. \A x, y, z \in U : <<x, y>> \in Order /\ <<y, z>> \in Order => <<x, z>> \in Order
    <3>1. \A x, y, z \in U : R!Ahead(x, y) /\ R!Ahead(y, z) => R!Ahead(x, z)
      BY AheadIsAnOrder
    <3>. QED
      BY <1>3, <3>1
  <2>. QED
    BY <2>1, <2>2, <2>3 DEF Arranges
<1>. QED
  BY <1>1, <1>2, <1>3, <1>4 DEF Order

(* Every chunk of U has its rank, ...                                        *)
LEMMA RankedInOrder ==
  ASSUME Posed, NEW U \in SUBSET R!Points
  PROVE  LET s == R!Ranked(U)
             n == Cardinality(U)
         IN  /\ n \in Nat /\ s \in [1..n -> U]
             /\ \A i, j \in 1..n : i < j => R!Ahead(s[i], s[j])
             /\ \A x \in U : \E i \in 1..n : s[i] = x
<1> DEFINE Order == {e \in U \X U : R!Ahead(e[1], e[2])}
           s == R!Ranked(U)
           n == Cardinality(U)
<1>1. /\ IsFiniteSet(U) /\ Arranges(Order, U) /\ s = R!Arranged(U, Order)
      /\ \A x, y \in U : <<x, y>> \in Order <=> R!Ahead(x, y)
  BY RankedIsArranged
<1> HIDE DEF Order, s
<1>2. /\ n \in Nat /\ s \in [1..n -> U]
      /\ \A i, j \in 1..n : i < j => <<s[i], s[j]>> \in Order
      /\ \A x \in U : \E i \in 1..n : s[i] = x
  BY <1>1, ArrangedInOrder
<1> HIDE DEF n
<1>3. \A i, j \in 1..n : i < j => R!Ahead(s[i], s[j])
  BY <1>1, <1>2
<1>. QED
  BY <1>2, <1>3 DEF s, n

(* ... and the best is ahead of all others.                                  *)
LEMMA BestIsAhead ==
  ASSUME Posed, NEW U \in SUBSET R!Points, U # {}
  PROVE  /\ R!Best(U) \in U
         /\ \A x \in U : x = R!Best(U) \/ R!Ahead(R!Best(U), x)
<1> DEFINE Order == {e \in U \X U : R!Ahead(e[1], e[2])}
<1>1. /\ IsFiniteSet(U) /\ Arranges(Order, U) /\ R!Ranked(U) = R!Arranged(U, Order)
      /\ \A x, y \in U : <<x, y>> \in Order <=> R!Ahead(x, y)
  BY RankedIsArranged
<1> HIDE DEF Order
<1>2. R!Best(U) \in U /\ \A x \in U : x = R!Best(U) \/ <<R!Best(U), x>> \in Order
  BY <1>1, FirstArranged DEF R!Best
<1>. QED
  BY <1>1, <1>2

(* What the store answers is the beginning of the ranking, and a page of it  *)
(* the chunks of max_results ranks.                                          *)
Chosen == R!Selected(R!MergedFilter)
Ranking == R!Ranked(Chosen)
Last == Cardinality(Chosen)
OnPage == {Ranking[i] : i \in {j \in 1..Last : offset < j /\ j <= offset + asked.max_results}}

LEMMA RankingInOrder ==
  ASSUME Posed
  PROVE  /\ Chosen \in SUBSET R!Points
         /\ Last \in Nat /\ Ranking \in [1..Last -> Chosen]
         /\ \A i, j \in 1..Last : i < j => R!Ahead(Ranking[i], Ranking[j])
         /\ \A x \in Chosen : \E i \in 1..Last : Ranking[i] = x
<1>1. Chosen \in SUBSET R!Points
  BY DEF Chosen, R!Selected
<1>. QED
  BY <1>1, RankedInOrder DEF Ranking, Last

LEMMA SearchIsABeginning ==
  ASSUME Posed, NEW n \in Nat
  PROVE  LET k == IF n < Last THEN n ELSE Last
         IN  /\ k \in Nat /\ R!Search(n) = [i \in 1..k |-> Ranking[i]]
             /\ R!Search(n) \in Seq(Chosen) /\ R!Len(R!Search(n)) = k
<1> DEFINE k == IF n < Last THEN n ELSE Last
<1>1. Last \in Nat /\ Ranking \in [1..Last -> Chosen]
  BY RankingInOrder
<1>2. k \in Nat /\ (1..Last) \cap 1..n = 1..k
  BY <1>1
<1>3. R!Search(n) = [i \in 1..k |-> Ranking[i]]
  BY <1>1, <1>2 DEF R!Search, R!First, Ranking, Chosen
<1>4. \A i \in 1..k : Ranking[i] \in Chosen
  BY <1>1
<1> HIDE DEF k
<1>. QED
  BY <1>2, <1>3, <1>4 DEF k

LEMMA PageOfRanking ==
  ASSUME Posed, offset \in Nat
  PROVE  R!ToSet(R!PageChunks) = OnPage
<1> DEFINE m == asked.max_results + offset
           k == IF m < Last THEN m ELSE Last
           hits == R!Search(m)
<1>1. m \in Nat /\ asked.max_results \in Nat \ {0} /\ Last \in Nat
  BY Posing, RankingInOrder
<1>2. /\ k \in Nat /\ hits = [i \in 1..k |-> Ranking[i]]
      /\ hits \in Seq(Chosen) /\ R!Len(hits) = k
  BY <1>1, SearchIsABeginning
<1>3. OnPage = {Ranking[i] : i \in offset + 1 .. k}
  BY <1>1 DEF OnPage
<1> HIDE DEF hits, k
<1>4. CASE offset < k
  <2>1. R!PageChunks = SubSeq(hits, offset + 1, k)
    BY <1>2, <1>4 DEF R!PageChunks, R!Limit, hits
  <2>2. /\ DOMAIN SubSeq(hits, offset + 1, k) = 1 .. k - offset
        /\ \A i \in 1 .. k - offset : SubSeq(hits, offset + 1, k)[i] = Ranking[i + offset]
    BY <1>2, <1>4
  <2> DEFINE page == SubSeq(hits, offset + 1, k)
  <2> HIDE DEF page
  <2>3. {page[i] : i \in 1 .. k - offset} = {Ranking[i] : i \in offset + 1 .. k}
    <3>1. \A i \in 1 .. k - offset : i + offset \in offset + 1 .. k /\ page[i] = Ranking[i + offset]
      BY <1>2, <2>2 DEF page
    <3>2. \A i \in offset + 1 .. k : i - offset \in 1 .. k - offset /\ (i - offset) + offset = i
      BY <1>2
    <3>. QED
      BY <3>1, <3>2
  <2>. QED
    BY <1>3, <2>1, <2>2, <2>3 DEF R!ToSet, page
<1>5. CASE ~(offset < k)
  <2>1. R!PageChunks = <<>>
    BY <1>2, <1>5 DEF R!PageChunks, R!Limit, hits
  <2>2. offset + 1 .. k = {}
    BY <1>2, <1>5
  <2>. QED
    BY <1>3, <2>1, <2>2 DEF R!ToSet
<1>. QED
  BY <1>4, <1>5

(* The results of a page: chunks of it that pass, among them everyone that   *)
(* is the best of its document there, and none only if no chunk passes.      *)
LEMMA ResultsOfPage ==
  ASSUME Posed, offset \in Nat
  PROVE  LET shown == R!Results(R!PageChunks)
         IN  /\ OnPage \in SUBSET Chosen /\ shown \in SUBSET OnPage
             /\ \A p \in OnPage :
                   /\ Strong(p)
                   /\ \A q \in OnPage : corpus[q].doc = corpus[p].doc => q = p \/ R!Ahead(p, q)
                   => p \in shown
             /\ shown = {} => \A p \in OnPage : ~Strong(p)
<1> DEFINE shown == R!Results(R!PageChunks)
           Of(d) == {p \in OnPage : corpus[p].doc = d}
<1>1. OnPage \in SUBSET Chosen /\ Chosen \in SUBSET R!Points
  BY RankingInOrder DEF OnPage
<1>2. shown = {r \in {R!Best(Of(d)) : d \in {corpus[p].doc : p \in OnPage}} : Strong(r)}
  BY PageOfRanking DEF R!Results, Strong
<1> HIDE DEF shown
<1>3. ASSUME NEW p \in OnPage
      PROVE  /\ R!Best(Of(corpus[p].doc)) \in Of(corpus[p].doc)
             /\ \A x \in Of(corpus[p].doc) : \/ x = R!Best(Of(corpus[p].doc))
                                             \/ R!Ahead(R!Best(Of(corpus[p].doc)), x)
  <2>1. p \in Of(corpus[p].doc) /\ Of(corpus[p].doc) \in SUBSET R!Points
    BY <1>1
  <2>. QED
    BY <2>1, BestIsAhead
<1>4. shown \in SUBSET OnPage
  <2>1. ASSUME NEW r \in shown PROVE r \in OnPage
    <3>1. PICK p \in OnPage : r = R!Best(Of(corpus[p].doc))
      BY <1>2
    <3>. QED
      BY <1>3, <3>1
  <2>. QED
    BY <2>1
<1>5. ASSUME NEW p \in OnPage, Strong(p),
             \A q \in OnPage : corpus[q].doc = corpus[p].doc => q = p \/ R!Ahead(p, q)
      PROVE  p \in shown
  <2> DEFINE b == R!Best(Of(corpus[p].doc))
  <2>1. b \in OnPage /\ corpus[b].doc = corpus[p].doc /\ (p = b \/ R!Ahead(b, p))
    BY <1>3
  <2> HIDE DEF b
  <2>2. p = b
    <3>1. b = p \/ R!Ahead(p, b)
      BY <1>5, <2>1
    <3>. QED
      BY <1>1, <2>1, <3>1, AheadIsAnOrder
  <2>. QED
    BY <1>2, <1>5, <2>2 DEF b
<1>6. ASSUME shown = {}, NEW p \in OnPage PROVE ~Strong(p)
  <2> DEFINE b == R!Best(Of(corpus[p].doc))
  <2>1. b \in OnPage /\ (p = b \/ R!Ahead(b, p))
    BY <1>3
  <2>2. ~Strong(b)
    BY <1>2, <1>6
  <2> HIDE DEF b
  <2>. QED
    BY <1>1, <2>1, <2>2, AheadIsAnOrder
<1>. QED
  BY <1>1, <1>4, <1>5, <1>6 DEF shown

-----------------------------------------------------------------------------
(* The inductive invariant of Retrieval.                                     *)

Page == [results : SUBSET Chosen, total_count : Nat]
FirstOfItsDocument(i) ==
    \A j \in 1..Last : j < i => corpus[Ranking[j]].doc # corpus[Ranking[i]].doc

(* What the pages so far covered of the ranking has been shown, ...          *)
ShownSoFar ==
    \A i \in 1..Last :
        i <= offset /\ Strong(Ranking[i]) /\ FirstOfItsDocument(i) => Ranking[i] \in R!Shown

(* ... and after an empty page nothing is left that would pass.              *)
NothingLeft ==
    pages # <<>> /\ pages[R!Len(pages)].results = {} =>
        \A i \in 1..Last : Strong(Ranking[i]) => i <= offset

(* Citations for a query are made of what was selected.                      *)
CitedFromChosen ==
    asked.query => \A i \in DOMAIN citations : citations[i].sources \subseteq Chosen

PagingInv ==
    /\ Posed /\ offset \in Nat /\ pages \in Seq(Page)
    /\ ShownSoFar /\ NothingLeft /\ CitedFromChosen

(* The merged filter selects what the question is about: no condition of the *)
(* context, the document or the dates is lost, whichever of them there are.  *)
LEMMA MergeSelects == Chosen = {p \in R!Points : R!Eligible(p)}
<1> DEFINE filter == R!MergedFilter
           past(p) == corpus[p].not_actual_since # None /\ ~(corpus[p].not_actual_since > Today)
<1>1. filter.must = R!Conditions /\ filter.should = R!DefaultFilter.should
  BY DEF R!MergedFilter, R!DefaultFilter
<1> HIDE DEF filter
<1>2. ASSUME NEW p \in R!Points
      PROVE  (\A c \in R!Conditions : p \in c)
             <=> /\ asked.kind = "detail" => corpus[p].doc = asked.doc
                 /\ R!region_id # None => corpus[p].region_id = R!region_id
  BY DEF R!Conditions, R!FieldCondition
<1>3. ASSUME NEW p \in R!Points
      PROVE  (\E c \in R!DefaultFilter.should : p \in c) <=> ~past(p)
  BY DEF R!DefaultFilter, R!IsEmptyCondition
<1>4. R!DefaultFilter.should # {}
  BY DEF R!DefaultFilter
<1>5. ASSUME NEW p \in R!Points
      PROVE  R!Eligible(p) <=> /\ ~past(p)
                               /\ asked.kind = "detail" => corpus[p].doc = asked.doc
                               /\ R!region_id # None => corpus[p].region_id = R!region_id
  BY DEF R!Eligible, R!region_id
<1> HIDE DEF past
<1>. QED
  BY <1>1, <1>2, <1>3, <1>4, <1>5 DEF Chosen, R!Selected, filter

LEMMA PagingInvImpliesOnlySelected == PagingInv => R!OnlySelected
<1> SUFFICES ASSUME PagingInv PROVE R!OnlySelected
  OBVIOUS
<1>1. \A i \in DOMAIN pages : pages[i] \in Page
  BY DEF PagingInv
<1>2. \A page \in Page : page.results \subseteq Chosen
  BY DEF Page
<1>3. R!Shown \subseteq Chosen
  BY <1>1, <1>2 DEF R!Shown
<1>4. asked.query => UNION {citations[i].sources : i \in DOMAIN citations} \subseteq Chosen
  BY DEF PagingInv, CitedFromChosen
<1>5. \A p \in Chosen : R!Eligible(p)
  BY MergeSelects
<1>. QED
  BY <1>3, <1>4, <1>5 DEF R!OnlySelected

LEMMA PagingInvImpliesNothingSkipped == PagingInv => R!NothingSkipped
<1> SUFFICES ASSUME PagingInv, pages # <<>>, pages[R!Len(pages)].results = {},
                    NEW d \in R!Docs, R!Sought(d) # {}
             PROVE  R!Best(R!Sought(d)) \in R!Shown
  BY DEF R!NothingSkipped
<1> DEFINE b == R!Best(R!Sought(d))
<1>1. /\ \A p : p \in R!Sought(d) <=> p \in Chosen /\ corpus[p].doc = d /\ Strong(p)
      /\ R!Sought(d) \in SUBSET R!Points
  BY MergeSelects DEF R!Sought, Strong
<1>2. Posed
  BY DEF PagingInv
<1>3. b \in R!Sought(d) /\ \A x \in R!Sought(d) : x = b \/ R!Ahead(b, x)
  BY <1>1, <1>2, BestIsAhead
<1> HIDE DEF b
<1>4. /\ Last \in Nat /\ Ranking \in [1..Last -> Chosen] /\ Chosen \in SUBSET R!Points
      /\ \A i, j \in 1..Last : i < j => R!Ahead(Ranking[i], Ranking[j])
      /\ \A x \in Chosen : \E i \in 1..Last : Ranking[i] = x
  BY <1>2, RankingInOrder
<1>5. PICK i \in 1..Last : Ranking[i] = b
  BY <1>1, <1>3, <1>4
<1>6. FirstOfItsDocument(i)
  <2>1. ASSUME NEW j \in 1..Last, j < i, corpus[Ranking[j]].doc = corpus[Ranking[i]].doc
        PROVE  FALSE
    <3>1. Ranking[j] \in Chosen /\ R!Ahead(Ranking[j], b)
      BY <1>4, <1>5, <2>1
    <3>2. Ranking[j] \in R!Sought(d)
      BY <1>1, <1>2, <1>3, <1>4, <1>5, <2>1, <3>1, AheadIsAnOrder
    <3>. QED
      BY <1>1, <1>2, <1>3, <3>1, <3>2, AheadIsAnOrder
  <2>. QED
    BY <2>1 DEF FirstOfItsDocument
<1>7. Strong(Ranking[i])
  BY <1>1, <1>3, <1>5
<1>8. i <= offset
  BY <1>7 DEF PagingInv, NothingLeft
<1>. QED
  BY <1>5, <1>6, <1>7, <1>8 DEF PagingInv, ShownSoFar, b

LEMMA Unmoved ==
  ASSUME UNCHANGED <<corpus, asked>>
  PROVE  /\ Posed' <=> Posed
         /\ Chosen' = Chosen /\ Ranking' = Ranking /\ Last' = Last
         /\ \A p : Strong(p)' <=> Strong(p)
<1>1. Chosen' = Chosen
  BY DEF Chosen, R!Points, R!Selected, R!MergedFilter, R!DefaultFilter, R!Conditions, R!region_id,
         R!FieldCondition, R!IsEmptyCondition
<1>2. Ranking' = Ranking
  BY <1>1 DEF Ranking, R!Ranked, R!Ahead
<1>. QED
  BY <1>1, <1>2 DEF Posed, Last, Strong, R!Passes

LEMMA RetrievalInit == R!Init => PagingInv
<1> SUFFICES ASSUME R!Init PROVE PagingInv
  OBVIOUS
<1>1. Posed
  BY DEF R!Init, Posed
<1>2. Last \in Nat
  BY <1>1, RankingInOrder
<1>3. pages = <<>> /\ citations = <<>> /\ offset = 0
  BY DEF R!Init
<1>4. ShownSoFar
  BY <1>2, <1>3 DEF ShownSoFar
<1>5. NothingLeft /\ CitedFromChosen
  BY <1>3 DEF NothingLeft, CitedFromChosen
<1>. QED
  BY <1>1, <1>3, <1>4, <1>5 DEF PagingInv

LEMMA NextPageStep == PagingInv /\ R!NextPage => PagingInv'
<1> SUFFICES ASSUME PagingInv, R!NextPage PROVE PagingInv'
  OBVIOUS
<1> DEFINE shown == R!Results(R!PageChunks)
           page == [results |-> shown, total_count |-> R!Cardinality(shown)]
<1>1. /\ Posed /\ offset \in Nat /\ pages \in Seq(Page)
      /\ ShownSoFar /\ NothingLeft /\ CitedFromChosen
  BY DEF PagingInv
<1>2. /\ asked.max_results \in Nat \ {0}
      /\ Last \in Nat /\ Ranking \in [1..Last -> Chosen] /\ Chosen \in SUBSET R!Points
      /\ \A i, j \in 1..Last : i < j => R!Ahead(Ranking[i], Ranking[j])
  BY <1>1, Posing, RankingInOrder
<1>3. /\ Posed' /\ Chosen' = Chosen /\ Ranking' = Ranking /\ Last' = Last
      /\ \A p : Strong(p)' <=> Strong(p)
  BY <1>1, Unmoved DEF R!NextPage
<1>4. /\ corpus' = corpus /\ asked' = asked /\ citations' = citations
      /\ offset' = offset + asked.max_results /\ pages' = Append(pages, page)
  BY DEF R!NextPage
<1>5. /\ OnPage \in SUBSET Chosen /\ shown \in SUBSET OnPage
      /\ \A p \in OnPage :
            /\ Strong(p)
            /\ \A q \in OnPage : corpus[q].doc = corpus[p].doc => q = p \/ R!Ahead(p, q)
            => p \in shown
      /\ shown = {} => \A p \in OnPage : ~Strong(p)
  BY <1>1, ResultsOfPage
<1>6. page \in Page
  <2>1. IsFiniteSet(shown)
    BY <1>1, <1>2, <1>5, Posing, FS_Subset
  <2>2. R!Cardinality(shown) = Cardinality(shown)
    BY DEF R!Cardinality, Cardinality
  <2> HIDE DEF shown
  <2>. QED
    BY <1>5, <2>1, <2>2, FS_CardinalityType DEF Page
<1> HIDE DEF shown
<1>7. /\ pages' \in Seq(Page) /\ Len(pages') = Len(pages) + 1 /\ Len(pages) \in Nat
      /\ \A i \in 1..Len(pages) : pages'[i] = pages[i]
      /\ pages'[Len(pages) + 1] = page /\ DOMAIN pages' = 1 .. Len(pages) + 1
  <2> HIDE DEF page
  <2>. QED
    BY <1>1, <1>4, <1>6, AppendProperties
<1>8. offset' \in Nat /\ pages' \in Seq(Page)'
  BY <1>1, <1>2, <1>3, <1>4, <1>7 DEF Page
<1>9. R!Shown \subseteq R!Shown' /\ shown \subseteq R!Shown'
  <2>1. DOMAIN pages = 1..Len(pages)
    BY <1>1
  <2>2. page.results = shown
    OBVIOUS
  <2> HIDE DEF page
  <2>. QED
    BY <1>7, <2>1, <2>2 DEF R!Shown
<1>10. ShownSoFar'
  <2>1. ASSUME NEW i \in 1..Last, i <= offset + asked.max_results, Strong(Ranking[i]),
               FirstOfItsDocument(i)
        PROVE  Ranking[i] \in R!Shown'
    <3>1. CASE i <= offset
      BY <1>1, <1>9, <2>1, <3>1 DEF ShownSoFar
    <3>2. CASE offset < i
      <4>1. Ranking[i] \in OnPage
        BY <2>1, <3>2 DEF OnPage
      <4>2. ASSUME NEW q \in OnPage, corpus[q].doc = corpus[Ranking[i]].doc, q # Ranking[i]
            PROVE  R!Ahead(Ranking[i], q)
        <5>1. PICK j \in 1..Last : q = Ranking[j]
          BY DEF OnPage
        <5>2. ~(j < i) /\ i # j
          BY <2>1, <4>2, <5>1 DEF FirstOfItsDocument
        <5>3. i < j
          BY <1>2, <5>2
        <5>. QED
          BY <1>2, <5>1, <5>3
      <4>. QED
        BY <1>5, <1>9, <2>1, <4>1, <4>2
    <3>. QED
      BY <1>1, <1>2, <3>1, <3>2
  <2>2. \A i \in 1..Last : FirstOfItsDocument(i)' <=> FirstOfItsDocument(i)
    BY <1>3, <1>4 DEF FirstOfItsDocument
  <2>. QED
    BY <1>3, <1>4, <2>1, <2>2 DEF ShownSoFar
<1>11. NothingLeft'
  <2>1. ASSUME shown = {}, NEW i \in 1..Last, Strong(Ranking[i])
        PROVE  i <= offset + asked.max_results
    <3>1. SUFFICES ASSUME offset + asked.max_results < i PROVE FALSE
      BY <1>1, <1>2
    <3> DEFINE k == offset + 1
    <3>2. k \in 1..Last /\ k < i /\ offset < k /\ k <= offset + asked.max_results
      BY <1>1, <1>2, <3>1
    <3>3. Ranking[k] \in OnPage
      BY <3>2 DEF OnPage
    <3>4. R!Ahead(Ranking[k], Ranking[i]) /\ Ranking[k] \in R!Points /\ Ranking[i] \in R!Points
      BY <1>2, <3>2
    <3>5. Strong(Ranking[k])
      BY <1>1, <2>1, <3>4, AheadIsAnOrder
    <3>. QED
      BY <1>5, <2>1, <3>3, <3>5
  <2>2. pages'[R!Len(pages')].results = shown
    BY <1>7
  <2>. QED
    BY <1>3, <1>4, <2>1, <2>2 DEF NothingLeft
<1>12. CitedFromChosen'
  BY <1>1, <1>3, <1>4 DEF CitedFromChosen
<1>. QED
  BY <1>3, <1>8, <1>10, <1>11, <1>12 DEF PagingInv

-----------------------------------------------------------------------------
(* Retrieval: what citations say.  The provers know no induction, but that   *)
(* every set of numbers has a least one serves instead: the first number     *)
(* missing in H would have a predecessor there.                              *)
LEMMA LeastNumber ==
  ASSUME NEW U, U \subseteq Nat, IsFiniteSet(U), U # {}
  PROVE  \E m \in U : \A x \in U : m <= x
<1> DEFINE Up == {e \in U \X U : e[1] < e[2]}
           m == R!Arranged(U, Up)[1]
<1>1. \A x, y \in U : <<x, y>> \in Up => x < y
  OBVIOUS
<1>2. Arranges(Up, U)
  BY NumbersArranged
<1> HIDE DEF Up
<1>3. m \in U /\ \A x \in U : x = m \/ <<m, x>> \in Up
  BY <1>2, FirstArranged
<1> HIDE DEF m
<1>4. ASSUME NEW x \in U PROVE m <= x
  <2>1. x \in Nat /\ m \in Nat /\ (x = m \/ m < x)
    BY <1>1, <1>3
  <2>. QED
    BY <2>1
<1>. QED
  BY <1>3, <1>4

LEMMA InductionOverSet ==
  ASSUME NEW n \in Nat, NEW H, 0 \in H, \A i \in 0 .. n - 1 : i \in H => i + 1 \in H
  PROVE  \A i \in 0..n : i \in H
<1> DEFINE U == {i \in 0..n : i \notin H}
<1>1. U \in SUBSET (0..n) /\ IsFiniteSet(0..n)
  BY FS_Interval
<1>2. U \subseteq Nat /\ IsFiniteSet(U)
  BY <1>1, FS_Subset
<1>3. ASSUME U # {} PROVE FALSE
  <2>1. PICK m \in U : \A x \in U : m <= x
    BY <1>2, <1>3, LeastNumber
  <2>2. m \in 0..n /\ m \notin H /\ m # 0
    BY <2>1
  <2>3. m - 1 \in 0 .. n - 1 /\ (m - 1) + 1 = m /\ ~(m <= m - 1)
    BY <2>2
  <2>4. m - 1 \in U
    BY <2>2, <2>3
  <2>. QED
    BY <2>1, <2>3, <2>4
<1>. QED
  BY <1>3

LEMMA AscendingNumbers ==
  ASSUME NEW U, U \subseteq Nat, IsFiniteSet(U)
  PROVE  \E n \in Nat :
            /\ R!Ascending(U) \in [1..n -> U]
            /\ \A x \in U : \E i \in 1..n : R!Ascending(U)[i] = x
<1> DEFINE Up == {e \in U \X U : e[1] < e[2]}
<1>1. Arranges(Up, U)
  BY NumbersArranged
<1>2. R!Ascending(U) = R!Arranged(U, Up)
  BY DEF R!Ascending
<1> HIDE DEF Up
<1>. QED
  BY <1>1, <1>2, ArrangedInOrder

-----------------------------------------------------------------------------
(* Joining two texts.                                                        *)

Text == Seq(Letters)
Continued(s, t) ==
    /\ s \in Text /\ t \in Text /\ Len(s) <= Len(t)
    /\ \A i \in 1..Len(s) : t[i] = s[i]

(* One text is in another if it is found there from some place on.           *)
LEMMA WithinByPlace ==
  ASSUME NEW s \in Text, NEW t \in Text
  PROVE  R!Within(s, t) <=> \E k \in Nat : /\ k + Len(s) <= Len(t)
                                           /\ \A j \in 1..Len(s) : t[k + j] = s[j]
<1>1. \A k \in Nat : k \in 0 .. Len(t) - Len(s) <=> k + Len(s) <= Len(t)
  BY DEF Text
<1>2. ASSUME NEW k \in Nat, k + Len(s) <= Len(t)
      PROVE  /\ SubSeq(t, k + 1, k + Len(s)) \in Text
             /\ Len(SubSeq(t, k + 1, k + Len(s))) = Len(s)
             /\ \A j \in 1..Len(s) : SubSeq(t, k + 1, k + Len(s))[j] = t[k + j]
  BY <1>2 DEF Text
<1>3. ASSUME NEW k \in Nat, k + Len(s) <= Len(t)
      PROVE  SubSeq(t, k + 1, k + Len(s)) = s <=> \A j \in 1..Len(s) : t[k + j] = s[j]
  <2> DEFINE u == SubSeq(t, k + 1, k + Len(s))
  <2>1. /\ u \in Seq(Letters) /\ s \in Seq(Letters) /\ Len(u) = Len(s)
        /\ \A j \in 1..Len(s) : u[j] = t[k + j]
    BY <1>2, <1>3 DEF Text
  <2> HIDE DEF u
  <2>2. u = s <=> \A j \in 1..Len(s) : u[j] = s[j]
    BY <2>1, SeqEqual
  <2>3. u = s <=> \A j \in 1..Len(s) : t[k + j] = s[j]
    BY <2>1, <2>2
  <2>. QED
    BY <2>3 DEF u
<1>4. R!Within(s, t) <=> \E k \in 0 .. Len(t) - Len(s) : SubSeq(t, k + 1, k + Len(s)) = s
  BY DEF R!Within
<1>5. ASSUME R!Within(s, t)
      PROVE  \E k \in Nat : k + Len(s) <= Len(t) /\ \A j \in 1..Len(s) : t[k + j] = s[j]
  <2>1. PICK k \in 0 .. Len(t) - Len(s) : SubSeq(t, k + 1, k + Len(s)) = s
    BY <1>4, <1>5
  <2>2. k \in Nat /\ k + Len(s) <= Len(t)
    BY <1>1, <2>1
  <2>3. \A j \in 1..Len(s) : t[k + j] = s[j]
    BY <1>3, <2>1, <2>2
  <2>. QED
    BY <2>2, <2>3
<1>6. ASSUME NEW k \in Nat, k + Len(s) <= Len(t), \A j \in 1..Len(s) : t[k + j] = s[j]
      PROVE  R!Within(s, t)
  <2>1. k \in 0 .. Len(t) - Len(s)
    BY <1>1, <1>6
  <2>2. SubSeq(t, k + 1, k + Len(s)) = s
    BY <1>3, <1>6
  <2>. QED
    BY <1>4, <2>1, <2>2
<1>. QED
  BY <1>5, <1>6

(* A longest overlap is an overlap: the end of s is the beginning of t.      *)
LEMMA OverlapIsShared ==
  ASSUME NEW s \in Text, NEW t \in Text, R!Overlaps(s, t) # {}
  PROVE  LET n == R!Max(R!Overlaps(s, t))
         IN  /\ n \in Nat \ {0} /\ n <= Len(s) /\ n <= Len(t)
             /\ \A j \in 1..n : s[(Len(s) - n) + j] = t[j]
<1> DEFINE n == R!Max(R!Overlaps(s, t))
           m == R!Shorter(R!Shorter(Len(s), Len(t)), MaxOverlap)
<1>1. Len(s) \in Nat /\ Len(t) \in Nat /\ MinOverlap \in Nat \ {0} /\ MaxOverlap \in Int
  BY ServingAssumption DEF Text, R!RetrievalAssumption
<1>2. m \in Int /\ m <= Len(s) /\ m <= Len(t)
  BY <1>1 DEF R!Shorter
<1>3. R!Overlaps(s, t) = {k \in MinOverlap..m : R!IsSuffix(SubSeq(t, 1, k), s)}
  BY DEF R!Overlaps
<1> HIDE DEF m
<1>4. R!Overlaps(s, t) \subseteq Nat /\ IsFiniteSet(R!Overlaps(s, t))
  <2>1. MinOverlap..m \subseteq 0..Len(s) /\ IsFiniteSet(0..Len(s))
    BY <1>1, <1>2, FS_Interval
  <2>2. R!Overlaps(s, t) \subseteq 0..Len(s)
    BY <1>3, <2>1
  <2>. QED
    BY <1>1, <2>1, <2>2, FS_Subset
<1>5. n \in R!Overlaps(s, t)
  BY <1>4, NumbersArranged
<1> HIDE DEF n
<1>6. n \in Nat \ {0} /\ n <= Len(s) /\ n <= Len(t) /\ R!IsSuffix(SubSeq(t, 1, n), s)
  BY <1>1, <1>2, <1>3, <1>5
<1> DEFINE u == SubSeq(t, 1, n)
<1>7. u \in Text /\ Len(u) = n /\ \A j \in 1..n : u[j] = t[j]
  BY <1>6 DEF Text
<1>8. R!IsSuffix(u, s)
  BY <1>6
<1> HIDE DEF u
<1>9. ASSUME NEW j \in 1..n PROVE s[(Len(s) - n) + j] = u[j]
  <2> DEFINE i == (n - j) + 1
             back == R!Reverse(u)
             sback == R!Reverse(s)
  <2>1. i \in 1..n /\ (n - i) + 1 = j /\ (Len(s) - i) + 1 = (Len(s) - n) + j
    BY <1>1, <1>6
  <2>2. /\ back = [k \in 1..n |-> u[(n - k) + 1]]
        /\ sback = [k \in 1..Len(s) |-> s[(Len(s) - k) + 1]]
    BY <1>7 DEF R!Reverse
  <2>3. Len(back) = n /\ SubSeq(back, 1, Len(back)) = SubSeq(sback, 1, Len(back))
    <3>1. SubSeq(back, 1, Len(back)) = SubSeq(sback, 1, Len(back))
      BY <1>8 DEF R!IsSuffix, R!IsPrefix
    <3> HIDE DEF back, sback
    <3>2. Len(back) = n
      BY <1>6, <2>2
    <3>. QED
      BY <3>1, <3>2
  <2> HIDE DEF i
  <2>4. back \in Text /\ sback \in Text /\ Len(sback) = Len(s)
    <3>1. /\ \A k \in 1..n : (n - k) + 1 \in 1..n
          /\ \A k \in 1..Len(s) : (Len(s) - k) + 1 \in 1..Len(s)
      BY <1>1, <1>6
    <3>2. \A k \in 1..n : u[k] \in Letters
      BY <1>7 DEF Text
    <3>3. \A k \in 1..Len(s) : s[k] \in Letters
      BY DEF Text
    <3>4. /\ \A k \in 1..n : u[(n - k) + 1] \in Letters
          /\ \A k \in 1..Len(s) : s[(Len(s) - k) + 1] \in Letters
      BY <3>1, <3>2, <3>3
    <3>. QED
      BY <1>1, <1>6, <2>2, <3>4 DEF Text
  <2> HIDE DEF back, sback
  <2>5. back[i] = u[j] /\ sback[i] = s[(Len(s) - n) + j]
    <3>1. i \in 1..Len(s)
      BY <1>1, <1>6, <2>1
    <3>. QED
      BY <2>1, <2>2, <3>1
  <2>6. SubSeq(back, 1, n)[i] = back[i] /\ SubSeq(sback, 1, n)[i] = sback[i]
    BY <1>6, <2>1, <2>3, <2>4 DEF Text
  <2>. QED
    BY <2>3, <2>5, <2>6
<1>. QED
  BY <1>6, <1>7, <1>9 DEF n

(* The letters of s \o u are those of s, and then those of u.                *)
LEMMA Concatenated ==
  ASSUME NEW s \in Text, NEW u \in Text
  PROVE  /\ s \o u \in Text /\ Len(s \o u) = Len(s) + Len(u)
         /\ Len(s) \in Nat /\ Len(u) \in Nat
         /\ \A i \in 1..Len(s) : (s \o u)[i] = s[i]
         /\ \A j \in 1..Len(u) : (s \o u)[Len(s) + j] = u[j]
<1> USE DEF Text
<1>1. Len(s) \in Nat /\ Len(u) \in Nat /\ s \o u \in Text /\ Len(s \o u) = Len(s) + Len(u)
  OBVIOUS
<1>2. \A i \in 1 .. Len(s) + Len(u) :
         (s \o u)[i] = IF i <= Len(s) THEN s[i] ELSE u[i - Len(s)]
  OBVIOUS
<1>3. \A i \in 1..Len(s) : (s \o u)[i] = s[i]
  BY <1>1, <1>2
<1>4. ASSUME NEW j \in 1..Len(u) PROVE (s \o u)[Len(s) + j] = u[j]
  <2>1. /\ Len(s) + j \in 1 .. Len(s) + Len(u) /\ ~(Len(s) + j <= Len(s))
        /\ (Len(s) + j) - Len(s) = j
    BY <1>1
  <2>. QED
    BY <1>2, <2>1
<1>. QED
  BY <1>1, <1>3, <1>4

(* Joining two texts keeps both: the first at the beginning, the second at   *)
(* the end, with or without an overlap.                                      *)
LEMMA JoinedKeepsBoth ==
  ASSUME NEW s \in Text, NEW t \in Text
  PROVE  Continued(s, R!Joined(s, t)) /\ R!Within(t, R!Joined(s, t))
<1> DEFINE j == R!Joined(s, t)
<1>1. CASE R!Overlaps(s, t) = {}
  <2> DEFINE sep == R!Apart(s, t)
             head == s \o sep
  <2>1. sep \in Text
    <3>1. "newline" \in Letters
      BY ServingAssumption DEF R!RetrievalAssumption
    <3>2. <<>> \in Text /\ <<"newline", "newline">> \in Text
      BY <3>1 DEF Text
    <3>. QED
      BY <3>2 DEF R!Apart
  <2>2. j = head \o t
    BY <1>1 DEF R!Joined
  <2> HIDE DEF sep, j
  <2>3. /\ head \in Text /\ Len(head) = Len(s) + Len(sep) /\ Len(s) \in Nat /\ Len(sep) \in Nat
        /\ \A i \in 1..Len(s) : head[i] = s[i]
    BY <2>1, Concatenated
  <2> HIDE DEF head
  <2>4. /\ j \in Text /\ Len(j) = Len(head) + Len(t) /\ Len(head) \in Nat /\ Len(t) \in Nat
        /\ \A i \in 1..Len(head) : j[i] = head[i]
        /\ \A i \in 1..Len(t) : j[Len(head) + i] = t[i]
    BY <2>2, <2>3, Concatenated
  <2>5. Continued(s, j)
    BY <2>3, <2>4 DEF Continued
  <2>6. R!Within(t, j)
    <3>1. Len(head) + Len(t) <= Len(j)
      BY <2>4
    <3> HIDE DEF head
    <3>2. \E k \in Nat : k + Len(t) <= Len(j) /\ \A i \in 1..Len(t) : j[k + i] = t[i]
      BY <2>4, <3>1
    <3>. QED
      BY <2>4, <3>2, WithinByPlace
  <2>. QED
    BY <2>5, <2>6 DEF j
<1>2. CASE R!Overlaps(s, t) # {}
  <2> DEFINE n == R!Max(R!Overlaps(s, t))
             tail == SubSeq(t, n + 1, Len(t))
             k == Len(s) - n
  <2>1. /\ n \in Nat \ {0} /\ n <= Len(s) /\ n <= Len(t)
        /\ \A i \in 1..n : s[(Len(s) - n) + i] = t[i]
    BY <1>2, OverlapIsShared
  <2>2. j = s \o tail
    BY <1>2 DEF R!Joined
  <2> HIDE DEF n, j
  <2>3. Len(s) \in Nat /\ Len(t) \in Nat
    BY DEF Text
  <2>4. /\ tail \in Text /\ Len(tail) = Len(t) - n
        /\ \A i \in 1 .. Len(t) - n : tail[i] = t[n + i]
    BY <2>1, <2>3 DEF Text
  <2> HIDE DEF tail
  <2>5. /\ j \in Text /\ Len(j) = Len(s) + Len(tail)
        /\ \A i \in 1..Len(s) : j[i] = s[i]
        /\ \A i \in 1..Len(tail) : j[Len(s) + i] = tail[i]
    BY <2>2, <2>4, Concatenated
  <2>6. Continued(s, j)
    BY <2>1, <2>3, <2>4, <2>5 DEF Continued
  <2>7. k \in Nat /\ k + Len(t) <= Len(j)
    BY <2>1, <2>3, <2>4, <2>5
  <2>8. ASSUME NEW i \in 1..Len(t) PROVE j[k + i] = t[i]
    <3>1. CASE i <= n
      <4>1. i \in 1..n /\ k + i \in 1..Len(s)
        BY <2>1, <2>3, <3>1
      <4>. QED
        BY <2>1, <2>5, <4>1
    <3>2. CASE n < i
      <4> DEFINE h == i - n
      <4>1. h \in 1..Len(tail) /\ Len(s) + h = k + i /\ n + h = i /\ h \in 1 .. Len(t) - n
        BY <2>1, <2>3, <2>4, <3>2
      <4> HIDE DEF h, k
      <4>2. j[Len(s) + h] = t[n + h]
        BY <2>4, <2>5, <4>1
      <4>. QED
        BY <4>1, <4>2
    <3>. QED
      BY <2>1, <2>3, <3>1, <3>2
  <2> HIDE DEF k
  <2>9. R!Within(t, j)
    BY <2>5, <2>7, <2>8, WithinByPlace
  <2>. QED
    BY <2>6, <2>9 DEF j
<1>. QED
  BY <1>1, <1>2

LEMMA WithinContinued ==
  ASSUME NEW u \in Text, NEW s, NEW t, Continued(s, t), R!Within(u, s)
  PROVE  R!Within(u, t)
<1>1. s \in Text /\ t \in Text /\ Len(s) <= Len(t) /\ \A i \in 1..Len(s) : t[i] = s[i]
  BY DEF Continued
<1>2. PICK k \in Nat : k + Len(u) <= Len(s) /\ \A j \in 1..Len(u) : s[k + j] = u[j]
  BY <1>1, WithinByPlace
<1>3. Len(u) \in Nat /\ Len(s) \in Nat /\ Len(t) \in Nat
  BY <1>1 DEF Text
<1>4. \A j \in 1..Len(u) : k + j \in 1..Len(s)
  BY <1>2, <1>3
<1>5. k + Len(u) <= Len(t) /\ \A j \in 1..Len(u) : t[k + j] = u[j]
  BY <1>1, <1>2, <1>3, <1>4
<1>. QED
  BY <1>1, <1>5, WithinByPlace

-----------------------------------------------------------------------------
(* Joining the texts of a section, one after the other.                      *)

Partial(texts, n, g) ==
    /\ DOMAIN g = 1..n
    /\ \A i \in 1..n : g[i] = IF i = 1 THEN texts[1] ELSE R!Joined(g[i - 1], texts[i])

(* The recursion in JoinedAll() has a solution, ...                          *)
LEMMA JoinedStepByStep ==
  ASSUME NEW n \in Nat \ {0}, NEW texts \in [1..n -> Text]
  PROVE  \E g : g = [i \in 1..n |-> g[i]] /\ Partial(texts, n, g) /\ R!JoinedAll(texts) = g[n]
<1> DEFINE H == {m \in 0..n : \E g : Partial(texts, m, g)}
<1>1. 0 \in H
  <2>1. Partial(texts, 0, [i \in 1..0 |-> i])
    BY DEF Partial
  <2>. QED
    BY <2>1
<1>2. ASSUME NEW m \in 0 .. n - 1, m \in H PROVE m + 1 \in H
  <2>1. PICK g : Partial(texts, m, g)
    BY <1>2
  <2> DEFINE next == IF m = 0 THEN texts[1] ELSE R!Joined(g[m], texts[m + 1])
             h == [i \in 1 .. m + 1 |-> IF i = m + 1 THEN next ELSE g[i]]
  <2>2. ASSUME NEW i \in 1 .. m + 1
        PROVE  h[i] = IF i = 1 THEN texts[1] ELSE R!Joined(h[i - 1], texts[i])
    <3>1. CASE i = m + 1
      <4>1. i - 1 = m /\ (m # 0 => m \in 1 .. m + 1 /\ m # m + 1) /\ (i = 1 <=> m = 0)
        BY <3>1
      <4>. QED
        BY <3>1, <4>1
    <3>2. CASE i # m + 1
      <4>1. i \in 1..m /\ (i # 1 => i - 1 \in 1 .. m + 1 /\ i - 1 # m + 1)
        BY <3>2
      <4>. QED
        BY <2>1, <3>2, <4>1 DEF Partial
    <3>. QED
      BY <3>1, <3>2
  <2>3. Partial(texts, m + 1, h)
    <3> HIDE DEF next
    <3>1. DOMAIN h = 1 .. m + 1
      OBVIOUS
    <3> HIDE DEF h
    <3>. QED
      BY <2>2, <3>1 DEF Partial
  <2>4. m + 1 \in 0..n
    BY <1>2
  <2>. QED
    BY <2>3, <2>4
<1>3. \A m \in 0..n : m \in H
  <2> HIDE DEF H
  <2>. QED
    BY <1>1, <1>2, InductionOverSet
<1>4. PICK g0 : Partial(texts, n, g0)
  <2>1. n \in 0..n
    OBVIOUS
  <2>. QED
    BY <1>3, <2>1
<1> DEFINE Solves(g) == g = [i \in DOMAIN texts |-> IF i = 1 THEN texts[1]
                                                    ELSE R!Joined(g[i - 1], texts[i])]
           g1 == [i \in 1..n |-> g0[i]]
           f == CHOOSE g : Solves(g)
<1>5. Solves(g1)
  <2>1. ASSUME NEW i \in 1..n
        PROVE  g1[i] = IF i = 1 THEN texts[1] ELSE R!Joined(g1[i - 1], texts[i])
    <3>1. i # 1 => i - 1 \in 1..n
      OBVIOUS
    <3>. QED
      BY <1>4, <3>1 DEF Partial
  <2> HIDE DEF g1
  <2>2. g1 = [i \in 1..n |-> g1[i]]
    BY DEF g1
  <2>3. DOMAIN texts = 1..n
    OBVIOUS
  <2>. QED
    BY <2>1, <2>2, <2>3
<1>6. Solves(f)
  <2> HIDE DEF Solves
  <2>. QED
    BY <1>5
<1>7. Len(texts) = n
  OBVIOUS
<1>8. R!JoinedAll(texts) = f[n]
  BY <1>7 DEF R!JoinedAll
<1> HIDE DEF f
<1>9. f = [i \in 1..n |-> f[i]] /\ Partial(texts, n, f)
  BY <1>6 DEF Partial
<1>. QED
  BY <1>8, <1>9

(* ... and its last text is a text with each of them in it.                  *)
LEMMA JoinedAllKeepsAll ==
  ASSUME NEW n \in Nat \ {0}, NEW texts \in [1..n -> Text]
  PROVE  /\ R!JoinedAll(texts) \in Text
         /\ \A j \in 1..n : R!Within(texts[j], R!JoinedAll(texts))
<1>1. PICK g : Partial(texts, n, g) /\ R!JoinedAll(texts) = g[n]
  BY JoinedStepByStep
<1> DEFINE Sound(m) == g[m] \in Text /\ \A j \in 1..m : R!Within(texts[j], g[m])
           H == {m \in 0..n : m # 0 => Sound(m)}
<1>2. 0 \in H
  OBVIOUS
<1>3. ASSUME NEW m \in 0 .. n - 1, m \in H PROVE m + 1 \in H
  <2> DEFINE k == m + 1
  <2>1. k \in 1..n /\ k - 1 = m /\ (m # 0 => k # 1 /\ m \in 1..n) /\ k \in 0..n
    OBVIOUS
  <2>2. texts[k] \in Text
    BY <2>1
  <2>3. g[k] = IF k = 1 THEN texts[1] ELSE R!Joined(g[k - 1], texts[k])
    BY <1>1, <2>1 DEF Partial
  <2> HIDE DEF k
  <2>4. CASE m = 0
    <3>1. k = 1
      BY <2>4 DEF k
    <3>2. g[k] = texts[1] /\ texts[1] \in Text
      BY <2>2, <2>3, <3>1
    <3>3. Len(texts[1]) \in Nat /\ 0 + Len(texts[1]) <= Len(texts[1])
      BY <3>2 DEF Text
    <3>4. \A j \in 1..Len(texts[1]) : 0 + j = j
      OBVIOUS
    <3>5. R!Within(texts[1], texts[1])
      BY <3>2, <3>3, <3>4, WithinByPlace
    <3>6. Sound(k)
      <4>1. \A j \in 1..k : j = 1
        BY <3>1
      <4>. QED
        BY <3>2, <3>5, <4>1
    <3>. QED
      BY <2>1, <3>6 DEF k
  <2>5. CASE m # 0
    <3>1. Sound(m)
      BY <1>3, <2>5
    <3>2. g[k] = R!Joined(g[m], texts[k])
      BY <2>1, <2>3, <2>5
    <3>3. Continued(g[m], g[k]) /\ R!Within(texts[k], g[k])
      BY <2>2, <3>1, <3>2, JoinedKeepsBoth
    <3>4. ASSUME NEW j \in 1..k PROVE R!Within(texts[j], g[k])
      <4>1. CASE j = k
        BY <3>3, <4>1
      <4>2. CASE j # k
        <5>1. j \in 1..m /\ j \in 1..n
          BY <2>1, <4>2 DEF k
        <5>2. texts[j] \in Text /\ R!Within(texts[j], g[m])
          BY <3>1, <5>1
        <5>. QED
          BY <3>3, <5>2, WithinContinued
      <4>. QED
        BY <4>1, <4>2
    <3>5. Sound(k)
      BY <3>3, <3>4 DEF Continued
    <3>. QED
      BY <2>1, <3>5 DEF k
  <2>. QED
    BY <2>4, <2>5
<1>4. \A m \in 0..n : m \in H
  <2> HIDE DEF H
  <2>. QED
    BY <1>2, <1>3, InductionOverSet
<1>5. Sound(n)
  <2>1. n \in 0..n /\ n # 0
    OBVIOUS
  <2>. QED
    BY <1>4, <2>1
<1>. QED
  BY <1>1, <1>5

-----------------------------------------------------------------------------
(* How long citations are together.                                          *)

LengthOf(cited, n, g) ==
    /\ DOMAIN g = 0..n
    /\ \A i \in 0..n : g[i] = IF i = 0 THEN 0 ELSE g[i - 1] + Len(cited[i].text)

LEMMA LengthStepByStep ==
  ASSUME NEW n \in Nat, NEW cited, Len(cited) = n
  PROVE  \E g : LengthOf(cited, n, g) /\ R!Length(cited) = g[n]
<1> DEFINE H == {m \in 0..n : \E g : LengthOf(cited, m, g)}
<1>1. 0 \in H
  <2>1. LengthOf(cited, 0, [i \in 0..0 |-> 0])
    BY DEF LengthOf
  <2>. QED
    BY <2>1
<1>2. ASSUME NEW m \in 0 .. n - 1, m \in H PROVE m + 1 \in H
  <2>1. PICK g : LengthOf(cited, m, g)
    BY <1>2
  <2> DEFINE next == g[m] + Len(cited[m + 1].text)
             h == [i \in 0 .. m + 1 |-> IF i = m + 1 THEN next ELSE g[i]]
  <2>2. ASSUME NEW i \in 0 .. m + 1
        PROVE  h[i] = IF i = 0 THEN 0 ELSE h[i - 1] + Len(cited[i].text)
    <3>1. CASE i = m + 1
      <4>1. i - 1 = m /\ m \in 0 .. m + 1 /\ m # m + 1 /\ i # 0
        BY <3>1
      <4>. QED
        BY <3>1, <4>1
    <3>2. CASE i # m + 1
      <4>1. i \in 0..m /\ (i # 0 => i - 1 \in 0 .. m + 1 /\ i - 1 # m + 1)
        BY <3>2
      <4>. QED
        BY <2>1, <3>2, <4>1 DEF LengthOf
    <3>. QED
      BY <3>1, <3>2
  <2>3. LengthOf(cited, m + 1, h)
    <3> HIDE DEF next
    <3>1. DOMAIN h = 0 .. m + 1
      OBVIOUS
    <3> HIDE DEF h
    <3>. QED
      BY <2>2, <3>1 DEF LengthOf
  <2>4. m + 1 \in 0..n
    BY <1>2
  <2>. QED
    BY <2>3, <2>4
<1>3. \A m \in 0..n : m \in H
  <2> HIDE DEF H
  <2>. QED
    BY <1>1, <1>2, InductionOverSet
<1>4. PICK g0 : LengthOf(cited, n, g0)
  <2>1. n \in 0..n
    OBVIOUS
  <2>. QED
    BY <1>3, <2>1
<1> DEFINE Solves(g) == g = [i \in 0..n |-> IF i = 0 THEN 0 ELSE g[i - 1] + Len(cited[i].text)]
           g1 == [i \in 0..n |-> g0[i]]
           f == CHOOSE g : Solves(g)
<1>5. Solves(g1)
  <2>1. ASSUME NEW i \in 0..n
        PROVE  g1[i] = IF i = 0 THEN 0 ELSE g1[i - 1] + Len(cited[i].text)
    <3>1. i # 0 => i - 1 \in 0..n
      OBVIOUS
    <3>. QED
      BY <1>4, <3>1 DEF LengthOf
  <2> HIDE DEF g1
  <2>2. g1 = [i \in 0..n |-> g1[i]]
    BY DEF g1
  <2>. QED
    BY <2>1, <2>2
<1>6. Solves(f)
  <2> HIDE DEF Solves
  <2>. QED
    BY <1>5
<1>7. R!Length(cited) = f[n]
  BY DEF R!Length
<1> HIDE DEF f
<1>8. LengthOf(cited, n, f)
  BY <1>6 DEF LengthOf
<1>. QED
  BY <1>7, <1>8

(* One citation more, cut or not, is longer by its text.                     *)
LEMMA LengthOfOneMore ==
  ASSUME NEW Citations, \A c \in Citations : c.text \in Text,
         NEW s \in Seq(Citations), NEW c \in Citations
  PROVE  /\ R!Length(s) \in Nat
         /\ R!Length(Append(s, c)) = R!Length(s) + Len(c.text)
<1> DEFINE n == Len(s)
           t == Append(s, c)
<1>1. /\ n \in Nat /\ t \in Seq(Citations) /\ Len(t) = n + 1
      /\ \A i \in 1..n : t[i] = s[i] /\ s[i] \in Citations
      /\ t[n + 1] = c
  BY AppendProperties
<1> HIDE DEF t, n
<1>2. PICK g : LengthOf(s, n, g) /\ R!Length(s) = g[n]
  BY <1>1, LengthStepByStep DEF n
<1>3. PICK h : LengthOf(t, n + 1, h) /\ R!Length(t) = h[n + 1]
  BY <1>1, LengthStepByStep
<1> DEFINE H == {m \in 0..n : g[m] \in Nat /\ h[m] = g[m]}
<1>4. 0 \in H
  BY <1>1, <1>2, <1>3 DEF LengthOf
<1>5. ASSUME NEW m \in 0 .. n - 1, m \in H PROVE m + 1 \in H
  <2> DEFINE k == m + 1
  <2>1. k \in 1..n /\ k \in 0..n /\ k \in 0 .. n + 1 /\ k # 0 /\ k - 1 = m
    BY <1>1, <1>5
  <2> HIDE DEF k
  <2>2. g[k] = g[m] + Len(s[k].text) /\ h[k] = h[m] + Len(t[k].text)
    BY <1>2, <1>3, <2>1 DEF LengthOf
  <2>3. t[k] = s[k] /\ Len(s[k].text) \in Nat
    BY <1>1, <2>1 DEF Text
  <2>4. g[m] \in Nat /\ h[m] = g[m]
    BY <1>5
  <2>. QED
    BY <2>1, <2>2, <2>3, <2>4 DEF k
<1>6. \A m \in 0..n : m \in H
  <2> HIDE DEF H
  <2>. QED
    BY <1>1, <1>4, <1>5, InductionOverSet
<1>7. g[n] \in Nat /\ h[n] = g[n]
  <2>1. n \in 0..n
    BY <1>1
  <2>. QED
    BY <1>6, <2>1
<1>8. h[n + 1] = h[n] + Len(c.text)
  <2>1. n + 1 \in 0 .. n + 1 /\ n + 1 # 0 /\ (n + 1) - 1 = n
    BY <1>1
  <2>. QED
    BY <1>1, <1>3, <2>1 DEF LengthOf
<1>. QED
  BY <1>2, <1>3, <1>7, <1>8 DEF t

-----------------------------------------------------------------------------
(* Citations made of P.                                                      *)
Citation(P) == [section : Int, text : Text, sources : SUBSET P]

(* One citation per section: made of the chunks it was given, with the text  *)
(* of each of them in the citation of its section.                           *)
LEMMA MergedKeepsAll ==
  ASSUME Posed, NEW P \in SUBSET R!Points, NEW n \in Nat, NEW chunks \in [1..n -> P]
  PROVE  /\ R!Merged(chunks) \in Seq(Citation(P))
         /\ \A i \in 1..n : \E m \in DOMAIN R!Merged(chunks) :
               /\ R!Merged(chunks)[m].section = corpus[chunks[i]].section
               /\ R!Within(corpus[chunks[i]].text, R!Merged(chunks)[m].text)
<1> DEFINE Section(i) == corpus[chunks[i]].section
           Of(s) == {i \in DOMAIN chunks : corpus[chunks[i]].section = s}
           first == {i \in DOMAIN chunks : \A j \in Of(corpus[chunks[i]].section) : i <= j}
           new == R!Ascending(first)
           Texts(s) == [k \in DOMAIN R!Ascending(Of(s)) |->
                           corpus[chunks[R!Ascending(Of(s))[k]]].text]
           Joint(s) == R!JoinedAll(Texts(s))
           cited == R!Merged(chunks)
<1>1. \A p \in P : corpus[p].section \in Int /\ corpus[p].text \in Text
  BY Posing DEF Text
<1>2. DOMAIN chunks = 1..n /\ IsFiniteSet(1..n) /\ 1..n \subseteq Nat
  BY FS_Interval
<1>3. cited = [k \in DOMAIN new |-> [section |-> Section(new[k]), text |-> Joint(Section(new[k])),
                                     sources |-> {chunks[i] : i \in Of(Section(new[k]))}]]
  BY DEF R!Merged
<1> HIDE DEF cited
<1>4. PICK k \in Nat : new \in [1..k -> first] /\ \A x \in first : \E i \in 1..k : new[i] = x
  <2>1. first \in SUBSET (1..n)
    BY <1>2
  <2> HIDE DEF first
  <2>2. IsFiniteSet(first) /\ first \subseteq Nat
    BY <1>2, <2>1, FS_Subset
  <2>. QED
    BY <2>2, AscendingNumbers
<1> HIDE DEF new
<1>5. ASSUME NEW i \in 1..n
      PROVE  /\ Joint(Section(i)) \in Text
             /\ \A j \in Of(Section(i)) : R!Within(corpus[chunks[j]].text, Joint(Section(i)))
  <2> DEFINE S1 == Of(Section(i))
             at == R!Ascending(S1)
             texts == Texts(Section(i))
  <2>1. S1 \in SUBSET (1..n) /\ i \in S1
    BY <1>2
  <2> HIDE DEF S1
  <2>2. IsFiniteSet(S1) /\ S1 \subseteq Nat
    BY <1>2, <2>1, FS_Subset
  <2>3. PICK q \in Nat : at \in [1..q -> S1] /\ \A x \in S1 : \E h \in 1..q : at[h] = x
    BY <2>2, AscendingNumbers
  <2>4. texts = [h \in DOMAIN at |-> corpus[chunks[at[h]]].text]
    BY DEF S1
  <2> HIDE DEF at, texts
  <2>5. q # 0
    BY <2>1, <2>3
  <2>6. texts \in [1..q -> Text]
    <3>1. \A h \in 1..q : at[h] \in 1..n
      BY <2>1, <2>3
    <3>2. \A h \in 1..q : corpus[chunks[at[h]]].text \in Text
      BY <1>1, <3>1
    <3>. QED
      BY <2>3, <2>4, <3>2
  <2>7. R!JoinedAll(texts) \in Text /\ \A h \in 1..q : R!Within(texts[h], R!JoinedAll(texts))
    BY <2>5, <2>6, JoinedAllKeepsAll
  <2>8. ASSUME NEW j \in S1 PROVE R!Within(corpus[chunks[j]].text, R!JoinedAll(texts))
    <3>1. PICK h \in 1..q : at[h] = j
      BY <2>3
    <3>2. texts[h] = corpus[chunks[j]].text
      BY <2>3, <2>4, <3>1
    <3>. QED
      BY <2>7, <3>1, <3>2
  <2>. QED
    BY <2>7, <2>8 DEF texts, S1
<1> HIDE DEF Joint
<1>6. ASSUME NEW h \in 1..k PROVE cited[h] \in Citation(P)
  <2>1. new[h] \in 1..n
    BY <1>2, <1>4
  <2>2. Section(new[h]) \in Int
    BY <1>1, <2>1
  <2>3. {chunks[i] : i \in Of(Section(new[h]))} \in SUBSET P
    BY <1>2
  <2>4. Joint(Section(new[h])) \in Text
    BY <1>5, <2>1
  <2>5. cited[h] = [section |-> Section(new[h]), text |-> Joint(Section(new[h])),
                    sources |-> {chunks[i] : i \in Of(Section(new[h]))}]
    BY <1>3, <1>4
  <2> HIDE DEF Section, Of
  <2>. QED
    BY <2>2, <2>3, <2>4, <2>5 DEF Citation
<1>7. DOMAIN cited = 1..k
  BY <1>3, <1>4
<1>8. cited \in Seq(Citation(P))
  <2>1. cited = [h \in 1..k |-> cited[h]]
    BY <1>3, <1>7
  <2>. QED
    BY <1>6, <2>1
<1>9. ASSUME NEW i \in 1..n
      PROVE  \E m \in DOMAIN cited : /\ cited[m].section = corpus[chunks[i]].section
                                     /\ R!Within(corpus[chunks[i]].text, cited[m].text)
  <2> DEFINE S1 == Of(Section(i))
  <2>1. S1 \in SUBSET (1..n) /\ i \in S1
    BY <1>2
  <2>2. IsFiniteSet(S1) /\ S1 \subseteq Nat
    BY <1>2, <2>1, FS_Subset
  <2>3. PICK m \in S1 : \A x \in S1 : m <= x
    <3> HIDE DEF S1
    <3>. QED
      BY <2>1, <2>2, LeastNumber
  <2>4. m \in 1..n /\ Section(m) = Section(i)
    BY <2>1, <2>3
  <2>5. m \in first
    BY <1>2, <2>3, <2>4
  <2>6. PICK h \in 1..k : new[h] = m
    BY <1>4, <2>5
  <2>7. cited[h].section = Section(i) /\ cited[h].text = Joint(Section(i))
    BY <1>3, <1>4, <2>4, <2>6
  <2>8. R!Within(corpus[chunks[i]].text, Joint(Section(i)))
    BY <1>5, <2>1
  <2>. QED
    BY <1>7, <2>7, <2>8
<1>. QED
  BY <1>8, <1>9 DEF cited

LEMMA LengthOfNone == R!Length(<<>>) = 0
<1>1. Len(<<>>) = 0
  OBVIOUS
<1>2. PICK g : LengthOf(<<>>, 0, g) /\ R!Length(<<>>) = g[0]
  BY <1>1, LengthStepByStep
<1>. QED
  BY <1>2 DEF LengthOf

LEMMA LengthIsNatural ==
  ASSUME NEW Citations, \A c \in Citations : c.text \in Text, NEW s \in Seq(Citations)
  PROVE  R!Length(s) \in Nat
<1>1. CASE s = <<>>
  BY <1>1, LengthOfNone
<1>2. CASE s # <<>>
  <2>1. s[1] \in Citations
    BY <1>2
  <2>. QED
    BY <2>1, LengthOfOneMore
<1>. QED
  BY <1>1, <1>2

(* Cutting citations short adds no chunk, and leaves them no longer than     *)
(* asked, but for an ellipsis.                                               *)
LEMMA TruncatedFits ==
  ASSUME NEW P, NEW cited \in Seq(Citation(P)), NEW max_length \in Nat
  PROVE  /\ R!Truncated(cited, max_length) \in Seq(Citation(P))
         /\ R!Length(R!Truncated(cited, max_length)) <= max_length + 1
<1> DEFINE Fitting == {0} \cup {n \in 1..Len(cited) : R!Length(R!First(cited, n)) <= max_length}
           fit == R!Max(Fitting)
           whole == R!First(cited, fit)
           left == max_length - R!Length(whole)
           cut == [cited[fit + 1] EXCEPT !.text = Append(R!First(@, left), "ellipsis")]
<1>1. Fitting \subseteq 0..Len(cited) /\ Fitting # {} /\ Len(cited) \in Nat
  OBVIOUS
<1>2. \A n \in Fitting : n = 0 \/ R!Length(R!First(cited, n)) <= max_length
  OBVIOUS
<1> HIDE DEF Fitting
<1>3. fit \in Fitting /\ fit \in 0..Len(cited)
  <2>1. IsFiniteSet(0..Len(cited)) /\ Fitting \subseteq Nat
    BY <1>1, FS_Interval
  <2>2. IsFiniteSet(Fitting)
    BY <1>1, <2>1, FS_Subset
  <2>. QED
    BY <1>1, <2>1, <2>2, NumbersArranged
<1> HIDE DEF fit
<1>4. whole = [i \in 1..fit |-> cited[i]] /\ \A i \in 1..fit : cited[i] \in Citation(P)
  <2>1. DOMAIN cited \cap 1..fit = 1..fit /\ 1..fit \subseteq DOMAIN cited
    BY <1>1, <1>3
  <2>. QED
    BY <2>1 DEF R!First
<1>5. whole \in Seq(Citation(P))
  BY <1>1, <1>3, <1>4
<1>6. \A c \in Citation(P) : c.text \in Text
  BY DEF Citation
<1>7. R!Length(whole) <= max_length
  <2>1. CASE fit = 0
    <3>1. whole = <<>>
      BY <1>5, <1>4, <2>1
    <3>. QED
      BY <3>1, LengthOfNone
  <2>2. CASE fit # 0
    BY <1>2, <1>3, <2>2
  <2>. QED
    BY <2>1, <2>2
<1>8. \/ R!Truncated(cited, max_length) = whole
      \/ fit < Len(cited) /\ R!Truncated(cited, max_length) = Append(whole, cut)
  BY DEF R!Truncated, Fitting, fit
<1> HIDE DEF whole
<1>9. CASE R!Truncated(cited, max_length) = whole
  <2>1. R!Length(whole) \in Nat
    BY <1>5, <1>6, LengthIsNatural
  <2>2. R!Length(whole) <= max_length + 1
    BY <1>7, <2>1
  <2>. QED
    BY <1>5, <1>9, <2>2
<1>10. CASE fit < Len(cited) /\ R!Truncated(cited, max_length) = Append(whole, cut)
  <2> DEFINE rest == cited[fit + 1]
             some == R!First(rest.text, left)
  <2>1. rest \in Citation(P)
    BY <1>1, <1>3, <1>10
  <2> HIDE DEF rest
  <2>2. rest.text \in Text /\ Len(rest.text) \in Nat
    BY <1>6, <2>1 DEF Text
  <2>3. R!Length(whole) \in Nat /\ left \in Nat
    <3>1. R!Length(whole) \in Nat
      BY <1>5, <1>6, LengthIsNatural
    <3>. QED
      BY <1>7, <3>1
  <2> HIDE DEF left
  <2>4. some \in Text /\ Len(some) \in Nat /\ Len(some) <= left
    <3> DEFINE k == IF left < Len(rest.text) THEN left ELSE Len(rest.text)
    <3>1. k \in Nat /\ k <= left /\ DOMAIN rest.text \cap 1..left = 1..k
      BY <2>2, <2>3 DEF Text
    <3>2. \A i \in 1..k : rest.text[i] \in Letters
      BY <2>2, <2>3 DEF Text
    <3> HIDE DEF k
    <3>3. some = [i \in 1..k |-> rest.text[i]]
      BY <3>1 DEF R!First
    <3>. QED
      BY <3>1, <3>2, <3>3 DEF Text
  <2> HIDE DEF some
  <2>5. "ellipsis" \in Letters
    BY ServingAssumption DEF R!RetrievalAssumption
  <2> DEFINE shortened == Append(some, "ellipsis")
  <2>6. shortened \in Text /\ Len(shortened) = Len(some) + 1
    BY <2>4, <2>5, AppendProperties DEF Text
  <2>7. cut = [rest EXCEPT !.text = shortened]
    BY DEF rest, some
  <2> HIDE DEF shortened, cut
  <2>8. cut \in Citation(P) /\ cut.text = shortened
    BY <2>1, <2>6, <2>7 DEF Citation
  <2>9. Append(whole, cut) \in Seq(Citation(P))
    BY <1>5, <2>8, AppendProperties
  <2>10. R!Length(Append(whole, cut)) = R!Length(whole) + Len(shortened)
    BY <1>5, <1>6, <2>8, LengthOfOneMore
  <2>11. left = max_length - R!Length(whole)
    BY DEF left
  <2>12. R!Length(Append(whole, cut)) <= max_length + 1
    BY <2>3, <2>4, <2>6, <2>10, <2>11
  <2>. QED
    BY <1>10, <2>9, <2>12
<1>. QED
  BY <1>8, <1>9, <1>10

-----------------------------------------------------------------------------
(* The chunks that are cited: for a query those that pass of what is found,  *)
(* and else those of the document, all of them.                              *)
Relevant ==
    R!Ranked({p \in R!ToSet(R!Search(asked.max_results)) :
                 R!Passes(corpus[p].score, asked.score_threshold)})
OfDocument == {p \in R!Points : corpus[p].doc = asked.doc}

LEMMA RelevantIsChosen ==
  ASSUME Posed
  PROVE  \E n \in Nat : Relevant \in [1..n -> Chosen]
<1> DEFINE hits == R!Search(asked.max_results)
           passing == {p \in R!ToSet(hits) : R!Passes(corpus[p].score, asked.score_threshold)}
<1>1. hits \in Seq(Chosen)
  <2>1. asked.max_results \in Nat
    BY Posing
  <2>. QED
    BY <2>1, SearchIsABeginning
<1>2. Relevant = R!Ranked(passing)
  BY DEF Relevant
<1> HIDE DEF hits
<1>3. passing \in SUBSET Chosen
  <2>1. \A i \in DOMAIN hits : hits[i] \in Chosen
    BY <1>1
  <2>. QED
    BY <2>1 DEF R!ToSet
<1> HIDE DEF passing
<1>4. passing \in SUBSET R!Points
  BY <1>3, RankingInOrder
<1>5. Cardinality(passing) \in Nat /\ Relevant \in [1..Cardinality(passing) -> passing]
  BY <1>2, <1>4, RankedInOrder
<1>6. Relevant \in [1..Cardinality(passing) -> Chosen]
  BY <1>3, <1>5
<1>. QED
  BY <1>5, <1>6

LEMMA DocumentInOrder ==
  ASSUME Posed
  PROVE  \E n \in Nat : /\ R!ChunksOf(asked.doc) \in [1..n -> OfDocument]
                        /\ \A p \in OfDocument : \E i \in 1..n : R!ChunksOf(asked.doc)[i] = p
<1> DEFINE Order == {e \in R!Points \X R!Points : R!BySection(e[1], e[2])}
<1>1. OfDocument \in SUBSET R!Points
  BY DEF OfDocument
<1>2. IsFiniteSet(OfDocument)
  BY <1>1, Posing, FS_Subset
<1>3. \A x, y \in OfDocument : <<x, y>> \in Order <=> R!BySection(x, y)
  BY <1>1
<1>4. R!ChunksOf(asked.doc) = R!Arranged(OfDocument, Order)
  BY DEF R!ChunksOf, OfDocument
<1> HIDE DEF Order
<1>5. Arranges(Order, OfDocument)
  <2>1. \A x \in OfDocument : x \in Nat /\ corpus[x].section \in Int /\ corpus[x].index \in Int
    BY <1>1, Posing
  <2>2. \A x \in OfDocument : ~R!BySection(x, x)
    BY <2>1 DEF R!BySection
  <2>3. \A x, y \in OfDocument : x # y => R!BySection(x, y) \/ R!BySection(y, x)
    BY <2>1 DEF R!BySection
  <2>4. \A x, y, z \in OfDocument : R!BySection(x, y) /\ R!BySection(y, z) => R!BySection(x, z)
    BY <2>1 DEF R!BySection
  <2>. QED
    BY <1>3, <2>2, <2>3, <2>4 DEF Arranges
<1>. QED
  BY <1>2, <1>4, <1>5, ArrangedInOrder

LEMMA CitedOnce ==
  ASSUME R!GetCitations
  PROVE  LET chunks == IF asked.query THEN Relevant ELSE R!ChunksOf(asked.doc)
         IN  citations' = IF chunks = <<>> THEN R!Title
                          ELSE IF asked.query THEN R!Truncated(R!Merged(chunks), asked.max_length)
                          ELSE R!Merged(chunks)
BY DEF R!GetCitations, Relevant

(* For a query, what is cited is chosen, and cut to the length that is asked. *)
LEMMA CitedForQuery ==
  ASSUME Posed, R!GetCitations, asked.query
  PROVE  \/ citations' = R!Title
         \/ /\ citations' \in Seq(Citation(Chosen))
            /\ R!Length(citations') <= asked.max_length + 1
<1>1. PICK n \in Nat : Relevant \in [1..n -> Chosen]
  BY RelevantIsChosen
<1>2. Chosen \in SUBSET R!Points
  BY RankingInOrder
<1>3. R!Merged(Relevant) \in Seq(Citation(Chosen))
  BY <1>1, <1>2, MergedKeepsAll
<1>4. asked.max_length \in Nat
  BY Posing
<1>5. citations' = R!Title \/ citations' = R!Truncated(R!Merged(Relevant), asked.max_length)
  BY CitedOnce
<1>. QED
  BY <1>3, <1>4, <1>5, TruncatedFits

(* Without one, nothing of the document is lost.                             *)
LEMMA CitedInFull ==
  ASSUME Posed, R!GetCitations, ~asked.query, NEW p \in OfDocument
  PROVE  \E i \in DOMAIN citations' : /\ citations'[i].section = corpus[p].section
                                     /\ R!Within(corpus[p].text, citations'[i].text)
<1> DEFINE chunks == R!ChunksOf(asked.doc)
<1>1. PICK n \in Nat : /\ chunks \in [1..n -> OfDocument]
                       /\ \A x \in OfDocument : \E i \in 1..n : chunks[i] = x
  BY DocumentInOrder
<1>2. citations' = IF chunks = <<>> THEN R!Title ELSE R!Merged(chunks)
  BY CitedOnce
<1> HIDE DEF chunks
<1>3. PICK i \in 1..n : chunks[i] = p
  BY <1>1
<1>4. chunks # <<>>
  BY <1>1, <1>3
<1>5. OfDocument \in SUBSET R!Points
  BY DEF OfDocument
<1>6. \E m \in DOMAIN R!Merged(chunks) :
         /\ R!Merged(chunks)[m].section = corpus[chunks[i]].section
         /\ R!Within(corpus[chunks[i]].text, R!Merged(chunks)[m].text)
  BY <1>1, <1>5, MergedKeepsAll
<1>. QED
  BY <1>2, <1>3, <1>4, <1>6

-----------------------------------------------------------------------------
(* The steps of Retrieval.                                                   *)

LEMMA GetCitationsStep == PagingInv /\ R!GetCitations => PagingInv'
<1> SUFFICES ASSUME PagingInv, R!GetCitations PROVE PagingInv'
  OBVIOUS
<1>1. /\ Posed /\ offset \in Nat /\ pages \in Seq(Page)
      /\ ShownSoFar /\ NothingLeft /\ CitedFromChosen
  BY DEF PagingInv
<1>2. /\ Posed' /\ Chosen' = Chosen /\ Ranking' = Ranking /\ Last' = Last
      /\ \A p : Strong(p)' <=> Strong(p)
  BY <1>1, Unmoved DEF R!GetCitations
<1>3. corpus' = corpus /\ asked' = asked /\ offset' = offset /\ pages' = pages
  BY DEF R!GetCitations
<1>4. ShownSoFar' /\ NothingLeft'
  <2>1. \A i \in 1..Last : FirstOfItsDocument(i)' <=> FirstOfItsDocument(i)
    BY <1>2, <1>3 DEF FirstOfItsDocument
  <2>2. R!Shown' = R!Shown
    BY <1>3 DEF R!Shown
  <2>. QED
    BY <1>1, <1>2, <1>3, <2>1, <2>2 DEF ShownSoFar, NothingLeft
<1>5. CitedFromChosen'
  <2>1. ASSUME asked.query, NEW i \in DOMAIN citations' PROVE citations'[i].sources \subseteq Chosen
    <3>1. CASE citations' = R!Title
      BY <2>1, <3>1 DEF R!Title
    <3>2. CASE citations' \in Seq(Citation(Chosen))
      <4>1. citations'[i] \in Citation(Chosen)
        BY <2>1, <3>2
      <4>. QED
        BY <4>1 DEF Citation
    <3>. QED
      BY <1>1, <2>1, <3>1, <3>2, CitedForQuery
  <2>. QED
    BY <1>2, <1>3, <2>1 DEF CitedFromChosen
<1>. QED
  BY <1>1, <1>2, <1>3, <1>4, <1>5 DEF PagingInv, Page

LEMMA RetrievalStutter == PagingInv /\ UNCHANGED R!vars => PagingInv'
<1> SUFFICES ASSUME PagingInv, UNCHANGED R!vars PROVE PagingInv'
  OBVIOUS
<1>1. /\ corpus' = corpus /\ asked' = asked /\ offset' = offset /\ pages' = pages
      /\ citations' = citations
  BY DEF R!vars
<1>2. /\ Posed' <=> Posed
      /\ Chosen' = Chosen /\ Ranking' = Ranking /\ Last' = Last
      /\ \A p : Strong(p)' <=> Strong(p)
  BY <1>1, Unmoved
<1>3. \A i \in 1..Last : FirstOfItsDocument(i)' <=> FirstOfItsDocument(i)
  BY <1>1, <1>2 DEF FirstOfItsDocument
<1>4. R!Shown' = R!Shown
  BY <1>1 DEF R!Shown
<1>. QED
  BY <1>1, <1>2, <1>3, <1>4 DEF PagingInv, Page, ShownSoFar, NothingLeft, CitedFromChosen

THEOREM PagingInvHolds == R!Spec => []PagingInv
<1>1. R!Init => PagingInv
  BY RetrievalInit
<1>2. PagingInv /\ [R!Next]_R!vars => PagingInv'
  BY NextPageStep, GetCitationsStep, RetrievalStutter DEF R!Next
<1>. QED
  BY <1>1, <1>2, PTL DEF R!Spec

(* Nothing is found or cited for a query but what its filters select,        *)
(* whatever is stored and asked, on every page and in every citation.        *)
THEOREM OnlySelectedHolds == R!Spec => []OnlySelected
<1>1. PagingInv => OnlySelected
  BY PagingInvImpliesOnlySelected DEF OnlySelected
<1>. QED
  BY <1>1, PagingInvHolds, PTL

(* Whoever pages until a page is empty has been shown every document with a  *)
(* chunk that passes, by its best chunk, for every page size, threshold and  *)
(* number of chunks.                                                         *)
THEOREM NothingSkippedHolds == R!Spec => []NothingSkipped
<1>1. PagingInv => NothingSkipped
  BY PagingInvImpliesNothingSkipped DEF NothingSkipped
<1>. QED
  BY <1>1, PagingInvHolds, PTL

(* Without a query every chunk of the document is cited in full, overlaps    *)
(* merged, and for a query the citations are together no longer than asked,  *)
(* but for an ellipsis: for every store, every text and every length.        *)
THEOREM CitedAsAskedHolds == R!Spec => []CitedAsAsked
<1>1. R!Init => R!CitedAsAsked
  <2> SUFFICES ASSUME R!Init PROVE R!CitedAsAsked
    OBVIOUS
  <2>1. citations = <<>> /\ asked.max_length \in Nat
    BY RetrievalInit, Posing DEF PagingInv, R!Init
  <2>2. R!Length(citations) <= asked.max_length + 1
    BY <2>1, LengthOfNone
  <2>. QED
    BY <2>1, <2>2 DEF R!CitedAsAsked
<1>2. PagingInv /\ R!GetCitations => R!CitedAsAsked'
  <2> SUFFICES ASSUME PagingInv, R!GetCitations PROVE R!CitedAsAsked'
    OBVIOUS
  <2>1. Posed /\ corpus' = corpus /\ asked' = asked
    BY DEF PagingInv, R!GetCitations
  <2>2. ASSUME ~asked.query, NEW p \in R!Points, corpus[p].doc = asked.doc
        PROVE  \E i \in DOMAIN citations' : /\ citations'[i].section = corpus[p].section
                                           /\ R!Within(corpus[p].text, citations'[i].text)
    <3>1. p \in OfDocument
      BY <2>2 DEF OfDocument
    <3>. QED
      BY <2>1, <2>2, <3>1, CitedInFull
  <2>3. asked.query /\ citations' # R!Title => R!Length(citations') <= asked.max_length + 1
    BY <2>1, CitedForQuery
  <2>4. R!Points' = R!Points
    BY <2>1 DEF R!Points
  <2>. QED
    BY <2>1, <2>2, <2>3, <2>4 DEF R!CitedAsAsked
<1>3. R!CitedAsAsked /\ UNCHANGED <<corpus, asked, citations>> => R!CitedAsAsked'
  <2> SUFFICES ASSUME R!CitedAsAsked, UNCHANGED <<corpus, asked, citations>> PROVE R!CitedAsAsked'
    OBVIOUS
  <2>1. corpus' = corpus /\ asked' = asked /\ citations' = citations /\ R!Points' = R!Points
    BY DEF R!Points
  <2>. QED
    BY <2>1 DEF R!CitedAsAsked
<1>4. PagingInv /\ R!CitedAsAsked /\ [R!Next]_R!vars => R!CitedAsAsked'
  BY <1>2, <1>3 DEF R!Next, R!NextPage, R!vars
<1>5. R!CitedAsAsked => CitedAsAsked
  BY DEF CitedAsAsked
<1>. QED
  BY <1>1, <1>4, <1>5, PagingInvHolds, PTL DEF R!Spec

=============================================================================
