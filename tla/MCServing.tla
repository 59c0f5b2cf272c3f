------------------------------ MODULE MCServing ------------------------------
(* Model checking of three parts of the serving process that share no       *)
(* state: the Redis client, the process with its database client, and what  *)
(* is read out of the vector store.  Each behaviour explores one of them    *)
(* while the others rest.                                                   *)
(* Searches are over four chunks of two documents, details over three       *)
(* chunks in up to two sections, their texts words of two letters.          *)
EXTENDS CacheClient, Integers

CONSTANTS
    Requests, Main, PoolSize, Statements, MaxPools,
    Corpora, Questions, None, Letters, MinOverlap, MaxOverlap, MinRemainder, Today, Resolved
VARIABLES
    part,           \* the part that is explored
    main, stop_event, forced, should_exit, pool, pools, lent, request, refused, db_faulty,
    corpus, asked, offset, pages, citations

Stores ==
    {[p \in 1..4 |-> [doc |-> doc[p], region_id |-> region[doc[p]], not_actual_since |-> since[p],
                      section |-> 1, index |-> p, text |-> <<"a">>, score |-> p]] :
        doc \in {d \in [1..4 -> {"a", "b"}] : d[1] = "a"}, region \in [{"a", "b"} -> {"77", None}],
        since \in {f \in [1..4 -> {None, Today, Today + 1}] :
                    \A p \in 1..4 : f[p] \in {Today, IF p \in {1, 4} THEN None ELSE Today + 1}}}
Words == [1..2 -> {"a", "b"}] \cup [1..3 -> {"a", "b"}]
Documents ==
    {[p \in 1..3 |-> [doc |-> IF p = 3 THEN other ELSE "a", region_id |-> "77",
                      not_actual_since |-> IF other = "b" /\ p = 1 THEN Today ELSE None,
                      section |-> section[p],
                      index |-> <<2, 3, 1>>[p], text |-> text[p], score |-> p]] :
        other \in {"a", "b"}, section \in {<<1, 1, 1>>, <<2, 1, 2>>, <<1, 2, 2>>},
        text \in [1..3 -> Words]}
TheCorpora == [search |-> Stores, detail |-> Documents]

Searches ==
    {[kind |-> "search", doc |-> None, region |-> region[1], region_id |-> region[2],
      score_threshold |-> threshold, max_results |-> n, max_length |-> 0, query |-> TRUE] :
        region \in {<<None, None>>, <<"Moscow", None>>, <<"Atlantis", None>>, <<"Atlantis", "77">>},
        threshold \in {2, None}, n \in 1..2}
Details ==
    {[kind |-> "detail", doc |-> "a", region |-> "Moscow", region_id |-> None,
      score_threshold |-> 2, max_results |-> 2, max_length |-> n, query |-> query] :
        n \in {1, 3}, query \in BOOLEAN}
TheResolved == [name \in {"Moscow", "Atlantis"} |-> IF name = "Moscow" THEN "77" ELSE None]
TheQuestions == Searches \cup Details

S == INSTANCE Server
R == INSTANCE Retrieval

ASSUME ServingAssumption == S!ServerAssumption /\ R!RetrievalAssumption

server == <<main, stop_event, forced, should_exit, pool, pools, lent, request, refused, db_faulty>>
retrieval == <<corpus, asked, offset, pages, citations>>

Stopped ==
    /\ main = "stopped"
    /\ stop_event = TRUE /\ forced = FALSE /\ should_exit = TRUE /\ db_faulty = FALSE
    /\ pool = 0 /\ pools = [p \in S!Pools |-> "none"] /\ lent = 0
    /\ request = [r \in Requests |-> S!Idle] /\ refused = {}
NothingAsked ==
    /\ asked = [kind |-> "none", doc |-> None, region |-> None, region_id |-> None,
                score_threshold |-> None, max_results |-> 1, max_length |-> 0, query |-> FALSE]
    /\ corpus = <<>> /\ offset = 0 /\ pages = <<>> /\ citations = <<>>

ServingInit ==
    /\ Init
    /\ \/ part = "cache" /\ Stopped /\ NothingAsked
       \/ part = "server" /\ S!Init /\ NothingAsked
       \/ part = "retrieval" /\ Stopped /\ R!Init
ServingNext ==
    \/ part = "cache" /\ Next /\ UNCHANGED <<part, server, retrieval>>
    \/ part = "server" /\ S!Next /\ UNCHANGED <<part, vars, retrieval>>
    \/ part = "retrieval" /\ R!Next /\ UNCHANGED <<part, vars, server>>
ServingSpec ==
    /\ ServingInit /\ [][ServingNext]_<<part, vars, server, retrieval>>
    /\ S!Fairness
    /\ \A t \in Tasks : /\ WF_vars(Progress(t))
                        /\ WF_vars(part = "cache" /\ (Reuse(t) \/ Create(t)))

(* The properties of Server: no pool is lost, one signal disturbs no        *)
(* request, and every request and the process itself come to an end.        *)
OnePool == S!OnePool
Undisturbed == S!Undisturbed
Ends == S!Ends

(* The properties of Retrieval: only what was selected is shown, no         *)
(* document is skipped by paging, citations are whole and short enough.     *)
OnlySelected == R!OnlySelected
NothingSkipped == R!NothingSkipped
CitedAsAsked == R!CitedAsAsked
PagedByTotalCount == R!PagedByTotalCount
=============================================================================
