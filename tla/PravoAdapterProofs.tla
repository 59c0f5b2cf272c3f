-------------------------- MODULE PravoAdapterProofs --------------------------
(* Proofs about PravoAdapter, for every number of coroutines, documents,     *)
(* blocks and versions and all times to live: the stamp on the names of      *)
(* authorities never makes old ones look fresh, and with one ingest at a     *)
(* time every document it stores has the jurisdiction of its block.          *)
EXTENDS PravoAdapter, TLAPS

Places == Jurisdictions \cup {None}
Task == [pc : Persisting \cup {"idle", "fetch", "refresh authorities", "refresh types",
                               "search", "text"},
         key : Key, version : 1..MaxVersion, jurisdiction : Places,
         block : DOMAIN Blocks, todo : SUBSET Docs, since : 0..PopulateTtl]
Reply == [outcome : {"none", "fresh", "stale", "error", "not found"},
          doc : Docs, version : 0..MaxVersion, age : 0..StaleTtl]
Cached == [version : 0..MaxVersion, age : 0..StaleTtl + 1]
Row == [version : 0..MaxVersion, by : {"get", "ingest"}, jurisdiction : Places]

(* TypeOK, but for the tasks.                                                *)
DataOK ==
    /\ version \in [Docs -> 1..MaxVersion]
    /\ faulty \in BOOLEAN
    /\ cb \in Breaker
    /\ jurisdiction \in Places
    /\ authority_cache \in BOOLEAN /\ doc_type_cache \in BOOLEAN
    /\ populated \in 0..PopulateTtl
    /\ loaded \in 0..PopulateTtl
    /\ cache \in [Asked -> Cached]
    /\ document \in [Docs -> Row]
    /\ reply \in [Getters -> Reply]

LEMMA TypeIs == TypeOK <=> DataOK /\ task \in [Tasks -> Task]
  BY DEF TypeOK, DataOK, Task, Reply, Cached, Row, Places

LEMMA TypeIsNext == TypeOK' <=> DataOK' /\ task' \in [Tasks -> Task]
  BY DEF TypeOK, DataOK, Task, Reply, Cached, Row, Places

-----------------------------------------------------------------------------
(* The inductive invariant.                                                  *)

(* A refresh in progress carries a stamp that is no younger than the names   *)
(* it has loaded, or than those another coroutine has loaded since.          *)
Stamped ==
    /\ StampHonest
    /\ \A t \in Tasks : task[t].pc = "refresh types" => loaded <= task[t].since

(* While a task of ingest() works on a block, j, the jurisdiction of the     *)
(* parser, is the block's; all that is left to do is of the block; and the   *)
(* document in hand was parsed with it.                                      *)
OfBlock(b) == {d \in Docs : BlockOf[d] = b}
InBlock(me, j) ==
    me.pc \in {"search", "text"} \cup Persisting =>
        /\ j = Blocks[me.block]
        /\ me.todo \subseteq OfBlock(me.block)
        /\ me.pc \in Persisting =>
              me.jurisdiction = Blocks[me.block] /\ me.key.doc \in OfBlock(me.block)
InBlocks == \A i \in Ingesters : InBlock(task[i], jurisdiction)

(* A fetch in progress is for an id that get() was asked for.                *)
Asking == \A t \in Tasks : task[t].pc = "fetch" => task[t].key \in Asked

IndInv == TypeOK /\ Stamped /\ Asking
BlockInv == InBlocks /\ IngestedJurisdiction

(* What a step of a task does to it: it keeps its type, its stamp, what it   *)
(* was asked for and, if it ingests, its block.                              *)
Moves(t) ==
    \E me \in Task :
        /\ Step(t, me)
        /\ me.pc = "refresh types" => loaded' <= me.since
        /\ me.pc = "fetch" => me.key \in Asked
        /\ t \in Ingesters /\ InBlock(task[t], jurisdiction) => InBlock(me, jurisdiction')

-----------------------------------------------------------------------------
(* The operators keep within their types.                                    *)

LEMMA BreakerTyped ==
  /\ NewBreaker \in Breaker
  /\ \A b \in Breaker : /\ Elapse(b) \in Breaker /\ AfterCanRequest(b) \in Breaker
                        /\ AfterSuccess(b) \in Breaker /\ AfterFailure(b) \in Breaker
<1>1. 0 \in 0..CountCap /\ 0 \in 0..HalfOpenMax /\ 0 \in 0..RecoveryTimeout
      /\ RecoveryTimeout \in 0..RecoveryTimeout
  BY BreakerAssumption DEF BreakerAssumption
<1>2. NewBreaker \in Breaker
  BY <1>1 DEF NewBreaker, Breaker, CircuitState
<1>3. ASSUME NEW b \in Breaker
      PROVE  /\ Elapse(b) \in Breaker /\ AfterCanRequest(b) \in Breaker
             /\ AfterSuccess(b) \in Breaker /\ AfterFailure(b) \in Breaker
  <2>1. /\ b.state \in CircuitState /\ b.failure_count \in 0..CountCap
        /\ b.half_open_requests \in 0..HalfOpenMax /\ b.since \in 0..RecoveryTimeout
    BY DEF Breaker
  <2>2. b.since < RecoveryTimeout => b.since + 1 \in 0..RecoveryTimeout
    BY <2>1, BreakerAssumption DEF BreakerAssumption
  <2>3. Elapse(b) \in Breaker
    BY <2>1, <2>2 DEF Elapse, Breaker
  <2>4. BeginHalfOpen(b) \in Breaker /\ AfterSuccess(b) \in Breaker
    BY <1>1 DEF BeginHalfOpen, AfterSuccess, Breaker, CircuitState
  <2>5. b.half_open_requests < HalfOpenMax => b.half_open_requests + 1 \in 0..HalfOpenMax
    BY <2>1, BreakerAssumption DEF BreakerAssumption
  <2>6. b.state = "HALF_OPEN" /\ CanRequest(b) => b.half_open_requests < HalfOpenMax
    BY DEF CanRequest
  <2>7. AfterCanRequest(b) \in Breaker
    BY <2>4, <2>5, <2>6 DEF AfterCanRequest, Breaker
  <2>8. Saturated(b.failure_count + 1) \in 0..CountCap
    BY <2>1, BreakerAssumption DEF BreakerAssumption, Saturated
  <2>9. AfterFailure(b) \in Breaker
    BY <1>1, <2>8 DEF AfterFailure, Breaker, CircuitState
  <2>. QED
    BY <2>3, <2>4, <2>7, <2>9
<1>. QED
  BY <1>2, <1>3

LEMMA BlocksTyped ==
  /\ Len(Blocks) \in Nat \ {0} /\ DOMAIN Blocks = 1..Len(Blocks)
  /\ 1 \in DOMAIN Blocks /\ \A b \in DOMAIN Blocks : Blocks[b] \in Jurisdictions
<1>1. Blocks \in Seq(Jurisdictions) /\ Len(Blocks) > 0
  BY AdapterAssumption DEF AdapterAssumption
<1>. QED
  BY <1>1 DEF Jurisdictions

LEMMA IdleTyped ==
  /\ Idle \in Task /\ NoReply \in Reply
  /\ Idle.pc = "idle" /\ Idle.todo = {} /\ Idle.since = 0
<1>1. PICK asked \in Asked : asked \in Key
  BY AdapterAssumption DEF AdapterAssumption, Key
<1>2. (CHOOSE k \in Key : TRUE) \in Key /\ (CHOOSE d \in Docs : TRUE) \in Docs
  BY <1>1 DEF Key
<1>3. /\ 1 \in 1..MaxVersion /\ 0 \in 0..MaxVersion /\ 0 \in 0..PopulateTtl /\ 0 \in 0..StaleTtl
  BY AdapterAssumption DEF AdapterAssumption
<1>. QED
  BY <1>2, <1>3, BlocksTyped DEF Idle, Task, NoReply, Reply, Places

LEMMA EntryTyped ==
  ASSUME TypeOK, NEW d \in Docs
  PROVE  version[d] \in 1..MaxVersion /\ Entry(d) \in Cached
<1>1. version[d] \in 1..MaxVersion
  BY DEF TypeOK
<1>2. version[d] \in 0..MaxVersion /\ 0 \in 0..StaleTtl + 1
  BY <1>1, AdapterAssumption DEF AdapterAssumption
<1>. QED
  BY <1>1, <1>2 DEF Entry, Cached

-----------------------------------------------------------------------------
(* Where ingest() goes next.                                                 *)

(* A block that is entered sets the jurisdiction.                            *)
LEMMA EnterBlockMoves ==
  ASSUME TypeOK, NEW i \in Ingesters, NEW b \in 1..Len(Blocks) + 1, EnterBlock(i, b)
  PROVE  jurisdiction' \in Places /\ Moves(i)
<1>1. Idle \in Task /\ Idle.pc = "idle" /\ Idle.todo = {}
  BY IdleTyped
<1>2. CASE b > Len(Blocks)
  <2>1. Step(i, Idle) /\ jurisdiction' = None
    BY <1>2 DEF EnterBlock
  <2>2. Idle.pc # "refresh types" /\ InBlock(Idle, jurisdiction')
    BY <1>1 DEF InBlock, Persisting
  <2>. QED
    BY <1>1, <2>1, <2>2 DEF Moves, Places
<1>3. CASE ~(b > Len(Blocks))
  <2> DEFINE me == [Idle EXCEPT !.pc = "search", !.block = b]
  <2>1. b \in DOMAIN Blocks /\ Blocks[b] \in Jurisdictions
    BY <1>3, BlocksTyped
  <2>2. Step(i, me) /\ jurisdiction' = Blocks[b]
    BY <1>3 DEF EnterBlock
  <2>3. me \in Task /\ me.pc = "search" /\ me.block = b /\ me.todo = {}
    BY <1>1, <2>1 DEF Task
  <2> HIDE DEF me
  <2>4. InBlock(me, jurisdiction')
    BY <2>2, <2>3 DEF InBlock, Persisting
  <2>. QED
    BY <2>1, <2>2, <2>3, <2>4 DEF Moves, Places
<1>. QED
  BY <1>2, <1>3

LEMMA NextBlock ==
  ASSUME TypeOK, NEW i \in Ingesters
  PROVE  /\ task[i].block + 1 \in 1..Len(Blocks) + 1
         /\ 1 \in 1..Len(Blocks) + 1
<1>1. i \in Tasks
  BY DEF Tasks
<1>2. task[i] \in Task
  BY <1>1, TypeIs
<1>3. task[i].block \in DOMAIN Blocks
  BY <1>2 DEF Task
<1>. QED
  BY <1>3, BlocksTyped

(* An item is parsed with the jurisdiction that its block has set.           *)
LEMMA ItemsMove ==
  ASSUME DataOK, TypeOK, NEW i \in Ingesters, NEW todo \in SUBSET Docs, NEW b \in Breaker,
         InBlock(task[i], jurisdiction) =>
            jurisdiction = Blocks[task[i].block] /\ todo \subseteq OfBlock(task[i].block),
         UNCHANGED document, Items(i, todo, b)
  PROVE  DataOK' /\ Moves(i) /\ UNCHANGED <<populated, loaded>>
<1>1. /\ task[i] \in Task /\ task[i].block \in DOMAIN Blocks /\ i \in Tasks
      /\ cache \in [Asked -> Cached] /\ jurisdiction \in Places
  BY TypeIs DEF Tasks, Task, DataOK
<1>2. /\ cb' \in Breaker
      /\ UNCHANGED <<version, faulty, authority_cache, doc_type_cache, populated, loaded, reply>>
  BY BreakerTyped DEF Items
<1>3. /\ cache' \in [Asked -> Cached]
      /\ jurisdiction' \in Places /\ Moves(i)
  <2>1. CASE todo = {} \/ ~CanRequest(b)
    <3>1. EnterBlock(i, task[i].block + 1)
      BY <2>1 DEF Items
    <3>2. cache' = [k \in Asked |-> IF k.id = "guid" /\ k.doc \in todo
                                    THEN Entry(k.doc) ELSE cache[k]]
      BY <2>1 DEF Items
    <3>3. cache' \in [Asked -> Cached]
      BY <1>1, <3>2, EntryTyped
    <3>. QED
      BY <3>1, <3>3, NextBlock, EnterBlockMoves
  <2>2. CASE ~(todo = {} \/ ~CanRequest(b))
    <3>1. PICK d \in todo :
            /\ Step(i, [Idle EXCEPT !.pc = "connect", !.key = KeyOf("guid", d),
                          !.version = version[d], !.jurisdiction = jurisdiction,
                          !.block = task[i].block, !.todo = todo \ {d}])
            /\ cache' = [k \in Asked |-> IF k = KeyOf("guid", d) THEN Entry(d) ELSE cache[k]]
            /\ UNCHANGED jurisdiction
      BY <2>2 DEF Items
    <3> DEFINE me == [Idle EXCEPT !.pc = "connect", !.key = KeyOf("guid", d),
                          !.version = version[d], !.jurisdiction = jurisdiction,
                          !.block = task[i].block, !.todo = todo \ {d}]
    <3>2. version[d] \in 1..MaxVersion /\ Entry(d) \in Cached /\ KeyOf("guid", d) \in Key
      BY EntryTyped DEF Key, KeyOf
    <3>3. me \in Task /\ me.pc = "connect" /\ me.key = KeyOf("guid", d)
          /\ me.jurisdiction = jurisdiction /\ me.block = task[i].block /\ me.todo = todo \ {d}
      BY <1>1, <3>2, IdleTyped DEF Task, Persisting
    <3>4. Step(i, me)
      BY <3>1
    <3> HIDE DEF me
    <3>5. cache' \in [Asked -> Cached]
      BY <1>1, <3>1, <3>2
    <3>6. InBlock(task[i], jurisdiction) => InBlock(me, jurisdiction')
      BY <3>1, <3>3 DEF InBlock, OfBlock, KeyOf
    <3>. QED
      BY <1>1, <3>1, <3>3, <3>4, <3>5, <3>6 DEF Moves
  <2>. QED
    BY <2>1, <2>2
<1>. QED
  BY <1>2, <1>3 DEF DataOK

-----------------------------------------------------------------------------
(* Every step of a task keeps the data in its types and moves the task       *)
(* within its own; only loads touch the age of the names, and only the end   *)
(* of a refresh the stamp.                                                   *)
Good(t) == DataOK' /\ Moves(t) /\ (loaded' = loaded \/ loaded' = 0) /\ populated' = populated

LEMMA Facts ==
  ASSUME TypeOK, NEW t \in Tasks
  PROVE  /\ DataOK /\ task[t] \in Task
         /\ task[t].key \in Key /\ task[t].key.id \in {"eo", "guid"} /\ task[t].key.doc \in Docs
         /\ loaded \in Nat /\ populated \in Nat
<1>1. DataOK /\ task[t] \in Task
  BY TypeIs
<1>2. task[t].key \in Key
  BY <1>1 DEF Task
<1>3. loaded \in Nat /\ populated \in Nat
  BY <1>1 DEF DataOK
<1>. QED
  BY <1>1, <1>2, <1>3 DEF Key

(* A getter does not ingest.                                                 *)
LEMMA GetterMoves ==
  ASSUME NEW g \in Getters, NEW me \in Task, Step(g, me), me.pc # "refresh types",
         me.pc = "fetch" => me.key \in Asked
  PROVE  Moves(g)
<1>1. g \notin Ingesters
  BY AdapterAssumption DEF AdapterAssumption
<1>. QED
  BY <1>1 DEF Moves

LEMMA AnswerMoves ==
  ASSUME TypeOK, NEW g \in Getters, NEW outcome \in {"fresh", "stale", "error", "not found"},
         NEW d \in Docs, NEW v \in 0..MaxVersion, NEW age \in 0..StaleTtl,
         Answer(g, outcome, d, v, age)
  PROVE  Moves(g) /\ reply' \in [Getters -> Reply]
<1>1. Moves(g)
  BY IdleTyped, GetterMoves DEF Answer
<1>2. [outcome |-> outcome, doc |-> d, version |-> v, age |-> age] \in Reply
  BY DEF Reply
<1>3. reply \in [Getters -> Reply]
  BY TypeIs DEF DataOK
<1>. QED
  BY <1>1, <1>2, <1>3 DEF Answer

LEMMA AgeNatural ==
  ASSUME NEW age \in 0..PopulateTtl
  PROVE  age \in Nat /\ 0 <= age
  BY AdapterAssumption DEF AdapterAssumption

LEMMA Zeroes == 0 \in 0..MaxVersion /\ 0 \in 0..StaleTtl /\ 0 \in 0..StaleTtl + 1
  BY AdapterAssumption DEF AdapterAssumption

LEMMA AskGood ==
  ASSUME TypeOK, NEW g \in Getters, NEW k \in Asked, Ask(g, k)
  PROVE  Good(g)
<1> DEFINE me == [Idle EXCEPT !.pc = "fetch", !.key = k]
<1>1. k \in Key
  BY AdapterAssumption DEF AdapterAssumption, Key
<1>2. me \in Task /\ me.pc = "fetch" /\ me.key = k
  BY <1>1, IdleTyped DEF Task
<1>3. Step(g, me) /\ reply' = [reply EXCEPT ![g] = NoReply]
      /\ UNCHANGED <<version, faulty, cb, parser, cache, document>>
  BY DEF Ask
<1> HIDE DEF me
<1>4. Moves(g)
  BY <1>1, <1>2, <1>3, GetterMoves
<1>5. DataOK
  BY TypeIs
<1>6. DataOK'
  BY <1>3, <1>5, IdleTyped DEF DataOK, parser
<1>. QED
  BY <1>3, <1>4, <1>6 DEF Good, parser

LEMMA FetchedGood ==
  ASSUME TypeOK, NEW g \in Getters, Fetched(g)
  PROVE  Good(g)
<1> DEFINE d == task[g].key.doc
           me == [task[g] EXCEPT !.pc = "connect", !.version = version[d],
                                 !.jurisdiction = jurisdiction]
<1>1. DataOK /\ task[g] \in Task /\ d \in Docs
  BY Facts DEF Tasks
<1>2. version[d] \in 1..MaxVersion /\ Entry(d) \in Cached
  BY <1>1, EntryTyped
<1>3. me \in Task /\ me.pc = "connect"
  BY <1>1, <1>2 DEF DataOK, Task, Persisting
<1>4. /\ cache' = [cache EXCEPT ![task[g].key] = Entry(d)]
      /\ cb' = AfterCanRequest(cb)
      /\ (Step(g, me) /\ UNCHANGED reply) \/ Answer(g, "error", d, 0, 0)
      /\ UNCHANGED <<version, faulty, parser, document>>
  BY DEF Fetched
<1> HIDE DEF me
<1>5. cache' \in [Asked -> Cached] /\ cb' \in Breaker
  BY <1>1, <1>2, <1>4, BreakerTyped DEF DataOK
<1>6. Moves(g) /\ reply' \in [Getters -> Reply]
  BY <1>1, <1>3, <1>4, GetterMoves, AnswerMoves, Zeroes DEF DataOK
<1>7. DataOK'
  BY <1>1, <1>4, <1>5, <1>6 DEF DataOK, parser
<1>. QED
  BY <1>4, <1>6, <1>7 DEF Good, parser

LEMMA FetchFailsGood ==
  ASSUME TypeOK, Asking, NEW g \in Getters, FetchFails(g) \/ FetchMalformed(g)
  PROVE  Good(g)
<1>1. DataOK /\ task[g] \in Task /\ task[g].key.doc \in Docs
  BY Facts DEF Tasks
<1>2. UNCHANGED <<version, faulty, cb, parser, document>>
  BY DEF FetchFails, FetchMalformed
<1>3. Moves(g) /\ reply' \in [Getters -> Reply] /\ cache' \in [Asked -> Cached]
  <2>1. CASE FetchMalformed(g)
    BY <1>1, <2>1, AnswerMoves, Zeroes DEF FetchMalformed, DataOK
  <2>2. CASE FetchFails(g)
    <3> DEFINE k == task[g].key
               entry == cache[k]
    <3>1. CASE entry.version # 0 /\ entry.age <= StaleTtl
      <4>1. Answer(g, "stale", k.doc, entry.version, entry.age) /\ UNCHANGED cache
        BY <2>2, <3>1 DEF FetchFails
      <4>2. k \in Asked
        BY <2>2 DEF FetchFails, Asking, Tasks
      <4>3. entry \in Cached
        BY <1>1, <4>2 DEF DataOK
      <4>4. entry.version \in 0..MaxVersion /\ entry.age \in 0..StaleTtl
        BY <3>1, <4>3, AdapterAssumption DEF AdapterAssumption, Cached
      <4>. QED
        BY <1>1, <4>1, <4>4, AnswerMoves DEF DataOK
    <3>2. CASE ~(entry.version # 0 /\ entry.age <= StaleTtl)
      <4>1. Answer(g, "error", k.doc, 0, 0)
            /\ cache' = [cache EXCEPT ![k] = [version |-> 0, age |-> 0]]
        BY <2>2, <3>2 DEF FetchFails
      <4>2. [version |-> 0, age |-> 0] \in Cached
        BY Zeroes DEF Cached
      <4>. QED
        BY <1>1, <4>1, <4>2, AnswerMoves, Zeroes DEF DataOK
    <3>. QED
      BY <3>1, <3>2
  <2>. QED
    BY <2>1, <2>2
<1>4. DataOK'
  BY <1>1, <1>2, <1>3 DEF DataOK, parser
<1>. QED
  BY <1>2, <1>3, <1>4 DEF Good, parser

-----------------------------------------------------------------------------
(* _persist_document().                                                      *)

(* The document in hand stays the same.                                      *)
LEMMA PersistMoves ==
  ASSUME TypeOK, NEW t \in Tasks, task[t].pc \in Persisting,
         NEW pc \in Persisting \cup {"text"}, Step(t, [task[t] EXCEPT !.pc = pc]),
         UNCHANGED jurisdiction
  PROVE  Moves(t)
<1> DEFINE me == [task[t] EXCEPT !.pc = pc]
<1>1. task[t] \in Task
  BY Facts
<1>2. me \in Task /\ me.pc = pc /\ me.block = task[t].block /\ me.todo = task[t].todo
      /\ me.jurisdiction = task[t].jurisdiction /\ me.key = task[t].key
  BY <1>1 DEF Task
<1> HIDE DEF me
<1>3. InBlock(task[t], jurisdiction) => InBlock(me, jurisdiction')
  BY <1>2 DEF InBlock
<1>4. pc # "refresh types" /\ pc # "fetch"
  BY DEF Persisting
<1>. QED
  BY <1>2, <1>3, <1>4 DEF Moves, me

LEMMA LookupGood ==
  ASSUME TypeOK, NEW t \in Tasks, Connected(t) \/ LoadAuthorities(t) \/ LoadTypes(t)
  PROVE  Good(t)
<1>1. DataOK
  BY TypeIs
<1>2. 0 \in 0..PopulateTtl
  BY AdapterAssumption DEF AdapterAssumption
<1>3. CASE Connected(t)
  <2> DEFINE pc == IF ~authority_cache THEN "authorities"
                   ELSE IF ~doc_type_cache THEN "types" ELSE "upsert"
  <2>1. pc \in Persisting /\ task[t].pc \in Persisting
    BY <1>3 DEF Connected, Persisting
  <2>2. Step(t, [task[t] EXCEPT !.pc = pc])
        /\ UNCHANGED <<version, faulty, cb, parser, cache, document, reply>>
    BY <1>3 DEF Connected
  <2> HIDE DEF pc
  <2>3. Moves(t)
    BY <2>1, <2>2, PersistMoves DEF parser
  <2>. QED
    BY <1>1, <2>2, <2>3 DEF Good, DataOK, parser
<1>4. CASE LoadAuthorities(t)
  <2> DEFINE pc == IF doc_type_cache THEN "upsert" ELSE "types"
  <2>1. pc \in Persisting /\ task[t].pc \in Persisting
    BY <1>4 DEF LoadAuthorities, Persisting
  <2>2. /\ Step(t, [task[t] EXCEPT !.pc = pc])
        /\ (authority_cache' = TRUE /\ loaded' = 0) \/ UNCHANGED <<authority_cache, loaded>>
        /\ UNCHANGED <<version, faulty, cb, jurisdiction, doc_type_cache, populated, cache,
                       document, reply>>
    BY <1>4 DEF LoadAuthorities
  <2> HIDE DEF pc
  <2>3. Moves(t)
    BY <2>1, <2>2, PersistMoves
  <2>. QED
    BY <1>1, <1>2, <2>2, <2>3 DEF Good, DataOK
<1>5. CASE LoadTypes(t)
  <2>1. task[t].pc \in Persisting /\ "upsert" \in Persisting
    BY <1>5 DEF LoadTypes, Persisting
  <2>2. /\ Step(t, [task[t] EXCEPT !.pc = "upsert"])
        /\ doc_type_cache' = TRUE \/ UNCHANGED doc_type_cache
        /\ UNCHANGED <<version, faulty, cb, jurisdiction, authority_cache, populated, loaded,
                       cache, document, reply>>
    BY <1>5 DEF LoadTypes
  <2>3. Moves(t)
    BY <2>1, <2>2, PersistMoves
  <2>. QED
    BY <1>1, <2>2, <2>3 DEF Good, DataOK
<1>. QED
  BY <1>3, <1>4, <1>5

LEMMA UpsertGood ==
  ASSUME TypeOK, NEW t \in Tasks, Upsert(t)
  PROVE  Good(t)
<1> DEFINE me == task[t]
<1>1. DataOK /\ me \in Task /\ me.key.doc \in Docs
  BY Facts
<1>2. me.version \in 0..MaxVersion /\ me.jurisdiction \in Places /\ me.version \in 1..MaxVersion
  <2>1. me.version \in 1..MaxVersion /\ me.jurisdiction \in Places
    BY <1>1 DEF Task
  <2>2. me.version \in 0..MaxVersion
    BY <2>1, AdapterAssumption DEF AdapterAssumption
  <2>. QED
    BY <2>1, <2>2
<1>3. document' \in [Docs -> Row]
  BY <1>1, <1>2 DEF Upsert, Written, DataOK, Row
<1>4. cb' \in Breaker
  BY <1>1, BreakerTyped DEF Upsert, DataOK
<1>5. me.pc \in Persisting /\ UNCHANGED <<version, faulty, parser, cache>>
  BY DEF Upsert, Persisting
<1>6. Moves(t) /\ reply' \in [Getters -> Reply]
  <2>1. CASE t \in Getters /\ Answer(t, "fresh", me.key.doc, me.version, 0)
    BY <1>1, <1>2, <2>1, AnswerMoves, Zeroes
  <2>2. CASE Step(t, [me EXCEPT !.pc = "text"]) /\ UNCHANGED reply
    BY <1>1, <1>5, <2>2, PersistMoves DEF DataOK, parser
  <2>. QED
    BY <2>1, <2>2 DEF Upsert
<1>7. DataOK'
  BY <1>1, <1>3, <1>4, <1>5, <1>6 DEF DataOK, parser
<1>. QED
  BY <1>5, <1>6, <1>7 DEF Good, parser

LEMMA PersistFailsGood ==
  ASSUME TypeOK, NEW t \in Tasks, PersistFails(t)
  PROVE  Good(t)
<1>1. DataOK /\ task[t] \in Task /\ task[t].key.doc \in Docs
  BY Facts
<1>2. AfterFailure(cb) \in Breaker
  BY <1>1, BreakerTyped DEF DataOK
<1>3. CASE /\ t \in Getters
           /\ cb' = AfterFailure(cb)
           /\ Answer(t, "error", task[t].key.doc, 0, 0)
           /\ UNCHANGED <<version, faulty, parser, cache>>
  <2>1. Moves(t) /\ reply' \in [Getters -> Reply]
    BY <1>1, <1>3, AnswerMoves, Zeroes
  <2>2. UNCHANGED document
    BY DEF PersistFails
  <2>3. DataOK'
    BY <1>1, <1>2, <1>3, <2>1, <2>2 DEF DataOK, parser
  <2>. QED
    BY <1>3, <2>1, <2>3 DEF Good, parser
<1>4. CASE t \in Ingesters /\ Items(t, task[t].todo, AfterFailure(cb))
  <2>1. task[t].pc \in Persisting /\ UNCHANGED document
    BY DEF PersistFails
  <2>2. task[t].todo \in SUBSET Docs
    BY <1>1 DEF Task
  <2>3. InBlock(task[t], jurisdiction) =>
          jurisdiction = Blocks[task[t].block] /\ task[t].todo \subseteq OfBlock(task[t].block)
    BY <2>1 DEF InBlock
  <2>. QED
    BY <1>1, <1>2, <1>4, <2>1, <2>2, <2>3, ItemsMove DEF Good
<1>. QED
  BY <1>3, <1>4 DEF PersistFails

-----------------------------------------------------------------------------
(* ingest().                                                                 *)

LEMMA StartGood ==
  ASSUME TypeOK, NEW i \in Ingesters, StartIngest(i)
  PROVE  Good(i)
<1>1. DataOK
  BY TypeIs
<1>2. UNCHANGED <<version, faulty, cb, authority_cache, doc_type_cache, populated, loaded,
                  cache, document, reply>>
  BY DEF StartIngest
<1>3. jurisdiction' \in Places /\ Moves(i)
  <2>1. CASE populated < PopulateTtl
    BY <2>1, NextBlock, EnterBlockMoves DEF StartIngest
  <2>2. CASE ~(populated < PopulateTtl)
    <3> DEFINE me == [Idle EXCEPT !.pc = "refresh authorities"]
    <3>1. Step(i, me) /\ UNCHANGED jurisdiction
      BY <2>2 DEF StartIngest
    <3>2. me \in Task /\ me.pc = "refresh authorities"
      BY IdleTyped DEF Task
    <3> HIDE DEF me
    <3>3. InBlock(me, jurisdiction')
      BY <3>2 DEF InBlock, Persisting
    <3>. QED
      BY <1>1, <3>1, <3>2, <3>3 DEF Moves, DataOK
  <2>. QED
    BY <2>1, <2>2
<1>. QED
  BY <1>1, <1>2, <1>3 DEF Good, DataOK

LEMMA RefreshAuthoritiesGood ==
  ASSUME TypeOK, NEW i \in Ingesters, RefreshAuthorities(i)
  PROVE  Good(i)
<1> DEFINE me == [task[i] EXCEPT !.pc = "refresh types"]
<1>1. DataOK /\ task[i] \in Task /\ 0 \in 0..PopulateTtl
  BY Facts, AdapterAssumption DEF Tasks, AdapterAssumption
<1>2. /\ authority_cache' = TRUE /\ loaded' = 0
      /\ Step(i, me)
      /\ UNCHANGED <<version, faulty, cb, jurisdiction, doc_type_cache, populated, cache,
                     document, reply>>
  BY DEF RefreshAuthorities
<1>3. me \in Task /\ me.pc = "refresh types" /\ me.since \in 0..PopulateTtl
  BY <1>1 DEF Task
<1> HIDE DEF me
<1>4. InBlock(me, jurisdiction') /\ loaded' <= me.since
  <2>1. InBlock(me, jurisdiction')
    BY <1>3 DEF InBlock, Persisting
  <2>2. 0 <= me.since
    BY <1>3, AgeNatural
  <2>3. loaded' <= me.since
    BY <1>2, <2>2
  <2>. QED
    BY <2>1, <2>3
<1>5. Moves(i)
  BY <1>2, <1>3, <1>4 DEF Moves
<1>. QED
  BY <1>1, <1>2, <1>5 DEF Good, DataOK

(* A refresh or a search that fails: to the next block, or out.              *)
LEMMA FailsGood ==
  ASSUME TypeOK, NEW i \in Ingesters, RefreshFails(i) \/ SearchFails(i)
  PROVE  Good(i)
<1>1. DataOK
  BY TypeIs
<1>2. UNCHANGED <<version, faulty, cb, authority_cache, doc_type_cache, populated, loaded,
                  cache, document, reply>>
  BY DEF RefreshFails, SearchFails
<1>3. jurisdiction' \in Places /\ Moves(i)
  <2>1. CASE EnterBlock(i, 1) \/ EnterBlock(i, task[i].block + 1)
    BY <2>1, NextBlock, EnterBlockMoves
  <2>2. CASE Step(i, Idle) /\ UNCHANGED jurisdiction
    <3>1. InBlock(Idle, jurisdiction')
      BY IdleTyped DEF InBlock, Persisting
    <3>. QED
      BY <1>1, <2>2, <3>1, IdleTyped DEF Moves, DataOK
  <2>. QED
    BY <2>1, <2>2 DEF RefreshFails, SearchFails
<1>. QED
  BY <1>1, <1>2, <1>3 DEF Good, DataOK

(* The items of a block: when its search ends, and after each of them.       *)
LEMMA ItemsGood ==
  ASSUME TypeOK, NEW i \in Ingesters, Listed(i) \/ TextDone(i)
  PROVE  Good(i)
<1>1. DataOK /\ task[i] \in Task /\ cb \in Breaker
  BY Facts DEF Tasks, DataOK
<1>2. UNCHANGED document
  BY DEF Listed, TextDone
<1>3. CASE Listed(i)
  <2>1. task[i].pc = "search" /\ Items(i, OfBlock(task[i].block), cb)
    BY <1>3 DEF Listed, OfBlock
  <2>2. OfBlock(task[i].block) \in SUBSET Docs
    BY DEF OfBlock
  <2>3. InBlock(task[i], jurisdiction) => jurisdiction = Blocks[task[i].block]
    BY <2>1 DEF InBlock
  <2>. QED
    BY <1>1, <1>2, <2>1, <2>2, <2>3, ItemsMove DEF Good
<1>4. CASE TextDone(i)
  <2>1. task[i].pc = "text" /\ Items(i, task[i].todo, cb)
    BY <1>4 DEF TextDone
  <2>2. task[i].todo \in SUBSET Docs
    BY <1>1 DEF Task
  <2>3. InBlock(task[i], jurisdiction) =>
          jurisdiction = Blocks[task[i].block] /\ task[i].todo \subseteq OfBlock(task[i].block)
    BY <2>1 DEF InBlock
  <2>. QED
    BY <1>1, <1>2, <2>1, <2>2, <2>3, ItemsMove DEF Good
<1>. QED
  BY <1>3, <1>4

-----------------------------------------------------------------------------
(* The steps together.                                                       *)

LEMMA Kept ==
  ASSUME IndInv, NEW t \in Tasks, Good(t)
  PROVE  IndInv'
<1>1. PICK me \in Task :
        /\ Step(t, me)
        /\ me.pc = "refresh types" => loaded' <= me.since
        /\ me.pc = "fetch" => me.key \in Asked
  BY DEF Good, Moves
<1>2. task \in [Tasks -> Task] /\ Stamped /\ Asking /\ loaded \in Nat /\ populated \in Nat
  BY TypeIs, Facts DEF IndInv
<1>3. task' = [task EXCEPT ![t] = me] /\ task' \in [Tasks -> Task]
  BY <1>1, <1>2 DEF Step
<1>4. TypeOK'
  BY <1>3, TypeIsNext DEF Good
<1>5. (loaded' = loaded \/ loaded' = 0) /\ populated' = populated
  BY DEF Good
<1>6. StampHonest'
  <2>1. loaded' <= loaded
    BY <1>2, <1>5
  <2>2. populated < PopulateTtl => loaded <= populated
    BY <1>2 DEF Stamped, StampHonest
  <2>. QED
    BY <1>2, <1>5, <2>1, <2>2 DEF StampHonest
<1>7. ASSUME NEW u \in Tasks, task'[u].pc = "refresh types" PROVE loaded' <= task'[u].since
  <2>1. CASE u = t
    BY <1>1, <1>2, <1>3, <1>7, <2>1
  <2>2. CASE u # t
    <3>1. task'[u] = task[u] /\ task[u] \in Task
      BY <1>2, <1>3, <2>2
    <3>2. task[u].since \in 0..PopulateTtl /\ loaded <= task[u].since
      BY <1>2, <1>7, <3>1 DEF Stamped, Task
    <3>3. task[u].since \in Nat
      BY <3>2, AgeNatural
    <3>. QED
      BY <1>2, <1>5, <3>1, <3>2, <3>3
  <2>. QED
    BY <2>1, <2>2
<1>8. Asking'
  BY <1>1, <1>2, <1>3 DEF Asking
<1>. QED
  BY <1>4, <1>6, <1>7, <1>8 DEF IndInv, Stamped

(* The end of a refresh: its stamp becomes that of the caches.               *)
LEMMA RefreshTypesMoves ==
  ASSUME TypeOK, NEW i \in Ingesters, RefreshTypes(i)
  PROVE  DataOK' /\ Moves(i) /\ UNCHANGED loaded /\ populated' = task[i].since
<1>1. DataOK /\ task[i] \in Task
  BY Facts DEF Tasks
<1>2. /\ doc_type_cache' = TRUE /\ populated' = task[i].since /\ EnterBlock(i, 1)
      /\ UNCHANGED <<version, faulty, cb, authority_cache, loaded, cache, document, reply>>
  BY DEF RefreshTypes
<1>3. jurisdiction' \in Places /\ Moves(i)
  BY <1>2, NextBlock, EnterBlockMoves
<1>4. task[i].since \in 0..PopulateTtl
  BY <1>1 DEF Task
<1>. QED
  BY <1>1, <1>2, <1>3, <1>4 DEF DataOK

LEMMA RefreshTypesKeeps ==
  ASSUME IndInv, NEW i \in Ingesters, RefreshTypes(i)
  PROVE  IndInv'
<1>1. DataOK' /\ Moves(i) /\ UNCHANGED loaded /\ populated' = task[i].since
  BY RefreshTypesMoves DEF IndInv
<1>2. PICK me \in Task :
        /\ Step(i, me)
        /\ me.pc = "refresh types" => loaded' <= me.since
        /\ me.pc = "fetch" => me.key \in Asked
  BY <1>1 DEF Moves
<1>3. i \in Tasks /\ task \in [Tasks -> Task] /\ Stamped /\ Asking
  BY TypeIs DEF IndInv, Tasks
<1>4. task' = [task EXCEPT ![i] = me] /\ task' \in [Tasks -> Task]
  BY <1>2, <1>3 DEF Step
<1>5. TypeOK'
  BY <1>1, <1>4, TypeIsNext
<1>6. StampHonest'
  BY <1>1, <1>3 DEF RefreshTypes, Stamped, StampHonest
<1>7. Stamped' /\ Asking'
  BY <1>1, <1>2, <1>3, <1>4, <1>6 DEF Stamped, Asking
<1>. QED
  BY <1>5, <1>7 DEF IndInv

LEMMA OlderBounded ==
  ASSUME NEW bound \in Nat, NEW age \in 0..bound
  PROVE  /\ Older(age, bound) \in 0..bound
         /\ \A b \in 0..bound : age <= b => Older(age, bound) <= Older(b, bound)
         /\ Older(age, bound) < bound => Older(age, bound) = age + 1
  BY DEF Older

(* All stamps grow older together.                                           *)
LEMMA TickKeeps ==
  ASSUME IndInv, Tick
  PROVE  IndInv'
<1>1. DataOK /\ task \in [Tasks -> Task] /\ Stamped /\ Asking
  BY TypeIs DEF IndInv
<1>2. PopulateTtl \in Nat /\ StaleTtl + 1 \in Nat
  BY AdapterAssumption DEF AdapterAssumption
<1>3. populated' = Older(populated, PopulateTtl) /\ loaded' = Older(loaded, PopulateTtl)
      /\ cb' = Elapse(cb)
      /\ UNCHANGED <<version, faulty, jurisdiction, authority_cache, doc_type_cache, document,
                     reply>>
  BY DEF Tick
<1>4. populated \in 0..PopulateTtl /\ loaded \in 0..PopulateTtl /\ cb \in Breaker
      /\ cache \in [Asked -> Cached]
  BY <1>1 DEF DataOK
<1>5. ASSUME NEW k \in Asked
      PROVE  IF cache[k].version = 0 THEN cache[k] \in Cached
             ELSE [cache[k] EXCEPT !.age = Older(@, StaleTtl + 1)] \in Cached
  <2>1. cache[k] \in Cached
    BY <1>4
  <2>2. Older(cache[k].age, StaleTtl + 1) \in 0..StaleTtl + 1
    BY <1>2, <2>1, OlderBounded DEF Cached
  <2>. QED
    BY <2>1, <2>2 DEF Cached
<1>6. cache' \in [Asked -> Cached]
  BY <1>5 DEF Tick
<1>7. populated' \in 0..PopulateTtl /\ loaded' \in 0..PopulateTtl /\ cb' \in Breaker
  BY <1>2, <1>3, <1>4, OlderBounded, BreakerTyped
<1>8. DataOK'
  BY <1>1, <1>3, <1>6, <1>7 DEF DataOK
<1>9. ASSUME NEW t \in Tasks
      PROVE  /\ task'[t] \in Task /\ task'[t].pc = task[t].pc /\ task'[t].key = task[t].key
             /\ task[t].pc = "refresh types" => loaded' <= task'[t].since
  <2>1. task[t] \in Task
    BY <1>1
  <2>2. task[t].since \in 0..PopulateTtl
    BY <2>1 DEF Task
  <2> DEFINE since == Older(task[t].since, PopulateTtl)
             me == [task[t] EXCEPT !.since = since]
  <2>3. since \in 0..PopulateTtl
    BY <1>2, <2>2, OlderBounded
  <2>4. task[t].pc = "refresh types" => loaded' <= since
    <3>1. task[t].pc = "refresh types" => loaded <= task[t].since
      BY <1>1 DEF Stamped
    <3>. QED
      BY <1>2, <1>3, <1>4, <2>2, <3>1, OlderBounded
  <2>5. task'[t] = IF task[t].pc \in {"refresh authorities", "refresh types"}
                   THEN me ELSE task[t]
    BY DEF Tick
  <2> HIDE DEF since
  <2>6. me \in Task /\ me.pc = task[t].pc /\ me.key = task[t].key /\ me.since = since
    BY <2>1, <2>3 DEF Task
  <2> HIDE DEF me
  <2>. QED
    BY <2>1, <2>4, <2>5, <2>6
<1>10. task' \in [Tasks -> Task]
  BY <1>9 DEF Tick
<1>11. StampHonest'
  <2>1. SUFFICES ASSUME populated' < PopulateTtl PROVE loaded' <= populated'
    BY DEF StampHonest
  <2>2. populated' = populated + 1
    BY <1>2, <1>3, <1>4, <2>1, OlderBounded
  <2>3. populated < PopulateTtl
    BY <1>2, <1>4, <2>1, <2>2
  <2>4. loaded <= populated
    BY <1>1, <2>3 DEF Stamped, StampHonest
  <2>. QED
    BY <1>2, <1>3, <1>4, <2>4, OlderBounded
<1>12. Stamped' /\ Asking'
  BY <1>1, <1>9, <1>11 DEF Stamped, Asking
<1>13. TypeOK'
  BY <1>8, <1>10, TypeIsNext
<1>. QED
  BY <1>12, <1>13 DEF IndInv

LEMMA InitInvariant == Init => IndInv
<1>. SUFFICES ASSUME Init PROVE IndInv
  OBVIOUS
<1>1. /\ 1 \in 1..MaxVersion /\ PopulateTtl \in 0..PopulateTtl
      /\ ~(PopulateTtl < PopulateTtl)
  BY AdapterAssumption DEF AdapterAssumption
<1>2. [version |-> 0, age |-> 0] \in Cached
      /\ [version |-> 0, jurisdiction |-> None, by |-> "get"] \in Row
  BY Zeroes DEF Cached, Row, Places
<1>3. DataOK
  BY <1>1, <1>2, IdleTyped, BreakerTyped DEF Init, DataOK, Places
<1>4. TypeOK
  BY <1>3, TypeIs, IdleTyped DEF Init
<1>5. Stamped /\ Asking
  BY <1>1, IdleTyped DEF Init, Stamped, StampHonest, Asking
<1>. QED
  BY <1>4, <1>5 DEF IndInv

(* Every step of a task but the end of a refresh.                            *)
LEMMA TaskGood ==
  ASSUME IndInv
  PROVE  /\ \A g \in Getters : GetStep(g) \/ (\E k \in Asked : Ask(g, k)) => Good(g)
         /\ \A i \in Ingesters : IngestStep(i) \/ StartIngest(i) => Good(i) \/ RefreshTypes(i)
         /\ \A t \in Tasks : PersistStep(t) => Good(t)
<1>1. TypeOK /\ Asking
  BY DEF IndInv
<1>2. ASSUME NEW g \in Getters, GetStep(g) \/ \E k \in Asked : Ask(g, k) PROVE Good(g)
  BY <1>1, <1>2, AskGood, FetchedGood, FetchFailsGood DEF GetStep
<1>3. ASSUME NEW i \in Ingesters, IngestStep(i) \/ StartIngest(i)
      PROVE  Good(i) \/ RefreshTypes(i)
  BY <1>1, <1>3, StartGood, RefreshAuthoritiesGood, FailsGood, ItemsGood DEF IngestStep
<1>4. ASSUME NEW t \in Tasks, PersistStep(t) PROVE Good(t)
  BY <1>1, <1>4, LookupGood, UpsertGood, PersistFailsGood DEF PersistStep
<1>. QED
  BY <1>2, <1>3, <1>4

LEMMA StepInvariant == IndInv /\ [Next]_vars => IndInv'
<1>. SUFFICES ASSUME IndInv, [Next]_vars PROVE IndInv'
  OBVIOUS
<1>1. ASSUME NEW g \in Getters, GetStep(g) \/ PersistStep(g) \/ \E k \in Asked : Ask(g, k)
      PROVE  IndInv'
  BY <1>1, TaskGood, Kept DEF Tasks
<1>2. ASSUME NEW i \in Ingesters, IngestStep(i) \/ PersistStep(i) \/ StartIngest(i)
      PROVE  IndInv'
  BY <1>2, TaskGood, Kept, RefreshTypesKeeps DEF Tasks
<1>3. ASSUME NEW d \in Docs, Amend(d) PROVE IndInv'
  <2>1. version' \in [Docs -> 1..MaxVersion]
    <3>1. version \in [Docs -> 1..MaxVersion] /\ version[d] \in 1..MaxVersion
      BY DEF IndInv, TypeOK
    <3>2. version[d] < MaxVersion /\ version' = [version EXCEPT ![d] = version[d] + 1]
      BY <1>3 DEF Amend
    <3>3. version[d] + 1 \in 1..MaxVersion
      BY <3>1, <3>2, AdapterAssumption DEF AdapterAssumption
    <3>. QED
      BY <3>1, <3>2, <3>3
  <2>2. UNCHANGED <<faulty, cb, parser, cache, document, task, reply>>
    BY <1>3 DEF Amend
  <2>. QED
    BY <2>1, <2>2, TypeIs, TypeIsNext
       DEF IndInv, DataOK, Stamped, StampHonest, Asking, parser
<1>4. CASE Heal
  <2>1. faulty' \in BOOLEAN /\ UNCHANGED <<version, cb, parser, cache, document, task, reply>>
    BY <1>4 DEF Heal
  <2>. QED
    BY <2>1, TypeIs, TypeIsNext DEF IndInv, DataOK, Stamped, StampHonest, Asking, parser
<1>5. CASE UNCHANGED vars
  BY <1>5, TypeIs, TypeIsNext DEF vars, IndInv, DataOK, Stamped, StampHonest, Asking, parser
<1>. QED
  BY <1>1, <1>2, <1>3, <1>4, <1>5, TickKeeps DEF Next

(* The inductive invariant holds in every reachable state.                   *)
THEOREM Invariance == Spec => []IndInv
<1>. QED
  BY InitInvariant, StepInvariant, PTL DEF Spec

(* Every variable keeps its type: whatever order answers come in, the        *)
(* breaker, the caches and the rows stay within their bounds.                *)
THEOREM TypeCorrect == Spec => []TypeOK
<1>1. IndInv => TypeOK
  BY DEF IndInv
<1>. QED
  BY <1>1, Invariance, PTL

(* The time stamped on the names of authorities is never younger than the    *)
(* last load, however long refreshes take and however many run at once.      *)
THEOREM StampHonestHolds == Spec => []StampHonest
<1>1. IndInv => StampHonest
  BY DEF IndInv, Stamped
<1>. QED
  BY <1>1, Invariance, PTL

-----------------------------------------------------------------------------
(* The jurisdiction of what is ingested, with at most one ingest at a time.  *)
OneIngest == \A i, j \in Ingesters : i = j

(* The row that is written takes the jurisdiction of the document in hand.   *)
LEMMA WrittenInBlock ==
  ASSUME TypeOK, BlockInv, NEW t \in Tasks, Upsert(t)
  PROVE  IngestedJurisdiction'
<1> DEFINE me == task[t]
           d == me.key.doc
<1>1. me \in Task /\ d \in Docs /\ document \in [Docs -> Row] /\ me.pc \in Persisting
  BY Facts DEF DataOK, Upsert, Persisting
<1>2. document' = [document EXCEPT ![d] =
         [version |-> me.version, by |-> IF t \in Getters THEN "get" ELSE "ingest",
          jurisdiction |-> IF me.jurisdiction # None THEN me.jurisdiction
                           ELSE document[d].jurisdiction]]
  BY <1>1 DEF Upsert, Written
<1>3. ASSUME t \in Ingesters
      PROVE  me.jurisdiction = Blocks[BlockOf[d]] /\ me.jurisdiction # None
  <2>1. InBlock(me, jurisdiction) /\ me.block \in DOMAIN Blocks
    BY <1>1, <1>3 DEF BlockInv, InBlocks, Task
  <2>2. me.jurisdiction = Blocks[me.block] /\ BlockOf[d] = me.block
    BY <1>1, <2>1 DEF InBlock, OfBlock
  <2>. QED
    BY <2>1, <2>2, BlocksTyped, AdapterAssumption DEF AdapterAssumption
<1>4. t \notin Getters => t \in Ingesters
  BY DEF Tasks
<1>5. ASSUME NEW e \in Docs, document'[e].version # 0, document'[e].by = "ingest"
      PROVE  document'[e].jurisdiction = Blocks[BlockOf[e]]
  <2>1. CASE e = d
    BY <1>1, <1>2, <1>3, <1>4, <1>5, <2>1
  <2>2. CASE e # d
    BY <1>1, <1>2, <1>5, <2>2 DEF BlockInv, IngestedJurisdiction
  <2>. QED
    BY <2>1, <2>2
<1>. QED
  BY <1>5 DEF IngestedJurisdiction

LEMMA GetterLeavesJurisdiction ==
  ASSUME NEW g \in Getters,
         GetStep(g) \/ PersistStep(g) \/ \E k \in Asked : Ask(g, k)
  PROVE  UNCHANGED jurisdiction
<1>1. g \notin Ingesters
  BY AdapterAssumption DEF AdapterAssumption
<1>2. GetStep(g) => UNCHANGED jurisdiction
  BY DEF GetStep, Fetched, FetchFails, FetchMalformed, parser
<1>3. PersistStep(g) => UNCHANGED jurisdiction
  BY <1>1 DEF PersistStep, Connected, LoadAuthorities, LoadTypes, Upsert, PersistFails, parser
<1>4. ASSUME NEW k \in Asked, Ask(g, k) PROVE UNCHANGED jurisdiction
  BY <1>4 DEF Ask, parser
<1>. QED
  BY <1>2, <1>3, <1>4

LEMMA OnlyUpsertWrites ==
  ASSUME NEW t \in Tasks,
         \/ PersistStep(t) /\ ~Upsert(t)
         \/ t \in Getters /\ (GetStep(t) \/ \E k \in Asked : Ask(t, k))
         \/ t \in Ingesters /\ (IngestStep(t) \/ StartIngest(t))
  PROVE  UNCHANGED document
<1>1. PersistStep(t) /\ ~Upsert(t) => UNCHANGED document
  BY DEF PersistStep, Connected, LoadAuthorities, LoadTypes, PersistFails
<1>2. GetStep(t) => UNCHANGED document
  BY DEF GetStep, Fetched, FetchFails, FetchMalformed
<1>3. ASSUME NEW k \in Asked, Ask(t, k) PROVE UNCHANGED document
  BY <1>3 DEF Ask
<1>4. IngestStep(t) \/ StartIngest(t) => UNCHANGED document
  BY DEF IngestStep, StartIngest, RefreshAuthorities, RefreshTypes, RefreshFails, Listed,
         SearchFails, TextDone
<1>. QED
  BY <1>1, <1>2, <1>3, <1>4

LEMMA BlockStep ==
  ASSUME OneIngest, IndInv, BlockInv, [Next]_vars
  PROVE  BlockInv'
<1>1. TypeOK /\ task \in [Tasks -> Task]
  BY TypeIs DEF IndInv
<1>2. ASSUME NEW g \in Getters, GetStep(g) \/ PersistStep(g) \/ \E k \in Asked : Ask(g, k)
      PROVE  BlockInv'
  <2>1. g \in Tasks /\ g \notin Ingesters /\ UNCHANGED jurisdiction
    BY <1>2, GetterLeavesJurisdiction, AdapterAssumption DEF AdapterAssumption, Tasks
  <2>2. PICK me \in Task : Step(g, me)
    BY <1>2, <2>1, TaskGood DEF Good, Moves
  <2>3. \A i \in Ingesters : task'[i] = task[i]
    BY <1>1, <2>1, <2>2 DEF Step, Tasks
  <2>4. InBlocks'
    BY <2>1, <2>3 DEF BlockInv, InBlocks
  <2>5. IngestedJurisdiction'
    <3>1. CASE Upsert(g)
      BY <1>1, <2>1, <3>1, WrittenInBlock
    <3>2. CASE ~Upsert(g)
      <4>1. UNCHANGED document
        BY <1>2, <2>1, <3>2, OnlyUpsertWrites
      <4>. QED
        BY <4>1 DEF BlockInv, IngestedJurisdiction
    <3>. QED
      BY <3>1, <3>2
  <2>. QED
    BY <2>4, <2>5 DEF BlockInv
<1>3. ASSUME NEW i \in Ingesters, IngestStep(i) \/ PersistStep(i) \/ StartIngest(i)
      PROVE  BlockInv'
  <2>1. i \in Tasks /\ \A j \in Ingesters : j = i
    BY DEF OneIngest, Tasks
  <2>2. Moves(i)
    BY <1>1, <1>3, <2>1, TaskGood, RefreshTypesMoves DEF Good
  <2>3. PICK me \in Task : Step(i, me) /\ (i \in Ingesters /\ InBlock(task[i], jurisdiction)
                                            => InBlock(me, jurisdiction'))
    BY <2>2 DEF Moves
  <2>4. task'[i] = me /\ InBlock(task[i], jurisdiction)
    BY <1>1, <2>1, <2>3 DEF Step, BlockInv, InBlocks
  <2>5. InBlocks'
    BY <2>1, <2>3, <2>4 DEF InBlocks
  <2>6. IngestedJurisdiction'
    <3>1. CASE Upsert(i)
      BY <1>1, <2>1, <3>1, WrittenInBlock
    <3>2. CASE ~Upsert(i)
      <4>1. UNCHANGED document
        BY <1>3, <2>1, <3>2, OnlyUpsertWrites
      <4>. QED
        BY <4>1 DEF BlockInv, IngestedJurisdiction
    <3>. QED
      BY <3>1, <3>2
  <2>. QED
    BY <2>5, <2>6 DEF BlockInv
<1>4. CASE Tick
  <2>1. UNCHANGED <<jurisdiction, document>>
    BY <1>4 DEF Tick
  <2>2. ASSUME NEW i \in Ingesters PROVE InBlock(task'[i], jurisdiction')
    <3>1. i \in Tasks /\ task[i] \in Task /\ InBlock(task[i], jurisdiction)
      BY <1>1 DEF BlockInv, InBlocks, Tasks
    <3>2. task'[i] = IF task[i].pc \in {"refresh authorities", "refresh types"}
                     THEN [task[i] EXCEPT !.since = Older(@, PopulateTtl)] ELSE task[i]
      BY <1>4, <3>1 DEF Tick
    <3>3. CASE task[i].pc \in {"refresh authorities", "refresh types"}
      <4>1. task'[i].pc = task[i].pc
        BY <3>1, <3>2, <3>3 DEF Task
      <4>. QED
        BY <3>3, <4>1 DEF InBlock, Persisting
    <3>4. CASE task[i].pc \notin {"refresh authorities", "refresh types"}
      BY <2>1, <3>1, <3>2, <3>4
    <3>. QED
      BY <3>3, <3>4
  <2>. QED
    BY <2>1, <2>2 DEF BlockInv, InBlocks, IngestedJurisdiction
<1>5. CASE Heal \/ UNCHANGED vars \/ \E d \in Docs : Amend(d)
  <2>1. UNCHANGED <<jurisdiction, document, task>>
    BY <1>5 DEF Heal, vars, Amend, parser
  <2>. QED
    BY <2>1 DEF BlockInv, InBlocks, IngestedJurisdiction
<1>. QED
  BY <1>2, <1>3, <1>4, <1>5 DEF Next

(* What an ingest has stored has the jurisdiction of its block, though the   *)
(* parser that keeps the jurisdiction is used by get() in between and an     *)
(* ingest that failed may have left it set.  Two ingests at once would set   *)
(* it under each other.                                                      *)
THEOREM IngestedJurisdictionHolds ==
  ASSUME OneIngest
  PROVE  Spec => []IngestedJurisdiction
<1>1. Init => BlockInv
  BY IdleTyped DEF Init, BlockInv, InBlocks, InBlock, IngestedJurisdiction, Tasks, Persisting
<1>2. IndInv /\ BlockInv /\ [Next]_vars => BlockInv'
  BY BlockStep
<1>3. BlockInv => IngestedJurisdiction
  BY DEF BlockInv
<1>. QED
  BY <1>1, <1>2, <1>3, Invariance, PTL DEF Spec

=============================================================================
