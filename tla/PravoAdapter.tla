----------------------------- MODULE PravoAdapter -----------------------------
(* The pravo adapter in production mode, shared by coroutines that get()    *)
(* documents and coroutines that ingest() them.  They share the parser (its *)
(* jurisdiction, its names of authorities and document types), the stale    *)
(* document cache, and the circuit breaker in front of PostgreSQL.          *)
(*                                                                          *)
(* A document has two identifiers: get() is asked for the number of its     *)
(* publication ("eo") or for the id the parser gave it, made of the GUID    *)
(* ("guid").  The source answers to the first only, and the cache keeps     *)
(* what get() fetched under the id asked for, what ingest() parsed under    *)
(* the parser's.  The statements of upsert_document() are one step here     *)
(* (DocumentRepository takes them apart), and so is everything ingest()     *)
(* does with a document once it is stored (IngestPipeline).  Times are      *)
(* ages in ticks, saturated where the code stops telling them apart.        *)
EXTENDS CircuitBreaker, Sequences

CONSTANTS
    Getters, Ingesters,     \* coroutines
    Docs,
    Blocks,                 \* sequence of the jurisdictions of the blocks of ingest()
    BlockOf,                \* [Docs -> DOMAIN Blocks]
    Asked,                  \* what get() is asked for: some of Key
    None,                   \* no jurisdiction
    MaxVersion,             \* bound: the source's versions of a document
    StaleTtl,               \* _STALE_CACHE_TTL, in ticks
    PopulateTtl             \* _CACHE_POPULATE_TTL, in ticks

Tasks == Getters \cup Ingesters
Jurisdictions == {Blocks[b] : b \in DOMAIN Blocks}

ASSUME AdapterAssumption ==
    /\ Getters \cap Ingesters = {}
    /\ Blocks \in Seq(Jurisdictions) /\ Len(Blocks) > 0 /\ None \notin Jurisdictions
    /\ BlockOf \in [Docs -> DOMAIN Blocks]
    /\ Asked \subseteq [id : {"eo", "guid"}, doc : Docs] /\ Asked # {}
    /\ MaxVersion \in Nat \ {0}
    /\ StaleTtl \in Nat /\ PopulateTtl \in Nat \ {0}

VARIABLES
    version,        \* [Docs -> 1..MaxVersion]: what the source publishes
    faulty,         \* while TRUE the source and PostgreSQL may fail
    cb,             \* the persistence breaker
    jurisdiction,   \* of the parser
    authority_cache, doc_type_cache,    \* is there any name in it?
    populated,      \* age of _cache_populated_at; PopulateTtl: too old, or never
    cache,          \* [Asked -> version and age], version 0: no entry
    document,       \* rows: version (0: none), jurisdiction, the kind of task that wrote last
    task, reply,
    loaded          \* history: age of the last successful search for authorities

parser == <<jurisdiction, authority_cache, doc_type_cache, populated, loaded>>
vars == <<version, faulty, cb, parser, cache, document, task, reply>>

Key == [id : {"eo", "guid"}, doc : Docs]
KeyOf(id, d) == [id |-> id, doc |-> d]
NoReply == [outcome |-> "none", doc |-> CHOOSE d \in Docs : TRUE, version |-> 0, age |-> 0]
Idle == [pc |-> "idle", key |-> CHOOSE k \in Key : TRUE, version |-> 1, jurisdiction |-> None,
         block |-> 1, todo |-> {}, since |-> 0]
Persisting == {"connect", "authorities", "types", "upsert"}

Init ==
    /\ version = [d \in Docs |-> 1]
    /\ faulty = TRUE
    /\ cb = NewBreaker
    /\ jurisdiction = None
    /\ authority_cache = FALSE
    /\ doc_type_cache = FALSE
    /\ populated = PopulateTtl
    /\ cache = [k \in Asked |-> [version |-> 0, age |-> 0]]
    /\ document = [d \in Docs |-> [version |-> 0, jurisdiction |-> None, by |-> "get"]]
    /\ task = [t \in Tasks |-> Idle]
    /\ reply = [g \in Getters |-> NoReply]
    /\ loaded = PopulateTtl

Step(t, me) == task' = [task EXCEPT ![t] = me]
Entry(d) == [version |-> version[d], age |-> 0]

-----------------------------------------------------------------------------
(* get().                                                                   *)
Ask(g, k) ==
    /\ task[g].pc = "idle"
    /\ Step(g, [Idle EXCEPT !.pc = "fetch", !.key = k])
    /\ reply' = [reply EXCEPT ![g] = NoReply]
    /\ UNCHANGED <<version, faulty, cb, parser, cache, document>>

Answer(g, outcome, d, v, age) ==
    /\ Step(g, Idle)
    /\ reply' = [reply EXCEPT ![g] =
                   [outcome |-> outcome, doc |-> d, version |-> v, age |-> age]]

(* Mutant: get() resets the jurisdiction it parsed with. *)
FetchedResets(g) ==
    LET d == task[g].key.doc IN
    /\ task[g].pc = "fetch"
    /\ task[g].key.id = "eo"
    /\ cache' = [cache EXCEPT ![task[g].key] = Entry(d)]
    /\ cb' = AfterCanRequest(cb)
    /\ IF CanRequest(cb)
       THEN Step(g, [task[g] EXCEPT !.pc = "connect", !.version = version[d],
                                    !.jurisdiction = jurisdiction]) /\ UNCHANGED reply
       ELSE Answer(g, "error", d, 0, 0)
    /\ jurisdiction' = None
    /\ UNCHANGED <<version, faulty, authority_cache, doc_type_cache, populated, loaded, document>>

(* The document is parsed with the jurisdiction the parser has now, cached, *)
(* and goes on to PostgreSQL if the breaker lets it; if not, that is an     *)
(* error to the caller.                                                     *)
Fetched(g) ==
    LET d == task[g].key.doc IN
    /\ task[g].pc = "fetch"
    /\ task[g].key.id = "eo"
    /\ cache' = [cache EXCEPT ![task[g].key] = Entry(d)]
    /\ cb' = AfterCanRequest(cb)
    /\ IF CanRequest(cb)
       THEN Step(g, [task[g] EXCEPT !.pc = "connect", !.version = version[d],
                                    !.jurisdiction = jurisdiction]) /\ UNCHANGED reply
       ELSE Answer(g, "error", d, 0, 0)
    /\ UNCHANGED <<version, faulty, parser, document>>

(* SourceUnavailableError: the entry of the cache, if it is young enough.   *)
Unavailable(g) == faulty \/ task[g].key.id = "guid"

FetchFails(g) ==
    LET k == task[g].key  entry == cache[k] IN
    /\ task[g].pc = "fetch"
    /\ Unavailable(g)
    /\ IF entry.version # 0 /\ entry.age <= StaleTtl
       THEN Answer(g, "stale", k.doc, entry.version, entry.age) /\ UNCHANGED cache
       ELSE Answer(g, "error", k.doc, 0, 0)
            /\ cache' = [cache EXCEPT ![k] = [version |-> 0, age |-> 0]]
    /\ UNCHANGED <<version, faulty, cb, parser, document>>

(* A record that cannot be parsed: NotFoundError.                           *)
FetchMalformed(g) ==
    /\ task[g].pc = "fetch"
    /\ faulty
    /\ Answer(g, "not found", task[g].key.doc, 0, 0)
    /\ UNCHANGED <<version, faulty, cb, parser, cache, document>>

-----------------------------------------------------------------------------
(* ingest(): the caches of names, then block by block.                      *)

(* The search of block b is sent, the parser set to its jurisdiction; after *)
(* the last block the jurisdiction is reset.                                *)
EnterBlock(i, b) ==
    IF b > Len(Blocks) THEN Step(i, Idle) /\ jurisdiction' = None
    ELSE /\ Step(i, [Idle EXCEPT !.pc = "search", !.block = b])
         /\ jurisdiction' = Blocks[b]

(* The items left, with breaker b: the next is parsed and cached, and goes  *)
(* on to PostgreSQL; a breaker that refuses it refuses all, as nothing is   *)
(* awaited in between.                                                      *)
Items(i, todo, b) ==
    /\ cb' = IF todo = {} THEN b ELSE AfterCanRequest(b)
    /\ IF todo = {} \/ ~CanRequest(b)
       THEN /\ EnterBlock(i, task[i].block + 1)
            /\ cache' = [k \in Asked |-> IF k.id = "guid" /\ k.doc \in todo
                                       THEN Entry(k.doc) ELSE cache[k]]
       ELSE \E d \in todo :
            /\ Step(i, [Idle EXCEPT !.pc = "connect", !.key = KeyOf("guid", d),
                          !.version = version[d], !.jurisdiction = jurisdiction,
                          !.block = task[i].block, !.todo = todo \ {d}])
            /\ cache' = [k \in Asked |-> IF k = KeyOf("guid", d) THEN Entry(d) ELSE cache[k]]
            /\ UNCHANGED jurisdiction
    /\ UNCHANGED <<version, faulty, authority_cache, doc_type_cache, populated, loaded, reply>>

(* _ensure_caches_populated(), and with fresh caches straight to the blocks.*)
StartIngest(i) ==
    /\ task[i].pc = "idle"
    /\ IF populated < PopulateTtl THEN EnterBlock(i, 1)
       ELSE Step(i, [Idle EXCEPT !.pc = "refresh authorities"]) /\ UNCHANGED jurisdiction
    /\ UNCHANGED <<version, faulty, cb, authority_cache, doc_type_cache, populated, loaded,
                   cache, document, reply>>

RefreshAuthorities(i) ==
    /\ task[i].pc = "refresh authorities"
    /\ authority_cache' = TRUE
    /\ loaded' = 0
    /\ Step(i, [task[i] EXCEPT !.pc = "refresh types"])
    /\ UNCHANGED <<version, faulty, cb, jurisdiction, doc_type_cache, populated, cache,
                   document, reply>>

(* Mutant: the caches are stamped with the time after the requests. *)
RefreshTypesStampsNow(i) ==
    /\ task[i].pc = "refresh types"
    /\ doc_type_cache' = TRUE
    /\ populated' = 0
    /\ EnterBlock(i, 1)
    /\ UNCHANGED <<version, faulty, cb, authority_cache, loaded, cache, document, reply>>

(* The stamp is the time the refresh began.                                 *)
RefreshTypes(i) ==
    /\ task[i].pc = "refresh types"
    /\ doc_type_cache' = TRUE
    /\ populated' = task[i].since
    /\ EnterBlock(i, 1)
    /\ UNCHANGED <<version, faulty, cb, authority_cache, loaded, cache, document, reply>>

(* The source is unavailable: no stamp, and on to the blocks.               *)
RefreshFails(i) ==
    /\ faulty
    /\ task[i].pc \in {"refresh authorities", "refresh types"}
    /\ EnterBlock(i, 1)
    /\ UNCHANGED <<version, faulty, cb, authority_cache, doc_type_cache, populated, loaded,
                   cache, document, reply>>

Listed(i) ==
    /\ task[i].pc = "search"
    /\ Items(i, {d \in Docs : BlockOf[d] = task[i].block}, cb)
    /\ UNCHANGED document

(* The search fails: the next block.  An exception of another kind, or a    *)
(* malformed first item, ends ingest() and leaves the jurisdiction set.     *)
SearchFails(i) ==
    /\ faulty
    /\ task[i].pc = "search"
    /\ \/ EnterBlock(i, task[i].block + 1)
       \/ Step(i, Idle) /\ UNCHANGED jurisdiction
    /\ UNCHANGED <<version, faulty, cb, authority_cache, doc_type_cache, populated, loaded,
                   cache, document, reply>>

(* Text and points are stored, or not; on to the next item.                 *)
TextDone(i) ==
    /\ task[i].pc = "text"
    /\ Items(i, task[i].todo, cb)
    /\ UNCHANGED document

-----------------------------------------------------------------------------
(* _persist_document(), past the breaker.                                   *)
(* _ensure_reference_names(): an empty cache is filled first.  The names    *)
(* themselves are left out.                                                 *)
Connected(t) ==
    /\ task[t].pc = "connect"
    /\ Step(t, [task[t] EXCEPT !.pc = IF ~authority_cache THEN "authorities"
                                      ELSE IF ~doc_type_cache THEN "types" ELSE "upsert"])
    /\ UNCHANGED <<version, faulty, cb, parser, cache, document, reply>>

(* The caches are filled, or the source is unavailable.                     *)
LoadAuthorities(t) ==
    /\ task[t].pc = "authorities"
    /\ \/ authority_cache' = TRUE /\ loaded' = 0
       \/ faulty /\ UNCHANGED <<authority_cache, loaded>>
    /\ Step(t, [task[t] EXCEPT !.pc = IF doc_type_cache THEN "upsert" ELSE "types"])
    /\ UNCHANGED <<version, faulty, cb, jurisdiction, doc_type_cache, populated, cache,
                   document, reply>>

LoadTypes(t) ==
    /\ task[t].pc = "types"
    /\ \/ doc_type_cache' = TRUE
       \/ faulty /\ UNCHANGED doc_type_cache
    /\ Step(t, [task[t] EXCEPT !.pc = "upsert"])
    /\ UNCHANGED <<version, faulty, cb, jurisdiction, authority_cache, populated, loaded,
                   cache, document, reply>>

(* Mutant: ON CONFLICT DO NOTHING. *)
WrittenOnce(t) ==
    LET me == task[t]  d == me.key.doc IN
    document' = IF document[d].version # 0 THEN document ELSE [document EXCEPT ![d] =
         [version |-> me.version, by |-> IF t \in Getters THEN "get" ELSE "ingest",
          jurisdiction |-> me.jurisdiction]]

Written(t) ==
    LET me == task[t]  d == me.key.doc IN
    document' = [document EXCEPT ![d] =
         [version |-> me.version, by |-> IF t \in Getters THEN "get" ELSE "ingest",
          jurisdiction |-> IF me.jurisdiction # None THEN me.jurisdiction
                           ELSE @.jurisdiction]]

Upsert(t) ==
    LET me == task[t] IN
    /\ me.pc = "upsert"
    /\ Written(t)
    /\ cb' = AfterSuccess(cb)
    /\ \/ t \in Getters /\ Answer(t, "fresh", me.key.doc, me.version, 0)
       \/ t \in Ingesters /\ Step(t, [me EXCEPT !.pc = "text"]) /\ UNCHANGED reply
    /\ UNCHANGED <<version, faulty, parser, cache>>

(* Any exception is a failure to the breaker.  get() reports the source     *)
(* unavailable and does not fall back on the cache; ingest() goes on.       *)
PersistFails(t) ==
    /\ faulty
    /\ task[t].pc \in Persisting
    /\ \/ /\ t \in Getters
          /\ cb' = AfterFailure(cb)
          /\ Answer(t, "error", task[t].key.doc, 0, 0)
          /\ UNCHANGED <<version, faulty, parser, cache>>
       \/ t \in Ingesters /\ Items(t, task[t].todo, AfterFailure(cb))
    /\ UNCHANGED document

-----------------------------------------------------------------------------
(* Time, the source, and repair.                                            *)
Older(age, bound) == IF age < bound THEN age + 1 ELSE bound

Tick ==
    /\ cb' = Elapse(cb)
    /\ populated' = Older(populated, PopulateTtl)
    /\ loaded' = Older(loaded, PopulateTtl)
    /\ cache' = [k \in Asked |-> IF cache[k].version = 0 THEN cache[k]
                               ELSE [cache[k] EXCEPT !.age = Older(@, StaleTtl + 1)]]
    /\ task' = [t \in Tasks |->
                  IF task[t].pc \in {"refresh authorities", "refresh types"}
                  THEN [task[t] EXCEPT !.since = Older(@, PopulateTtl)] ELSE task[t]]
    /\ UNCHANGED <<version, faulty, jurisdiction, authority_cache, doc_type_cache, document, reply>>

Amend(d) ==
    /\ version[d] < MaxVersion
    /\ version' = [version EXCEPT ![d] = @ + 1]
    /\ UNCHANGED <<faulty, cb, parser, cache, document, task, reply>>

Heal ==
    /\ faulty
    /\ faulty' = FALSE
    /\ UNCHANGED <<version, cb, parser, cache, document, task, reply>>

GetStep(g) == Fetched(g) \/ FetchFails(g) \/ FetchMalformed(g)
IngestStep(i) ==
    \/ RefreshAuthorities(i) \/ RefreshTypes(i) \/ RefreshFails(i)
    \/ Listed(i) \/ SearchFails(i) \/ TextDone(i)
PersistStep(t) ==
    \/ Connected(t) \/ LoadAuthorities(t) \/ LoadTypes(t) \/ Upsert(t) \/ PersistFails(t)

Next ==
    \/ \E g \in Getters : GetStep(g) \/ PersistStep(g) \/ \E k \in Asked : Ask(g, k)
    \/ \E i \in Ingesters : IngestStep(i) \/ PersistStep(i) \/ StartIngest(i)
    \/ \E d \in Docs : Amend(d)
    \/ Tick
    \/ Heal

(* Awaited calls end, documents are asked for and ingested again and again, *)
(* time passes, and failures end some day.                                  *)
Fairness ==
    /\ \A g \in Getters : /\ WF_vars(GetStep(g) \/ PersistStep(g))
                          /\ \A k \in Asked : SF_vars(Ask(g, k))
    /\ \A i \in Ingesters : WF_vars(IngestStep(i) \/ PersistStep(i)) /\ WF_vars(StartIngest(i))
    /\ WF_vars(Tick)
    /\ WF_vars(Heal)

Spec == Init /\ [][Next]_vars /\ Fairness

-----------------------------------------------------------------------------
(* Type invariant. *)
TypeOK ==
    /\ version \in [Docs -> 1..MaxVersion]
    /\ faulty \in BOOLEAN
    /\ cb \in Breaker
    /\ jurisdiction \in Jurisdictions \cup {None}
    /\ authority_cache \in BOOLEAN /\ doc_type_cache \in BOOLEAN
    /\ populated \in 0..PopulateTtl
    /\ loaded \in 0..PopulateTtl
    /\ cache \in [Asked -> [version : 0..MaxVersion, age : 0..StaleTtl + 1]]
    /\ document \in [Docs -> [version : 0..MaxVersion, by : {"get", "ingest"},
                              jurisdiction : Jurisdictions \cup {None}]]
    /\ task \in [Tasks ->
         [pc : Persisting \cup {"idle", "fetch", "refresh authorities", "refresh types",
                                "search", "text"},
          key : Key, version : 1..MaxVersion, jurisdiction : Jurisdictions \cup {None},
          block : DOMAIN Blocks, todo : SUBSET Docs,
          since : 0..PopulateTtl]]
    /\ reply \in [Getters -> [outcome : {"none", "fresh", "stale", "error", "not found"},
                              doc : Docs, version : 0..MaxVersion, age : 0..StaleTtl]]

(* A document last stored by an ingest has the jurisdiction of its block,   *)
(* although the jurisdiction is a field of the parser that get() uses in    *)
(* between, and although an earlier ingest may have left it set.            *)
IngestedJurisdiction ==
    \A d \in Docs : document[d].version # 0 /\ document[d].by = "ingest" =>
        document[d].jurisdiction = Blocks[BlockOf[d]]

(* While the caches count as fresh, the authorities were asked of the       *)
(* source less than the TTL ago: the stamp is taken before the requests,    *)
(* so a slow refresh, or several at once, cannot make old names look fresh. *)
StampHonest == populated < PopulateTtl => loaded <= populated

(* Once failures have ended, the circuit to PostgreSQL closes for good, and *)
(* every document asked for or ingested comes to be stored as it is         *)
(* published, whatever was cached, refused or half done before; a get() by  *)
(* publication number is answered with that.                                *)
EventuallyCurrent ==
    <>[](/\ cb.state = "CLOSED"
         /\ \A d \in Docs : document[d].version = version[d]
         /\ \A g \in Getters : reply[g].outcome = "fresh" =>
                reply[g].version = version[reply[g].doc])
=============================================================================
