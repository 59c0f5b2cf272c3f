# TLA+ models of the Official Data Layer

The Official Data Layer (ODL) is a Python/asyncio service that makes documents of
official Russian sources (so far `publication.pravo.gov.ru`) searchable by agents.
An *ingest* reads a source, recognises the PDFs, cuts them into chunks and writes
rows to PostgreSQL and points to Qdrant; a REST and an MCP server answer searches and
document details from the two stores, with Redis as a cache.

This directory holds TLA+ modules translated from that code, TLC configurations that
check them on small instances, and TLAPS proofs of nearly all safety properties the runs
check.
Paths below are relative to the repository root; `src/` in `PROJECT.json` stands
for that root.

Contents: [inventory](#inventory) · [modules](#modules-and-their-correspondence-with-the-code) ·
[runs](#runs-bounds-and-what-they-show) · [fairness](#fairness) · [proofs](#proofs) ·
[disagreements](#where-the-code-and-its-documentation-disagree) · [plan](#plan) ·
[not modelled](#what-is-not-modelled)

## Inventory

All coroutines of a process run in one event loop, so code between two `await`s is atomic
and interleaving happens at awaits only. Several processes exist: the server, whoever runs
`ingest()` (`docs/adr.md:1100` makes it a separate process), and the fixtures script. Nothing
prevents two ingests at once. A pooled connection commits each statement, so a method
of a repository is as many transactions as it has statements.

| Component | State it keeps | Operations | What is hard | What makes it correct | Module |
|---|---|---|---|---|---|
| Circuit breaker `adapters/base/circuit_breaker.py` | state, failure count, last failure, half-open requests | `can_request`, `is_open`, `record_*`, `reset` | verdicts of concurrent calls arrive in any order; probes that never report | count and state agree; few probes; closes again | CircuitBreaker |
| HTTP client `adapters/pravo/pravo_client.py` | the breaker | `_request` (retries, backoff), endpoints, `check_health` | timeouts, retries, cancellation | refuses during the cool-down, opens on the threshold only, recovers | PravoClient |
| Adapter `adapters/pravo/adapter/`, parser `pravo_parser.py` | document cache, names of authorities and types, jurisdiction, persistence breaker | `get`, `ingest`, `_persist_document` | a parser shared by coroutines; caches filled over awaits; stores that refuse | an ingested document has its block's jurisdiction; fresh names are fresh; persistence recovers | PravoAdapter |
| Ingest `production/ingest.py`, pipeline `adapters/base/ingest_pipeline.py` | none (locals) | `ingest`, `process_document_text` | crash or failure between three stores; concurrent ingests | links between stores resolve; a re-run repairs | IngestPipeline |
| OCR provider `adapters/ocr/yandex_vision.py` | IAM token | `extract_text`, `_recognize_page` | a token that expires, or is dropped by another document, between pages | an expiry costs no document | YandexVision |
| Section repository `section_repo.py` | `document_section` | `upsert_sections`, marks, `is_section_actual` | SELECT, then INSERT; four queries per answer | one row per section, a tree; an answer true at some moment | IngestPipeline, LegalStatus |
| Document and reference repositories `document_repo.py`, `reference_repo.py` | documents, reference tables, topics with a vector | `upsert_document`, `get_or_create_*`, reads | up to a dozen transactions per document, several writers | ids name the row they were asked for; a reader sees what was finished | DocumentRepository, DocumentStore |
| Change tracking `change_tracking_repo.py`, status `document_repo.py` | revocations, modifications | `save_analysis_facts`, `get_legal_status` | facts recorded, and midnight, between the queries of one answer | an answer lies between the status before and the status after | LegalStatus |
| Vector store `core/index/qdrant_store.py` | two collections | `ensure_collection`, `upsert_chunks`, `deactivate_sections`, `delete_document_chunks`, scroll, search | check-then-act by several processes; change of the embedding model; paging while points move | nothing leaves unless deleted; a scroll is whole | VectorStore, SectionTopics, Retrieval |
| Section topics `section_topic_repo.py`, fixtures script | `section_topic`, topics collection | `batch_link`, `run` | rows and vectors emptied and filled by separate requests | a match never names a row that is gone | SectionTopics |
| ODL service `core/odl_service.py`, region resolver `core/regions.py` | Redis entries | `search_documents`, `get_document_detail`, `list_topics`, `get_toc` | an answer is read over many awaits and cached while stores move; each store may fail; two ids per document | an answer is for the question; degraded, not failed; staleness is bounded, and ends | OdlService, OdlStaleness, Retrieval |
| Redis client `core/cache/__init__.py` | client object, flag | `get`, `set`, `delete`, `close` | the two fields are shared across awaits | no use without a client; the flag tells the truth | CacheClient |
| Database client `core/persistence/db_client.py`, process `core/main.py` | pool | connect, statements, close; start, serve, stop | concurrent connects; connections run out; shutdown amid requests | one pool, closed once; requests undisturbed; an end | Server |
| Chunker, embedder, analyzer, RSS base class, tracer, configuration, REST/MCP, models | little or none | — | — | — | — |

`PROJECT.json` lists every component with its status and every hazard at its line.

## Modules and their correspondence with the code

```
CircuitBreaker <--EXTENDS-- PravoClient    <-- MCPravoClient, PravoClientProofs
               <--EXTENDS-- PravoAdapter   <-- MCPravoAdapter, PravoAdapterProofs
IngestPipeline <-- MCIngestPipeline <-- MCIngestOcr --INSTANCE--> YandexVision
                                            <-- IngestPipelineProofs
DocumentRepository --INSTANCE WITH--> DocumentStore (refinement)
                                            <-- MCDocumentRepository, DocumentRepositoryProofs
LegalStatus                                 <-- MCLegalStatus, LegalStatusProofs
VectorStore    <-- MCVectorStore --INSTANCE--> SectionTopics
                                            <-- VectorStoreProofs
OdlService     <--EXTENDS-- OdlStaleness   <-- MCOdlService, OdlServiceProofs
CacheClient    <-- MCServing --INSTANCE--> Server, Retrieval
                                            <-- ServingProofs
```

**CircuitBreaker** – the class as operators on a record. Its methods are synchronous, hence
atomic; the component that owns a breaker keeps the record in a variable and applies
`AfterCanRequest`, `AfterSuccess`, `AfterFailure`, `AfterIsOpen` in its own actions. Time is
`since`, ticks since the last failure, saturated at the timeout it is compared with; the count
saturates at `CountCap`.

**PravoClient** – coroutines sharing one breaker (`cb`). `task[c]` is where a coroutine is in
`_request`: `idle`, awaiting an HTTP `attempt`, or asleep (`backoff`). `Start`/`Blocked` are the
gate, `Answered`/`AttemptFails`/`GivesUp` the outcomes of an attempt, `Interrupted` any exception
`_request` does not catch (cancellation above all). A call of kind `health` is `check_health`,
which adds a verdict to the one `_request` recorded. `down` is the condition of the source.
`probes`, `streak` and `openFor` are history, read by properties only.

**IngestPipeline** – executions of `ingest()` (`worker[w]`) against the source and the three
stores `document`, `rows`, `points`. The program counter stops at the awaits: `item` (loop over
the listing), `persist`, `content` (PDF and OCR), `select`/`write` (the two statements of
`upsert_sections`, once per section), `upsert` (Qdrant). Failures may strike before or after
a statement took effect; `Crash` loses the worker only. Documents have versions; a version has
a table of contents (`Toc`). A listing is the set of documents of all blocks that could be
searched; the order in which items come is left open. `StableIds` covers both ways a chunk can
get its id (from the external splitter, or `uuid4()`), `WithDb` and `WithQdrant` the optional
dependencies. A persistence breaker that refuses is `ItemFails` at `persist`. That the source
serves a PDF under the id `ingest()` asks with is an assumption, see
[below](#where-the-code-and-its-documentation-disagree).

**YandexVision** – documents being recognised, page by page, sharing `_iam_token`. The header
of a document is read once and kept (`first`); a refused page asks for a new token for itself
only, and drops the shared one. `trouble` and `fatal` are history.

**PravoAdapter** – coroutines in `get()` and `ingest()` sharing the parser (jurisdiction, names
of authorities and types with the time they were loaded), the stale cache and the persistence
breaker. A step is a piece of code between awaits: fetching, refreshing authorities, refreshing
types, searching a block, connecting, looking up references, upserting. The ids of a document
are two: what callers know (`eo`) and what the parser makes of the GUID (`guid`).

**DocumentRepository** – `upsert_document` and `get_or_create_*` statement by statement: a SELECT
and an INSERT for every reference, the row, a SELECT, an INSERT and a link for every topic.
A `seeder` is `get_or_create_topic` with a vector store; a `reader` is
`get_document_by_publish_id`, two queries. **DocumentStore** is the abstract specification: a set of
entered references, documents that refer to entered references only and forget none, topics
that stay. The refinement mapping reads surrogate ids back as the keys of the rows they name.

**LegalStatus** – `get_legal_status` (three queries) and `is_section_actual` (four) against
`save_analysis_facts` (a resolution and an upsert per section and fact), marks, and midnight.
`Status` and `Actual` are what the answers would be were all queries made at once.

**VectorStore** – the documents collection under several processes: `ensure_collection` (list, info,
drop, create, one step per payload index), upserts, `deactivate_sections` and the scroll behind it,
deletions. `Amend` is the source; `switching` tells that some process was configured with another
vector size. **SectionTopics** – the topics collection with the fixtures script, one request or
statement per step, restarted anywhere, next to the admin tool that also creates the collection.

**OdlService** – requests (`request[c]`), one step per await, over `store` (what PostgreSQL and
Qdrant hold of each document, as versions) and the Redis `cache`. Answers are records of the
versions read, so that staleness and degradation can be seen. `Key` is the cache key as each
method computes it. **OdlStaleness** adds two history variables that only `StalenessBounded` reads: the
stores when an answer was begun (`begun`), and the same of every cache entry with the ticks since it was
put there (`origin`). **Retrieval** – the pure part of the same methods over a store at rest: the region of a search
resolved unless its id is given (`region_id`), the conditions of the context and the default filter of
what is in force, a Qdrant filter being a record of `must` and `should` as in the code, and their
merge by hand (`MergedFilter`); ranking, paging before grouping, the merging of overlapping chunks,
cutting to a length. A name of a region that does not resolve leaves the search without a condition on
the region; a detail uses the region id only and never resolves a name.

**Server** – `_run_server` from the startup check to the closed pool, signals, and
requests that borrow connections for their statements. `main()` and the admin requests are alike
`Callers` of `DatabaseClient.connect()`, which is split where it awaits: the test for a pool
(`FindPool`), the creation of one, whose answer is assigned when it comes (`CreatePool`), a connection
for the verifying query (`Acquire`) and its end (`Verified`), each of which may fail (`ConnectFails`). Two callers
that both find no pool would create two. **CacheClient** – the two fields `_redis`
and `_available` under coroutines that create, ping, use, lose and close clients.

`PROJECT.json` maps every definition to the lines it translates.

## Runs, bounds and what they show

| Run | Instance | Checks |
|---|---|---|
| `breaker` | 3 callers, threshold 3, timeout 2 ticks, 1 half-open request, 2 attempts; plain calls, or also health checks and cancellation | `CountMatchesState`: CLOSED iff the count is below the threshold, in every order of verdicts; `ProbesBounded`: at most `HalfOpenMax + 1` requests per half-open period; `CoolDown`: nothing passes an OPEN circuit before the timeout; for plain calls `PlainHalfOpenResolves`, `PlainRecovery`, `PlainOpensOnThreshold` |
| `ingest_single` | 1 worker, 2 documents, 2 versions, 3 sections of which one has a parent and one version drops it, stable chunk ids; or 2 scans of 2 pages, 3 requests per page, 1 expiry | `SectionTree`, `RowsUnique`, `IndexNeverRegresses`, `EventuallyCurrent`; `ExpiryHarmless`: an expired token costs no document |
| `ingest_concurrent` | 2 symmetric workers, one good and one malformed document, 2 versions, random chunk ids | `LinksResolve`: a link names the row of its own section; `IndexedIsPersisted` |
| `adapter` | 1 `get()`, 1 `ingest()` over two blocks, 1 document of the second, 2 versions | `IngestedJurisdiction`, `StampHonest`, `EventuallyCurrent` (with the recovery of the persistence breaker) |
| `documents` | 2 writers, 1 seeder, 1 reader, 1 publication with three contents, 1 failed statement, 1 edit | `IdsResolve`, `ReadSeesFinished`, `ImplementsStore` (refinement), `CatchesUp` |
| `legal` | an act of 2 sections, a later act that revokes it, 3 days, 1 ingest, 1 reader, 1 failure | `StatusBracketed`, `SectionBracketed`, `FactsRecorded` |
| `vectors` | 2 ingests and a server over 3 points in pages of 1, 1 failure or deletion, two vector sizes; or the script with 3 topics and 2 sections | `ScrollComplete`, `OnlyDeletesRemove`, `EventuallyStored`; `MatchesResolve`, `SectionsLinked` |
| `odl` | 2 clients, 1 document. Over stores that move, both clients search, ask for a detail, or browse; over stores the ingest has left at rest, they search with and without a region text, or ask for a detail by both ids; TTLs of 2 ticks (search) and 1 (detail) | `SearchAnswersQuestion`, `KnownDocumentIsFound`; `StalenessBounded`: a hit is younger than its TTL, and no part of an undegraded answer was overtaken before its building was begun; `EventuallyFresh` |
| `serving` | 3 coroutines and 4 client objects of Redis; or `main()` and 3 requests of 2 statements over a pool of 2; or stores of 4 chunks in 2 documents, each of a region or none, two chunks undated or out of force and two out of force or to be so tomorrow, asked with no region, one that resolves, one that does not, and one whose id is given (searches), and of 3 chunks with texts of 2 or 3 letters (details) | `DownIsBeingChecked`, `Reconnects`; `OnePool`, `Undisturbed`, `Ends`; `OnlySelected`, `NothingSkipped`, `CitedAsAsked` |

Three more runs, `paged_by_total_count`, `toc` and `shown_can_be_opened`, are expected to end
in a violation; they are the findings listed
[below](#where-the-code-and-its-documentation-disagree).

*Sessions.* A run may explore several parts that share no state, or several kinds of request
that share no key: the behaviour chooses one at the start (variables `plain`, `session`, `part`,
or which of two scripts is `"resting"`) and the others rest in a state that satisfies their
invariants and in which none of their fair steps is enabled. The checked formulas are those
of the parts; nothing is weakened but that parts do not move *together*, which parts without
common variables cannot tell.

Why the bounds are enough. Two workers, clients, writers or ingests already produce every race
between a read and the write that depends on it; the third caller of `breaker` lets one success
and one failure of older calls overlap a probe, the third request of `serving` has to wait for a
connection. Two versions make one older than the other; one version of the table of contents
drops a section the other has, so that rows outlive their section. Six row ids are
enough for the inserts that can happen before duplicates make the parent's subquery fail; when
ids run out a write fails like any other. TTLs of one or two ticks let an entry expire, or not,
between any two steps; the TTL of two ticks lets an entry be hit, grow older and be hit again. In `odl` two
questions meet only in the key (over stores at rest, so that what differs is the question) and one question is
raced over stores that move. Counts are capped where the code only compares them. Points sort so that a
chunk added later comes before one that a scroll has read. The three contents of `documents`
differ by a reference that is replaced, one that disappears and a topic that appears. In
`legal` every midnight brings something into force: the act and a modification on day 1, the
revocation on day 2. In `serving` two pools are enough for one to be lost, and four
chunks suffice for a document to appear on two pages with another between, and texts of three
letters for a partial, a full and no overlap. `ingest_concurrent` needs `StableIds = FALSE`,
the case in which points accumulate and old links stay around; the proofs cover both values.
In `adapter` the threshold and the recovery timeout are one, so one failure opens the breaker
and every state of it occurs; names are stale after a tick, and so is a cached document. `RegionsFile` is FALSE in `vectors` because with the regions fixture the
script never gets past its first step (see below).

`CHECK_DEADLOCK` is off in `serving` and `paged_by_total_count` only: the process ends, and so
does a client's paging. Everywhere else it is on: those instances cannot stop.

## Fairness

`Fairness` (`FairSpec`) of each module assumes what the scheduling justifies and no more.

* The event loop runs every coroutine that can go on, and every await ends: HTTP, OCR, database
  and Redis calls have timeouts. Hence weak fairness of each coroutine's steps, as one
  disjunction: the coroutine moves, its outcome is free.
* The clock advances (`Tick`).
* The work keeps coming: the ingest is run again, clients keep asking, the script is run again.
  Without it nothing that is lazily repaired is ever repaired. It is strong fairness (`Begin`,
  `Ask`, `Ingest`, `Upsert`) where the coroutine is not idle all the time and may do
  other work in between. `Acquire` in `Server` is strong too: asyncpg serves waiters in the order
  they came, so a connection that is free again and again reaches every waiter.
* Failures end (`Heal`, or a bound on their number) where the property would be vacuous
  otherwise; `Recovery` and `Reconnects` have this in their antecedent instead.
* No fairness for cancellation, closing, amendments, health checks, `reset()`, signals,
  midnight, deletions.

## Proofs

| Module | Theorems | For every |
|---|---|---|
| `PravoClientProofs` | `TypeCorrect`, `CountMatchesStateHolds`, `ProbesBoundedHolds`, `CoolDownHolds`; of plain calls `PlainOpensOnThresholdHolds` | number of callers, thresholds, timeouts, retries |
| `IngestPipelineProofs` | `TypeCorrect`, `LinksResolveHolds`, `IndexedIsPersistedHolds`, `SectionTreeHolds`; of one ingest at a time `RowsUniqueHolds`, `IndexNeverRegressesHolds` | number of workers, documents, sections, versions; with or without stable ids, database, Qdrant |
| | `ExpiryHarmlessHolds` (`YandexVision`) | number of documents, pages, retries, expiries |
| `PravoAdapterProofs` | `TypeCorrect`, `StampHonestHolds`; of one ingest at a time `IngestedJurisdictionHolds` | number of coroutines, documents, blocks, versions, lifetimes |
| `DocumentRepositoryProofs` | `TypeCorrect`, `IdsResolveHolds`, `ReadSeesFinishedHolds`, `Refinement` | number of writers, seeders, readers, publications, contents, topics |
| `LegalStatusProofs` | `TypeCorrect`, `StatusBracketedHolds`, `SectionBracketedHolds`, all for facts with one date per pair | number of documents, sections, facts, ingests, readers, days |
| `VectorStoreProofs` | `StoreTypeCorrect`, `ScrollCompleteHolds`, `OnlyDeletesRemoveHolds` | number of processes, points, page sizes, indexes |
| | `MatchesResolveHolds` (`SectionTopics`) | number of topics, sections, runs of the script |
| `OdlServiceProofs` | `TypeCorrect`, `SearchAnswersQuestionHolds`, `SearchSurvivesHolds`, `KnownDocumentIsFoundHolds` | number of clients, documents, questions, TTLs |
| | `StalenessBoundedHolds` (`OdlStaleness`) | the same, and versions |
| `ServingProofs` | `ServerTypeCorrect`, `OnePoolHolds`, `UndisturbedHolds` (`Server`) | number of requests that connect or run statements, connections, pools |
| | `CacheTypeCorrect`, `DownIsBeingCheckedHolds` (`CacheClient`) | number of coroutines and client objects |
| | `OnlySelectedHolds`, `NothingSkippedHolds`, `CitedAsAskedHolds` (`Retrieval`) | stored chunks, scores, dates, texts over any letters, overlap bounds, questions, resolver of regions, page sizes, thresholds, lengths |

A theorem `XHolds` states the property `X` of a run, and `Refinement` states `ImplementsStore`. No run
lists `SearchSurvives` (no failure but the region lookup's ends a search in an error), which is only proved, nor
`TypeOK`: it is proved, or, where there is no theorem (`YandexVision`, `SectionTopics`), typing
is part of the inductive invariant. Theorems about a module that an MC module instantiates are about
the instance's own specification (`Ocr!Spec`, `T!Spec`, `S!Spec`, `R!Spec`); the MC module only lets such a
part take turns with parts that share no state with it.

### Assumptions

*On the constants*: the named `ASSUME`s of the modules, which TLC evaluates in the runs. `Server`,
`Retrieval` and `YandexVision` define theirs (`ServerAssumption`, `RetrievalAssumption`, `OcrAssumption`), and the MC
module that instantiates them assumes it (`ServingAssumption`, `OcrAssumed`). They say that counts and times are naturals, that what a
constant maps lies in its sets, and that sets from which a value is taken in the initial state
are not empty. Beyond that:
* `TocAssumption` – a table of contents lists a section after its parent, and whole – is about the
  external splitter, whose parser builds a document from the top;
* `StoreAssumption` and `RetrievalAssumption`: a collection is finite, its points are numbered and scores are
  integers, so points can be sorted; a page has at least one result; a text is a sequence of letters, among
  which are the line break and the ellipsis that citations add, and an overlap has at least one letter; dates are
  integers, and what a name of a region resolves to does not change between pages;
* `ServerAssumption`: the coroutine of `main()` is not one of the requests;
* `ContentsAssumption`: a content has its first reference, the document type `upsert_document` requires.

*Hypotheses of single theorems.* Each is needed: TLC finds the property violated without it.
* `Alone` (`RowsUniqueHolds`, `IndexNeverRegressesHolds`): one ingest at a time. Two insert the same section
  after both have found none, and the one that read the older version may write last. Nothing in the
  code prevents two ingests.
* `StableIds` (`IndexNeverRegressesHolds`): chunks with new ids every time are added to the old ones, not replaced.
* `OneIngest` (`IngestedJurisdictionHolds`): two ingests set the jurisdiction of the one parser under each
  other. Any number of `get()` is allowed beside it.
* `OneDate` (the theorems of `LegalStatusProofs`): a document names one date for a pair it revokes or modifies.
  A later fact for the pair overwrites the date, and a revocation in effect is lifted between two queries.

### Inductive invariants

* *Breaker.* `ProbesBounded` is not inductive: it needs that in HALF_OPEN `probes` is at most the
  counted requests plus the one that made the transition, and none otherwise. `CoolDown` needs
  that in OPEN `since` is never ahead of `openFor`: a failure may restart `since`,
  never advance it. `CountMatchesState` follows from itself and the type invariant. For
  `PlainOpensOnThreshold`: in a plain behaviour every request in flight is a call, and the breaker's
  `failure_count` is the history `streak` (`Plain`).
* *Ingest.* A link is written when the mapping is complete, so the invariant must say what a
  worker's mapping and queue mean while it is half-way: every id in `section_map` is the row of
  that section of the worker's document (rows never change their document or section and are
  never deleted), every section of the version being processed is either still in the queue or
  mapped, and at `upsert` the map is empty or complete. Row ids are unique because an
  insert takes an unused one. With a database, a worker past `persist` has its document in the
  table. `SectionTree` needs the order of the queue (`InOrder`): the parent of what comes next has
  been written, so the subquery finds its row, or several and fails. `RowsUnique` needs that for a worker
  about to insert there is no row; `IndexNeverRegresses` that no point of its document is newer than
  the version in hand.
* *Yandex OCR.* Every request of a page but one had a trouble (a failure with a good token, or the
  expiry of the token in use) of its own; every one, as soon as the header is an expired token or a new
  one is being asked for (`Paid`). A token renewed by its own coroutine is good, and one that
  a coroutine holds is never used again for another.
* *Adapter.* A refresh of the names in progress carries a stamp no younger than the last load
  (`Stamped`). An ingest between the search of a block and the upsert of its last document finds in the parser
  the jurisdiction of the block, has only documents of the block left, and parsed the one in hand with it
  (`InBlock`); every way out of `get()` and of `ingest()` leaves that alone.
* *Document repository.* `IdsResolve` with what a writer has done before the statement it is at: ids for
  every reference before its column, at the topics a complete row and the links to every topic before (`OnTrack`);
  what was finished is in the tables (`Finished`); a reader's columns and topics
  cover what was due when it began, query by query (`Informed`). The tables only grow, which is
  the one lemma all steps share. For the refinement the abstract variables are read off the tables (`Bar`), and
  each action is shown to be `Enter`, `Write`, `Link` or a stutter of `DocumentStore`.
* *Legal status.* What a reader has not answered yet, the queries still to come would (`StatusSoFar`,
  `SectionSoFar`): after the query for revocations found none, the answer will be at least the status at the
  question. Every condition only grows from "not in effect" to "in effect" with new facts, marks
  and days (lemma `ConditionsGrow`), which is where `OneDate` is used: a date recorded for a pair is that of its facts (`Dated`).
* *Vector store.* A scroll at an offset has read every point that was there all along and lies before the
  offset, and nothing behind it (`AtOffset`), whatever is inserted or deleted on either side. That
  `Matching` sorts at all is proved by ranks (`SortedRises`). A collection is of another
  size, or about to be dropped, only after `switching` (`NoStrayDrop`).
* *Section topics.* The script empties the rows before the vectors (`RowsEmptied`) and writes a row before its
  vector (`RowsFirst`); once both are emptied, every vector is that of a row (`VectorsResolve`); and the
  collection is there whenever it counts on it, for nobody else deletes it (`VectorsKept`).
* *ODL service.* A cache entry answers every question with its key (`TrueEntry`); a request is at a step of
  its own method, with an answer built for its own question, and the document it knew is still there (`OnTrack`).
* *Staleness* (`StaleInv`, with the history) rests on three facts. The ingest takes nothing back (`NoLater`) and writes
  the row of a version before what refers to it (`RowFirst`), so metadata read after a snippet are as new
  as it is. What a request has read so far lies between the stores it began with and those there are (`Making`);
  an interval that only grows as the stores move on (`StillBetween`), also when the answer lies in the cache.
  And the age of an entry and its remaining TTL never exceed the TTL of its method together (`Lasting`).
* *Server.* `OnePool` is not inductive: a request in the middle of `connect()` could assign a second pool. It needs
  that no request is ever there (`NoneCreates`): requests exist only while `main` listens (`Served`), by when its
  own `connect()` has put a pool in place that stays until they have ended or been refused (`PoolInPlace`), so every
  request finds one. The connections lent are those of the callers at a statement or at the verifying query (`Counted`).
* *Redis client.* Type correctness and `DownIsBeingChecked` are inductive together.
* *Retrieval.* The merged filter selects what is in force, of the document and of the region asked for, and all of it
  (`MergeSelects`: `must` and `should` on one side, `Eligible` as the question means it on the other). All pages are cut out of one ranking (`Ranking`, `PageOfRanking`). Of the ranks up to `offset`
  every chunk that passes and is the first of its document has been shown (`ShownSoFar`): on its page nothing of its
  document is ahead of it. After an empty page no chunk behind `offset` passes, for scores fall along the ranking and
  the best of each document on the page failed (`NothingLeft`). The best chunk of a document is the first of it.
  That a finite set can be arranged in an order at all is proved by ranks (`ArrangedInOrder`).
  For `CitedAsAsked` no invariant is needed but a lemma at each stage of one step: a joined text continues the first
  of the two and has the second in it, with an overlap or without (`JoinedKeepsBoth`), so the text of a section has
  in it the text of each of its chunks (`JoinedAllKeepsAll`), every section has its citation
  (`MergedKeepsAll`), and a cut adds one letter at most (`TruncatedFits`).

### Only model-checked

* Liveness, which TLAPS cannot reach: `PlainHalfOpenResolves`, `PlainRecovery`, the
  `EventuallyCurrent` of ingest and adapter, `CatchesUp`, `FactsRecorded`, `EventuallyStored`,
  `SectionsLinked`, `EventuallyFresh`, `Reconnects`, `Ends`.

Every safety property of a passing run is stated by a theorem.

Nothing is declared RECURSIVE: the ancestors of a section are the least set closed under `Parent`, and the joined
text of a section and the length of citations are recursive functions. The library's induction takes an operator
as a parameter, which the provers cannot instantiate. `InductionOverSet` states it for a set instead: `H` holds
`0`, and `i + 1` with every `i` below `n`, so it holds `0..n`. It is proved from `LeastNumber` (the least number
missing would have a predecessor in `H`), and gives both that these functions exist and what they compute.

## Where the code and its documentation disagree

Found by a run:

| Run | Code | It says |
|---|---|---|
| `paged_by_total_count` | `core/odl_service.py:400`: `total_count` is the number of results on the page at hand, so a client that pages as told stops early | `core/models/models.py:255-257` |
| `toc` | `core/odl_service.py:802` calls `section_repo.get_toc()`, which no class defines; the `AttributeError` is swallowed and the answer is always `[]`. `list_topics()` has the same fault | `odl_service.py:767`; `tests/unit/test_odl_service.py:732` mocks the missing method |
| `shown_can_be_opened` | `core/odl_service.py:471`: `ingest()` indexes under `pravo-<GUID>` (`pravo_parser.py:75`), the detail takes what follows the dash for a publication number and finds nothing | `odl_service.py:437-438` |

The two ids reach further. Search results under a GUID carry no metadata, and a detail by
publication number cites only the title. `get_content` asks the source for the PDF of
`pravo-<GUID>` where the endpoint's parameter is a publication number: if the source refuses
GUIDs, as `PravoAdapter` assumes of records, every item of `ingest()` fails at its content, and
only the fixtures script, which uses publication numbers, indexes anything. `IngestPipeline`
is about what follows when the source does answer.

Met while modelling; the models contain the behaviour unless said otherwise, no run is devoted to it.

*Breaker and client.* `circuit_breaker.py:113`: the request that turns OPEN into HALF_OPEN is not
counted, so one more than configured passes (line 6: "one probe request is allowed"), hence the
`+ 1` in `ProbesBounded`. Line 143: a late success closes an OPEN circuit directly, a transition
lines 8-12 do not list; line 151: a failure while OPEN restarts the timeout (line 10).
`pravo_client.py:129`: a failed health check counts twice (lines 118-119 promise one failure).
`circuit_breaker.py:120` counts a probe, and only httpx's exceptions (`pravo_client.py:198` on)
lead to a verdict: a cancelled probe keeps its slot and the circuit stays HALF_OPEN, refusing
everything (lines 43-45). That is why the last three properties of `breaker` are for plain calls.

*Ingest.* `section_repo.py:73-105`: two ingests insert the same section; from then on the
subquery for the parent of its children fails and their chunks stay unlinked (lines 54-55);
hence `RowsUnique` for one worker. `production/ingest.py:108`: the handler of a parse error reads
`document_id`, unbound until some item was parsed, and the `UnboundLocalError` ends the run
(`tests/unit/test_pravo_adapter_production.py:305`). `ingest_pipeline.py:102`: an empty text is
counted as ingested (`production/ingest.py:28`). The pipeline deactivates removed sections before it upserts
chunks, which undoes the deactivation of a chunk that is upserted again.

*Adapter.* `base.py:408` loads the document types of one authority ("все типы", line 409), of the
first block and category only, and never again while the cache is filled. `get()` turns a
`ValueError` of persistence into `NotFoundError` and has no cached answer for a persistence
that is unavailable. An `ingest()` that raises leaves its jurisdiction in the parser.

*Yandex OCR.* The header is read once per document, so after an expiry every page wastes an
attempt; a refusal drops the token other documents have just renewed; after the third refusal a
token is renewed in vain.

*Repositories.* `save_analysis_facts` (lines 277-284) records a modification the other way
round: the sections of the document analysed as modified by the document its fact names as the
target. A revocation without a date holds at
once; recording it again with a later date lifts it until then. `get_legal_status` ignores the
marks of sections. Both racers of `get_or_create_topic` are told they created the topic; a topic
whose sync to Qdrant failed, or that `upsert_document` created, never gets its vector from there. Topics
of a document are only added. `get_or_create_region` (`reference_repo.py:100-115`) asks for a column a
migration removed: with `fixtures/regions.json` present the fixtures script ends before step 2
(its docstring, lines 3-6).

*Vector store.* Between the comparison of sizes and the drop (`qdrant_store.py:99-107`) another
process may have re-created the collection and filled it; hence `~switching` in
`OnlyDeletesRemove`. A crash between the collection and its indexes leaves the indexes missing, as no
later start adds them. Payload keys of two filters (topic, organization) are never written; `max_age_days` compares
a date string in a numeric range.

*ODL service.* Line 451: a detail is cached under `source_id` alone although query, context and
length select its citations (line 161); hence `SearchAnswersQuestion` for searches only. Line
397: a failed vector search is cached for five minutes as an empty answer (line 411). Line
282: a database error of the region lookup ends the search (line 229 and `regions.py:28`
promise degradation); `SearchSurvives` excepts it. The answers of line 397 are those `StalenessBounded` excepts as degraded. Line 281: the text of a region that does not resolve, or a service without a resolver, drops the condition
on the region without a word in the answer; lines 535-610 never resolve the text at all, so the citations
of a detail are restricted by region only if the id is given. Line 473: a database error of a detail is passed
on (line 446: `NotFoundError`). Without a query, chunks out of force are cited and no maximum
length is applied; a cut citation is one letter longer than asked, for the ellipsis.

*Redis client and process.* `core/cache/__init__.py:84`: a cancelled ping leaves a working client
with `available` False for good (line 61); line 77 publishes the client before its ping (line
70: "connected and healthy → reuse"); hence `interrupted` in `DownIsBeingChecked` and
`Reconnects`. `db_client.connect()` tests for a pool (line 77) and then awaits its creation (line 80): two
pools, one of them lost, if two coroutines came first. Only that `main()` awaits its check before it starts
uvicorn keeps requests from it, which is what `OnePool` checks: with the check left out (`Unchecked`), TLC finds two
admin requests that each create a pool.

## Plan

Done: every component with state of its own that the program uses is modelled; the read path, the
write path and the process are checked with their failures; the relational store is proved to refine
an abstract one; every safety property of a passing run is proved. Next:

* The session of the breaker as a refinement of a three-state circuit that knows only verdicts and time.

## What is not modelled

* Stub mode and the handlers of the adapter (delegation, fixtures read from files); the
  embedder (a model loaded lazily, at worst twice) and the section analyzer, a stub that finds
  nothing: what its facts would do is in `LegalStatus`.
* The RSS base class: nothing calls the feed methods it adds. The table-of-contents mixin and
  the parser's patterns: functions of text.
* REST and MCP translation, configuration, logs, spans, models and errors: no state a
  property could be about.
* Methods without a caller: `_persist_document` of the ODL service, `transaction()`, `upsert()`,
  `executemany()` of the database client; `_check_missing_region` is a stub.
* The listing has one page (50 items); that it is not paged is outside the model.
* The splitter (package `smart_chunker`), embedding models, PostgreSQL, Qdrant and Redis
  themselves are external: they appear as what the code relies on. That the splitter's parents
  form a forest is assumed.
