--------------------------- MODULE IngestPipeline ---------------------------
(***************************************************************************)
(* Ingest of documents: the production handler of the pravo adapter        *)
(* (adapters/pravo/adapter/production/ingest.py) running the shared        *)
(* pipeline process_document_text (adapters/base/ingest_pipeline.py),      *)
(* which writes section rows to PostgreSQL (section_repo.upsert_sections)  *)
(* and chunk points to Qdrant (qdrant_store.upsert_chunks).                *)
(*                                                                         *)
(* A worker is one execution of ingest().  It interleaves with the others  *)
(* at every await: each SQL statement is its own transaction, a Qdrant     *)
(* request is one step.  A crash loses the worker and nothing else.        *)
(*                                                                         *)
(*   source    the version of each document the source serves              *)
(*   faulty    while FALSE no call fails and no worker crashes             *)
(*   document  documents with a row in PostgreSQL                          *)
(*   rows      the rows of document_section                                *)
(*   points    the points of the Qdrant collection                         *)
(*   worker    per worker: pc, and the variables of ingest(),              *)
(*             process_document_text and upsert_sections                   *)
(*                                                                         *)
(* A document is cut into one chunk per section of its table of contents;  *)
(* points that differ in nothing but a generated id are one element.       *)
(* The splitter (package smart_chunker) is external: StableIds says        *)
(* whether it names its chunks, or the fallback uuid4() does.              *)
(***************************************************************************)
EXTENDS Naturals, FiniteSets, Sequences

CONSTANTS
  Workers,      \* concurrent executions of ingest()
  Docs,         \* documents of the source
  Malformed,    \* those whose search record parse_search_result rejects
  RowIds,       \* ids of rows of document_section; bound: enough of them
  Sections,     \* external ids of sections ("1", "1.1", ...)
  Parent,       \* parent_number of a section, or NoParent
  NoParent,
  MaxVersion,   \* bound: how often a document is amended
  Toc,          \* per version, the table of contents in document order
  StableIds,    \* does the splitter give chunks an id of their own?
  WithDb,       \* is a DatabaseClient configured?
  WithQdrant    \* is qdrant-client installed?

NoId == 0       \* no row: NULL in parent_id, "" in section_uuids

ASSUME IngestAssumption ==
  /\ Docs # {} /\ Malformed \subseteq Docs
  /\ NoParent \notin Sections
  /\ RowIds \subseteq Nat \ {NoId}
  /\ Parent \in [Sections -> Sections \cup {NoParent}]
  /\ MaxVersion \in Nat \ {0}
  /\ Toc \in [1 .. MaxVersion -> Seq(Sections)]
  /\ StableIds \in BOOLEAN /\ WithDb \in BOOLEAN /\ WithQdrant \in BOOLEAN

Range(seq) == {seq[i] : i \in DOMAIN seq}

(* section_external_ids of a section's chunk: the section and its          *)
(* ancestors, followed through parent_number.                              *)
Closed(P) == \A e \in P : Parent[e] = NoParent \/ Parent[e] \in P
Path(s) ==
  CHOOSE P \in SUBSET Sections :
    s \in P /\ Closed(P) /\ \A Q \in SUBSET P : s \in Q /\ Closed(Q) => Q = P

(* The splitter lists a section after its parent. *)
ASSUME TocAssumption ==
  \A v \in 1 .. MaxVersion :
    /\ \A i \in DOMAIN Toc[v] :
         Parent[Toc[v][i]] = NoParent \/ \E j \in 1 .. i - 1 : Toc[v][j] = Parent[Toc[v][i]]
    /\ \A e \in Range(Toc[v]) : Path(e) \subseteq Range(Toc[v])

VARIABLES source, faulty, document, rows, points, worker

vars == <<source, faulty, document, rows, points, worker>>
stores == <<document, rows, points>>

Version == 1 .. MaxVersion
Id == RowIds \cup {NoId}
SectionMap == [Sections -> Id]     \* external id -> id, NoId where not mapped
NoMap == [e \in Sections |-> NoId]

Row == [id: RowIds, doc: Docs, ext: Sections, parent: Id]
Point == [doc: Docs, sec: Sections, version: Version, section_uuids: SectionMap]
Worker ==
  [pc: {"idle", "item", "persist", "content", "select", "write", "upsert"},
   todo: SUBSET Docs, bound: BOOLEAN, doc: Docs, version: Version,
   queue: Seq(Sections), existing: Id, section_map: SectionMap]

TypeOK ==
  /\ source \in [Docs -> Version]
  /\ faulty \in BOOLEAN
  /\ document \subseteq Docs
  /\ rows \subseteq Row
  /\ points \subseteq Point
  /\ worker \in [Workers -> Worker]

Fresh == [pc |-> "idle", todo |-> {}, bound |-> FALSE,
          doc |-> CHOOSE d \in Docs : TRUE, version |-> 1, queue |-> <<>>,
          existing |-> NoId, section_map |-> NoMap]

Init ==
  /\ source = [d \in Docs |-> 1]
  /\ faulty = TRUE
  /\ document = {}
  /\ rows = {}
  /\ points = {}
  /\ worker = [w \in Workers |-> Fresh]

-----------------------------------------------------------------------------
(* The stores.                                                             *)

RowsOf(d, e) == {r \in rows : r.doc = d /\ r.ext = e}
Unused == {n \in RowIds : \A r \in rows : r.id # n}
NextId == CHOOSE n \in RowIds : n \in Unused

(* section_uuids of a chunk, by external id. *)
Links(map, s) == [e \in Sections |-> IF e \in Path(s) THEN map[e] ELSE NoId]

(* upsert_chunks: the points written for document d. *)
NewPoints(d, v, map) ==
  {[doc |-> d, sec |-> e, version |-> v, section_uuids |-> Links(map, e)] :
     e \in Range(Toc[v])}

(* Points that share their id with one of the new points are overwritten. *)
Overwritten(d, v) ==
  IF StableIds THEN {p \in points : p.doc = d /\ p.sec \in Range(Toc[v])}
  ELSE {}

Store(d, v, map) ==
  IF WithQdrant THEN (points \ Overwritten(d, v)) \cup NewPoints(d, v, map)
  ELSE points

-----------------------------------------------------------------------------
(* ingest(): the listing and its items.                                    *)

Goto(w, pc) == worker' = [worker EXCEPT ![w].pc = pc]

(* The item is done with, and the locals of its processing are gone. *)
ItemDone(w) ==
  worker' = [worker EXCEPT ![w] =
    [Fresh EXCEPT !.pc = "item", !.bound = TRUE, !.todo = worker[w].todo]]

(* Mutant: only documents not yet in PostgreSQL are taken. *)
StartRunNewOnly(w) ==
  /\ worker[w].pc = "idle"
  /\ \E listing \in SUBSET (Docs \ document) :
       /\ listing # {}
       /\ worker' = [worker EXCEPT ![w] =
                       [Fresh EXCEPT !.pc = "item", !.todo = listing]]
  /\ UNCHANGED <<source, faulty, stores>>
(* ingest() starts and lists the blocks.  A block whose search raises      *)
(* SourceUnavailableError is skipped with all its documents.               *)
StartRun(w) ==
  /\ worker[w].pc = "idle"
  /\ \E listing \in SUBSET Docs :
       /\ listing # {}
       /\ ~faulty => listing = Docs
       /\ worker' = [worker EXCEPT ![w] =
                       [Fresh EXCEPT !.pc = "item", !.todo = listing]]
  /\ UNCHANGED <<source, faulty, stores>>

(* parse_search_result accepts the next item. *)
NextItem(w, d) ==
  /\ worker[w].pc = "item"
  /\ d \in worker[w].todo \ Malformed
  /\ worker' = [worker EXCEPT ![w].pc = "persist", ![w].doc = d,
                              ![w].bound = TRUE, ![w].todo = @ \ {d}]
  /\ UNCHANGED <<source, faulty, stores>>

(* It rejects the item.  The handler of the error names document_id: when  *)
(* no item was parsed before, that variable is unbound and its             *)
(* UnboundLocalError ends ingest().                                        *)
ParseFails(w, d) ==
  /\ worker[w].pc = "item"
  /\ d \in worker[w].todo \cap Malformed
  /\ worker' = [worker EXCEPT ![w].todo = IF worker[w].bound THEN @ \ {d} ELSE {},
                              ![w].pc = IF worker[w].bound THEN @ ELSE "idle"]
  /\ UNCHANGED <<source, faulty, stores>>

EndRun(w) ==
  /\ worker[w].pc = "item"
  /\ worker[w].todo = {}
  /\ Goto(w, "idle")
  /\ UNCHANGED <<source, faulty, stores>>

(* Mutant: the persistence call is missing.                                *)
PersistNothing(w) ==
  /\ worker[w].pc = "persist"
  /\ Goto(w, "content")
  /\ UNCHANGED <<source, faulty, stores>>
(* _persist_document and _get_doc_uuid. *)
Persist(w) ==
  /\ worker[w].pc = "persist"
  /\ document' = IF WithDb THEN document \cup {worker[w].doc} ELSE document
  /\ Goto(w, "content")
  /\ UNCHANGED <<source, faulty, rows, points>>

(* Mutant: the PDF may come from a cache.                                  *)
FetchCached(w) ==
  /\ worker[w].pc = "content"
  /\ \E v \in 1 .. source[worker[w].doc] :
       worker' = [worker EXCEPT
          ![w].version = v, ![w].queue = Toc[v], ![w].section_map = NoMap,
          ![w].pc = IF WithDb /\ Toc[v] # <<>> THEN "select" ELSE "upsert"]
  /\ UNCHANGED <<source, faulty, stores>>
(* get_content: the PDF served now is recognised, then split.  Sections    *)
(* are persisted when there is a database and a table of contents.  That   *)
(* the source serves the PDF under the id ingest() asks with, the GUID of  *)
(* the record, is assumed: PravoAdapter has a source that does not.        *)
FetchText(w) ==
  /\ worker[w].pc = "content"
  /\ LET v == source[worker[w].doc]
     IN  worker' = [worker EXCEPT
          ![w].version = v, ![w].queue = Toc[v], ![w].section_map = NoMap,
          ![w].pc = IF WithDb /\ Toc[v] # <<>> THEN "select" ELSE "upsert"]
  /\ UNCHANGED <<source, faulty, stores>>

(* The recognised text is empty, or splits into no chunk: nothing is       *)
(* indexed (ingest() counts the document as ingested all the same).        *)
EmptyText(w) ==
  /\ faulty
  /\ worker[w].pc = "content"
  /\ ItemDone(w)
  /\ UNCHANGED <<source, faulty, stores>>

(* Any exception of an item skips it.  A failed _persist_document may have *)
(* inserted the row; a failed upsert may have reached Qdrant.              *)
ItemFails(w) ==
  /\ faulty
  /\ \/ /\ worker[w].pc \in {"persist", "content", "upsert"}
        /\ UNCHANGED stores
     \/ /\ worker[w].pc = "persist" /\ WithDb
        /\ document' = document \cup {worker[w].doc}
        /\ UNCHANGED <<rows, points>>
     \/ /\ worker[w].pc = "upsert"
        /\ points' = Store(worker[w].doc, worker[w].version, worker[w].section_map)
        /\ UNCHANGED <<document, rows>>
  /\ ItemDone(w)
  /\ UNCHANGED <<source, faulty>>

-----------------------------------------------------------------------------
(* upsert_sections: one SELECT and one write per section.                  *)

Section(w) == Head(worker[w].queue)
Doc(w) == worker[w].doc

(* SELECT id ... returns the id of some matching row, or NULL. *)
SelectSection(w) ==
  /\ worker[w].pc = "select"
  /\ LET found == {r.id : r \in RowsOf(Doc(w), Section(w))}
     IN \E id \in IF found = {} THEN {NoId} ELSE found :
          worker' = [worker EXCEPT ![w].pc = "write", ![w].existing = id]
  /\ UNCHANGED <<source, faulty, stores>>

(* The scalar subquery for parent_id: NULL when no row matches, an error   *)
(* when several do.                                                        *)
Parents(d, e) == {r.id : r \in RowsOf(d, Parent[e])}
ParentId(d, e) == IF Parents(d, e) = {} THEN NoId ELSE CHOOSE id \in Parents(d, e) : TRUE

(* UPDATE of the row found, or INSERT of a new one: its id. *)
WrittenId(w) == IF worker[w].existing # NoId THEN worker[w].existing ELSE NextId

(* Mutants of the write: the SELECT is ignored; the subquery forgets its   *)
(* document_id condition.                                                  *)
InsertAlways(w) ==
  rows \cup {[id |-> NextId, doc |-> Doc(w), ext |-> Section(w),
              parent |-> ParentId(Doc(w), Section(w))]}
ParentOfAnyDocument(w) ==
  {r \in rows : r.id # WrittenId(w)}
    \cup {[id |-> WrittenId(w), doc |-> Doc(w), ext |-> Section(w),
           parent |-> LET ps == {r.id : r \in {q \in rows : q.ext = Parent[Section(w)]}}
                      IN IF ps = {} THEN NoId ELSE CHOOSE id \in ps : TRUE]}
(* The table after the write. *)
Written(w) ==
  {r \in rows : r.id # WrittenId(w)}
    \cup {[id |-> WrittenId(w), doc |-> Doc(w), ext |-> Section(w),
           parent |-> ParentId(Doc(w), Section(w))]}

(* The statement succeeds unless the subquery returns several rows. *)
Writable(w) ==
  /\ Cardinality(Parents(Doc(w), Section(w))) <= 1
  /\ worker[w].existing # NoId \/ Unused # {}

WriteSection(w) ==
  /\ worker[w].pc = "write"
  /\ Writable(w)
  /\ rows' = Written(w)
  /\ worker' = [worker EXCEPT
       ![w].queue = Tail(@), ![w].existing = NoId,
       ![w].section_map[Section(w)] = WrittenId(w),
       ![w].pc = IF Tail(worker[w].queue) = <<>> THEN "upsert" ELSE "select"]
  /\ UNCHANGED <<source, faulty, document, points>>

(* Mutant of DropMap: the mapping built so far is used. *)
KeepsPartialMap(w) ==
  worker' = [worker EXCEPT ![w].pc = "upsert", ![w].queue = <<>>, ![w].existing = NoId]
DropMap(w) ==
  worker' = [worker EXCEPT ![w].pc = "upsert", ![w].queue = <<>>,
                           ![w].existing = NoId, ![w].section_map = NoMap]
(* A statement fails, before or after it was committed, or the subquery    *)
(* does.  The pipeline logs it and goes on with unlinked chunks; the rows  *)
(* already written stay.                                                   *)
SectionsFail(w) ==
  /\ \/ /\ faulty /\ worker[w].pc \in {"select", "write"}
        /\ UNCHANGED rows
     \/ /\ faulty /\ worker[w].pc = "write"
        /\ Writable(w)
        /\ rows' = Written(w)
     \/ /\ worker[w].pc = "write"
        /\ Cardinality(Parents(Doc(w), Section(w))) > 1
        /\ UNCHANGED rows
  /\ DropMap(w)
  /\ UNCHANGED <<source, faulty, document, points>>

-----------------------------------------------------------------------------
(* Embedding (no state) and upsert_chunks.                                *)
Upsert(w) ==
  /\ worker[w].pc = "upsert"
  /\ points' = Store(Doc(w), worker[w].version, worker[w].section_map)
  /\ ItemDone(w)
  /\ UNCHANGED <<source, faulty, document, rows>>

-----------------------------------------------------------------------------
(* The environment.                                                        *)

Crash(w) ==
  /\ faulty
  /\ worker[w].pc # "idle"
  /\ worker' = [worker EXCEPT ![w] = Fresh]
  /\ UNCHANGED <<source, faulty, stores>>

(* The source publishes a new version of a document (of a malformed one    *)
(* nobody ever sees the version).                                          *)
Amend(d) ==
  /\ source[d] < MaxVersion
  /\ source' = [source EXCEPT ![d] = @ + 1]
  /\ UNCHANGED <<faulty, stores, worker>>

Heal ==
  /\ faulty
  /\ faulty' = FALSE
  /\ UNCHANGED <<source, stores, worker>>

Step(w) ==
  \/ \E d \in Docs : NextItem(w, d) \/ ParseFails(w, d)
  \/ EndRun(w)
  \/ Persist(w)
  \/ FetchText(w)
  \/ EmptyText(w)
  \/ ItemFails(w)
  \/ SelectSection(w)
  \/ WriteSection(w)
  \/ SectionsFail(w)
  \/ Upsert(w)

Next ==
  \/ \E w \in Workers : StartRun(w)
  \/ \E w \in Workers : Step(w)
  \/ \E w \in Workers : Crash(w)
  \/ \E d \in Docs \ Malformed : Amend(d)
  \/ Heal

Spec == Init /\ [][Next]_vars

(* Whoever runs the ingest runs it again and again, the event loop runs    *)
(* every worker, and failures end.  No amendment is promised.              *)
Fairness ==
  /\ \A w \in Workers : WF_vars(StartRun(w)) /\ WF_vars(Step(w))
  /\ WF_vars(Heal)

-----------------------------------------------------------------------------
(* Safety.                                                                 *)

(* A chunk is linked along its whole path or not at all: its               *)
(* section_uuids name, for the section and each ancestor, a row of the     *)
(* same document and external id.  No crash, failure or concurrent ingest  *)
(* leaves a link dangling, half-made or crossed.                           *)
LinksResolve ==
  \A p \in points :
    p.section_uuids # NoMap =>
      \A e \in Path(p.sec) :
        \E r \in RowsOf(p.doc, e) : r.id = p.section_uuids[e]

(* Indexed implies persisted: a point's document and, when it has links,   *)
(* its rows are in PostgreSQL before it is in Qdrant.                      *)
IndexedIsPersisted ==
  WithDb => /\ \A p \in points : p.doc \in document
            /\ \A r \in rows : r.doc \in document

(* parent_id is a row of the same document with the parent's external id;  *)
(* every section that has a parent has one (the table of contents lists a  *)
(* section after its parent).                                              *)
SectionTree ==
  \A r \in rows :
    IF Parent[r.ext] = NoParent THEN r.parent = NoId
    ELSE \E q \in RowsOf(r.doc, Parent[r.ext]) : q.id = r.parent

(* section_repo.py:54: "For each section, checks by (document_id,          *)
(* external_id) whether a record already exists" -- one row per section.   *)
(* Nothing in the schema enforces it; it holds for a single ingest.        *)
RowsUnique == \A q, r \in rows : q.doc = r.doc /\ q.ext = r.ext => q = r

(* When chunks have ids of their own and one ingest runs at a time, the    *)
(* index never trades the text of a section for an older one, though the   *)
(* source moves on while the ingest waits.                                 *)
IndexNeverRegresses ==
  [][\A q \in points, p \in points' :
       q.doc = p.doc /\ q.sec = p.sec => q.version <= p.version]_vars

-----------------------------------------------------------------------------
(* Liveness.                                                               *)

(* Every section of the current version is indexed and linked. *)
Current(d) ==
  \A e \in Range(Toc[source[d]]) :
    \E p \in points : /\ p.doc = d /\ p.sec = e
                      /\ p.version = source[d]
                      /\ WithDb => p.section_uuids # NoMap

(* Once failures end, re-running the ingest brings every document that     *)
(* parses up to date for good, whatever crashes left behind.  It holds     *)
(* when no document is malformed.  tests/unit/test_pravo_adapter_production*)
(* .py:305: "When some items fail to parse, skip them and continue." -- a  *)
(* malformed item at the head of the listing ends every run instead.       *)
EventuallyCurrent == <>[](\A d \in Docs \ Malformed : Current(d))

=============================================================================
