----------------------------- MODULE OdlService -----------------------------
(***************************************************************************)
(* The read path of core/odl_service.py: search_documents,                 *)
(* get_document_detail, list_topics and get_toc, cache-aside over Redis,   *)
(* assembling an answer from Qdrant and PostgreSQL with an await between   *)
(* any two reads, while the ingest moves the stores.                       *)
(*                                                                         *)
(* Data is reduced to versions: what an answer says of a document is the   *)
(* version each of its parts was read at, 0 when the part is missing.  The *)
(* region resolver's own cache entry is left out: it answers as PostgreSQL *)
(* does, and a lookup that fails may have missed it or not.                *)
(*                                                                         *)
(* A document has two ids.  Points carry the one it was indexed under:     *)
(* "pravo-" and its publication number (eo) when the fixtures script did   *)
(* it, "pravo-" and its GUID when ingest() did.  Its row in PostgreSQL is  *)
(* found by the publication number only.                                   *)
(*                                                                         *)
(*   store      per document, the version in PostgreSQL (document row,     *)
(*              section rows) and in Qdrant (points under each of its      *)
(*              ids); 0 is absent                                          *)
(*   cache      Redis: per key an answer and its remaining TTL, 0 is       *)
(*              absent                                                     *)
(*   faulty     while FALSE no call to a store or to Redis fails           *)
(*   request    per client, the request it has in progress                 *)
(*   reply      per client, the outcome of its last request, until it      *)
(*              makes the next                                             *)
(***************************************************************************)
EXTENDS Naturals

CONSTANTS
  Clients,      \* concurrent requests
  Docs,
  IndexedAs,    \* the ids under which documents are indexed: "eo", "guid"
  Questions,    \* what clients ask: records, see QuestionShape
  MaxVersion,   \* bound: versions of a document
  SearchTtl,    \* ttl of a search answer (5 minutes), in ticks
  DetailTtl     \* ttl of a document detail (1 hour)

Ids == [by: {"eo", "guid"}, doc: Docs]

(* kind: the method called; id: source_id of a detail (the others ignore   *)
(* it; a table of contents is asked for by uuid, here by "eo"); query:     *)
(* query and context; region: does the context name a region by text, to   *)
(* be resolved?                                                            *)
QuestionShape == [kind: {"search", "detail", "topics", "toc"}, id: Ids, query: Nat,
                  region: BOOLEAN]

ASSUME ServiceAssumption ==
  /\ Questions \subseteq QuestionShape /\ Questions # {}
  /\ IndexedAs \subseteq {"eo", "guid"}
  /\ MaxVersion \in Nat
  /\ SearchTtl \in Nat \ {0} /\ DetailTtl \in Nat \ {0}

VARIABLES store, cache, faulty, request, reply

vars == <<store, cache, faulty, request, reply>>

(* _cache_key and its calls: all arguments make the key, but for a detail, *)
(* which has source_id alone.  The mutant forgets the context of a search. *)
KeyWithoutContext(q) ==
  [q EXCEPT !.region = FALSE, !.query = IF q.kind # "detail" THEN @ ELSE 0]
Key(q) == IF q.kind # "detail" THEN q ELSE [q EXCEPT !.query = 0, !.region = FALSE]
Keys == {Key(q) : q \in Questions}

(* ttl of the entry. *)
Ttl(q) == IF q.kind = "search" THEN SearchTtl ELSE DetailTtl

Version == 0 .. MaxVersion
(* to: the question it was built for; meta, text: what it says under each  *)
(* id (metadata; snippets or citations); toc; degraded: did a store fail   *)
(* while it was built?                                                     *)
Answer == [to: Questions, meta: [Ids -> Version], text: [Ids -> Version],
           toc: Version, degraded: BOOLEAN]
Blank(q) == [to |-> q, meta |-> [i \in Ids |-> 0], text |-> [i \in Ids |-> 0],
             toc |-> 0, degraded |-> FALSE]

SomeQuestion == CHOOSE q \in Questions : TRUE
NoEntry == [answer |-> Blank(SomeQuestion), ttl |-> 0]
(* known: was the document in PostgreSQL when the request was made? *)
NoRequest == [pc |-> "idle", question |-> SomeQuestion, todo |-> {},
              answer |-> Blank(SomeQuestion), known |-> FALSE]
NoReply == [outcome |-> "none", question |-> SomeQuestion,
            answer |-> Blank(SomeQuestion), known |-> FALSE]

TypeOK ==
  /\ store \in [Docs -> [document: Version, sections: Version,
                        points: [{"eo", "guid"} -> Version]]]
  /\ cache \in [Keys -> [answer: Answer, ttl: 0 .. SearchTtl + DetailTtl]]
  /\ faulty \in BOOLEAN
  /\ request \in [Clients -> [pc: {"idle", "lookup", "resolve", "vectors", "enrich",
                                    "meta", "toc", "citations", "exists", "browse", "fill"},
                               question: Questions, todo: SUBSET Ids,
                               answer: Answer, known: BOOLEAN]]
  /\ reply \in [Clients -> [outcome: {"none", "ok", "not_found", "error"},
                             question: Questions, answer: Answer, known: BOOLEAN]]

Init ==
  /\ store = [d \in Docs |-> [document |-> 0, sections |-> 0,
                             points |-> [by \in {"eo", "guid"} |-> 0]]]
  /\ cache = [k \in Keys |-> NoEntry]
  /\ faulty = TRUE
  /\ request = [c \in Clients |-> NoRequest]
  /\ reply = [c \in Clients |-> NoReply]

-----------------------------------------------------------------------------
Q(c) == request[c].question

(* get_document_by_publish_id(): what follows the dash of the id is taken  *)
(* for a publication number.                                               *)
Row(id) == IF id.by = "eo" THEN store[id.doc].document ELSE 0
Points(id) == store[id.doc].points[id.by]

(* The request moves on to pc with the answer built so far. *)
Continue(c, pc, answer) ==
  /\ request' = [request EXCEPT ![c].pc = pc, ![c].answer = answer]
  /\ UNCHANGED reply

Respond(c, outcome, answer) ==
  /\ request' = [request EXCEPT ![c] = NoRequest]
  /\ reply' = [reply EXCEPT ![c] = [outcome |-> outcome, question |-> Q(c),
                                     answer |-> answer, known |-> request[c].known]]

Raise(c, outcome) == Respond(c, outcome, Blank(Q(c)))

-----------------------------------------------------------------------------
(* The head of every method: the cache is consulted.                       *)

Ask(c, q) ==
  /\ request[c].pc = "idle"
  /\ request' = [request EXCEPT ![c] =
       [NoRequest EXCEPT !.pc = "lookup", !.question = q, !.answer = Blank(q),
                         !.known = q.kind \in {"detail", "toc"} /\ store[q.id.doc].document > 0]]
  /\ reply' = [reply EXCEPT ![c] = NoReply]
  /\ UNCHANGED <<store, cache, faulty>>

(* Mutant: a hit prolongs the entry. *)
HitProlongs(c) ==
  /\ request[c].pc = "lookup"
  /\ cache[Key(Q(c))].ttl > 0
  /\ Respond(c, "ok", cache[Key(Q(c))].answer)
  /\ cache' = [cache EXCEPT ![Key(Q(c))].ttl = Ttl(Q(c))]
  /\ UNCHANGED <<store, faulty>>
Hit(c) ==
  /\ request[c].pc = "lookup"
  /\ cache[Key(Q(c))].ttl > 0
  /\ Respond(c, "ok", cache[Key(Q(c))].answer)
  /\ UNCHANGED <<store, cache, faulty>>

(* No entry, or the lookup fails: the stores are asked. *)
Missed(c) == cache[Key(Q(c))].ttl = 0 \/ faulty
Miss(c) ==
  /\ request[c].pc = "lookup"
  /\ Missed(c)
  /\ Continue(c, CASE Q(c).kind = "detail" -> "meta"
                   [] Q(c).kind = "search" /\ Q(c).region -> "resolve"
                   [] Q(c).kind = "search" /\ ~Q(c).region -> "vectors"
                   [] Q(c).kind = "toc" -> "exists"
                   [] Q(c).kind = "topics" -> "browse",
              request[c].answer)
  /\ UNCHANGED <<store, cache, faulty>>

-----------------------------------------------------------------------------
(* search_documents.                                                       *)

(* RegionResolver.resolve: from its cache (whose failures are suppressed)  *)
(* or from PostgreSQL.                                                     *)
Resolve(c) ==
  /\ request[c].pc = "resolve"
  /\ Continue(c, "vectors", request[c].answer)
  /\ UNCHANGED <<store, cache, faulty>>

(* The query fails in PostgreSQL: nothing catches the exception. *)
ResolveFails(c) ==
  /\ faulty
  /\ request[c].pc = "resolve"
  /\ Raise(c, "error")
  /\ UNCHANGED <<store, cache, faulty>>

(* The query is embedded and Qdrant searched. *)
Vectors(c) ==
  /\ request[c].pc = "vectors"
  /\ LET found == {i \in Ids : Points(i) > 0}
     IN request' = [request EXCEPT
          ![c].pc = IF found = {} THEN "fill" ELSE "enrich",
          ![c].todo = found,
          ![c].answer.text = [i \in Ids |-> Points(i)]]
  /\ UNCHANGED <<store, cache, faulty, reply>>

(* Embedding or search fails: the exception is traced, the results stay    *)
(* empty, and the method goes on.                                          *)
VectorsFail(c) ==
  /\ faulty
  /\ request[c].pc = "vectors"
  /\ Continue(c, "fill", [request[c].answer EXCEPT !.degraded = TRUE])
  /\ UNCHANGED <<store, cache, faulty>>

(* One of the ids found is looked up in PostgreSQL; a failure leaves its   *)
(* metadata out.                                                           *)
Enriched(c, id, answer) ==
  /\ request[c].pc = "enrich"
  /\ id \in request[c].todo
  /\ request' = [request EXCEPT
       ![c].todo = @ \ {id},
       ![c].pc = IF request[c].todo = {id} THEN "fill" ELSE @,
       ![c].answer = answer]
  /\ UNCHANGED <<store, cache, faulty, reply>>

Enrich(c, id) ==
  \/ Enriched(c, id, [request[c].answer EXCEPT !.meta[id] = Row(id)])
  \/ faulty /\ Enriched(c, id, [request[c].answer EXCEPT !.degraded = TRUE])

-----------------------------------------------------------------------------
(* get_document_detail.                                                    *)

(* Metadata from PostgreSQL. *)
Meta(c) ==
  /\ request[c].pc = "meta"
  /\ Row(Q(c).id) > 0
  /\ Continue(c, "toc", [request[c].answer EXCEPT !.meta[Q(c).id] = Row(Q(c).id)])
  /\ UNCHANGED <<store, cache, faulty>>

(* No such document: NotFoundError.  The mutant caches the absence. *)
MissingCached(c) ==
  /\ request[c].pc \in {"meta", "exists"}
  /\ Row(Q(c).id) = 0
  /\ Raise(c, "not_found")
  /\ cache' = [cache EXCEPT ![Key(Q(c))] = [answer |-> Blank(Q(c)), ttl |-> DetailTtl]]
  /\ UNCHANGED <<store, faulty>>
Missing(c) ==
  /\ request[c].pc \in {"meta", "exists"}
  /\ Row(Q(c).id) = 0
  /\ Raise(c, "not_found")
  /\ UNCHANGED <<store, cache, faulty>>

(* PostgreSQL fails: its exception is passed on. *)
MetaFails(c) ==
  /\ faulty
  /\ request[c].pc \in {"meta", "exists"}
  /\ Raise(c, "error")
  /\ UNCHANGED <<store, cache, faulty>>

(* The table of contents, or an empty one when PostgreSQL fails.  Mutant:  *)
(* the repository lacks the method that is called.                         *)
GetTocMissing(c) ==
  /\ request[c].pc = "toc"
  /\ Continue(c, "citations", [request[c].answer EXCEPT !.degraded = TRUE])
  /\ UNCHANGED <<store, cache, faulty>>
GetToc(c) ==
  /\ request[c].pc = "toc"
  /\ \/ Continue(c, "citations", [request[c].answer EXCEPT !.toc = store[Q(c).id.doc].sections])
     \/ faulty /\ Continue(c, "citations", [request[c].answer EXCEPT !.degraded = TRUE])
  /\ UNCHANGED <<store, cache, faulty>>

(* Citations from the document's points, or the title when there are none  *)
(* or Qdrant fails.                                                        *)
Citations(c) ==
  /\ request[c].pc = "citations"
  /\ \/ Continue(c, "fill", [request[c].answer EXCEPT !.text[Q(c).id] = Points(Q(c).id)])
     \/ faulty /\ Continue(c, "fill", [request[c].answer EXCEPT !.degraded = TRUE])
  /\ UNCHANGED <<store, cache, faulty>>

-----------------------------------------------------------------------------
(* list_topics and get_toc.                                                *)

(* get_toc looks the document up first. *)
Exists(c) ==
  /\ request[c].pc = "exists"
  /\ Row(Q(c).id) > 0
  /\ Continue(c, "browse", request[c].answer)
  /\ UNCHANGED <<store, cache, faulty>>

(* Neither repository has the method that is called: the AttributeError is *)
(* swallowed like a failure of PostgreSQL, and the answer is an empty      *)
(* list, which is not cached.                                              *)
Browse(c) ==
  /\ request[c].pc = "browse"
  /\ Respond(c, "ok", request[c].answer)
  /\ UNCHANGED <<store, cache, faulty>>

-----------------------------------------------------------------------------
(* The tail of a search and of a detail: the cache is filled, or that      *)
(* fails, and the answer is returned.                                      *)
Fill(c) ==
  /\ request[c].pc = "fill"
  /\ \/ cache' = [cache EXCEPT ![Key(Q(c))] =
                    [answer |-> request[c].answer, ttl |-> Ttl(Q(c))]]
     \/ faulty /\ UNCHANGED cache
  /\ Respond(c, "ok", request[c].answer)
  /\ UNCHANGED <<store, faulty>>

-----------------------------------------------------------------------------
(* The environment: the ingest, time, repair.                              *)

(* The ingest persists a document, then its sections, then its points; any *)
(* of them may be late or missing.                                         *)
Ingest(d) ==
  /\ \/ /\ store[d].document < MaxVersion
        /\ store' = [store EXCEPT ![d].document = @ + 1]
     \/ /\ store[d].sections < store[d].document
        /\ store' = [store EXCEPT ![d].sections = store[d].document]
     \/ \E by \in IndexedAs :
        /\ store[d].points[by] < store[d].document
        /\ store' = [store EXCEPT ![d].points[by] = store[d].document]
  /\ UNCHANGED <<cache, faulty, request, reply>>

Tick ==
  /\ \E k \in Keys : cache[k].ttl > 0
  /\ cache' = [k \in Keys |-> IF cache[k].ttl <= 1 THEN NoEntry
                              ELSE [cache[k] EXCEPT !.ttl = @ - 1]]
  /\ UNCHANGED <<store, faulty, request, reply>>

Heal ==
  /\ faulty
  /\ faulty' = FALSE
  /\ UNCHANGED <<store, cache, request, reply>>

Serve(c) ==
  \/ Hit(c)
  \/ Miss(c)
  \/ Resolve(c)
  \/ ResolveFails(c)
  \/ Vectors(c)
  \/ VectorsFail(c)
  \/ \E i \in Ids : Enrich(c, i)
  \/ Meta(c)
  \/ Missing(c)
  \/ MetaFails(c)
  \/ GetToc(c)
  \/ Citations(c)
  \/ Exists(c)
  \/ Browse(c)
  \/ Fill(c)

Next ==
  \/ \E c \in Clients, q \in Questions : Ask(c, q)
  \/ \E c \in Clients : Serve(c)
  \/ \E d \in Docs : Ingest(d)
  \/ Tick
  \/ Heal

Spec == Init /\ [][Next]_vars

(* Clients keep asking, the event loop runs every request, time passes,    *)
(* failures end.  The ingest promises nothing.                             *)
Fairness ==
  /\ \A c \in Clients : WF_vars(Serve(c)) /\ WF_vars(\E q \in Questions : Ask(c, q))
  /\ WF_vars(Tick)
  /\ WF_vars(Heal)
FairSpec == Spec /\ Fairness

-----------------------------------------------------------------------------
(* Safety.                                                                 *)

Answered(c, kind) == reply[c].outcome = "ok" /\ reply[c].question.kind = kind

(* The answer to a search, cached or not, was built for that search. *)
SearchAnswersQuestion ==
  \A c \in Clients : Answered(c, "search") => reply[c].answer.to = reply[c].question

(* A document that was in PostgreSQL when its detail or its contents were  *)
(* asked for, by its publication number, is found: an earlier "not found"  *)
(* leaves no trace, whoever got it.                                        *)
KnownDocumentIsFound ==
  \A c \in Clients :
    reply[c].known /\ reply[c].question.id.by = "eo" =>
      /\ reply[c].outcome # "not_found"
      /\ Answered(c, "detail") => reply[c].answer.meta[reply[c].question.id] > 0

(* odl_service.py:232: with Redis unavailable a request goes straight to   *)
(* Qdrant.  Neither Redis nor Qdrant nor the lookup of metadata makes a    *)
(* search without a region fail.                                           *)
SearchSurvives ==
  \A c \in Clients :
    reply[c].outcome = "error" =>
      reply[c].question.kind # "search" \/ reply[c].question.region

-----------------------------------------------------------------------------
(* Liveness.                                                               *)

(* The answer to a search, or to a detail, shows the stores as they are    *)
(* now, each part of it; a document that was found under its GUID is shown *)
(* without metadata.                                                       *)
Fresh(a) ==
  LET id == a.to.id
  IN /\ ~a.degraded
     /\ a.to.kind = "search" => \A i \in Ids :
          /\ a.text[i] = Points(i)
          /\ i.by = "eo" /\ Points(i) > 0 => a.meta[i] = store[i.doc].document
     /\ a.to.kind = "detail" =>
          /\ a.text[id] = Points(id)
          /\ a.meta[id] = store[id.doc].document
          /\ a.toc = store[id.doc].sections

(* The ingest invalidates nothing; still, once it is done and failures     *)
(* have ended, stale and degraded answers leave the cache and every        *)
(* request is answered from the stores as they are.                        *)
EventuallyFresh ==
  <>[](\A c \in Clients : reply[c].outcome = "ok" => Fresh(reply[c].answer))

-----------------------------------------------------------------------------
(* odl_service.py:437 says that get_document_detail() takes an id in the   *)
(* same format that search returns.  What a search has shown to a client   *)
(* can be opened by any other that asks when it is in PostgreSQL.          *)
ShownCanBeOpened ==
  \A b, c \in Clients :
    /\ Answered(b, "search")
    /\ reply[c].question.kind = "detail"
    /\ reply[c].known /\ reply[b].answer.text[reply[c].question.id] > 0
    => reply[c].outcome # "not_found"

(* odl_service.py:767 says of get_toc: the contents of the document from    *)
(* PostgreSQL.  Once the ingest is done and failures have ended, that is    *)
(* what a table of contents is.                                             *)
TocFromPostgres ==
  <>[](\A c \in Clients :
         Answered(c, "toc") => reply[c].answer.toc = store[reply[c].question.id.doc].sections)

=============================================================================
