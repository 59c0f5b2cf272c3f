---------------------------- MODULE VectorStore ----------------------------
(* QdrantStore as several processes use it: the ingests, which make sure of *)
(* the collection and store chunks, and the server, which searches and      *)
(* lists.  The Qdrant client is synchronous, so a process does one          *)
(* operation at a time; but every call of the client is a request of its    *)
(* own, and requests of other processes come between.  A request fails when *)
(* it finds the collection missing, present or of another vector size when  *)
(* it should not be, and any request may fail for want of Qdrant.           *)
EXTENDS Integers, Sequences, FiniteSets, SequencesExt

CONSTANTS
    Ingests,        \* processes that store, deactivate and delete
    Servers,        \* processes that list the chunks of a document
    Points,         \* point ids, numbers: Qdrant scrolls in their order
    Documents,
    DocumentOf,     \* [Points -> Documents]
    Original,       \* the points of the documents as first published
    Size,           \* the vector size all processes are configured with
    OldSize,        \* the vector size of an earlier embedding model
    PageSize,       \* limit of a scroll request (100 in the code)
    IndexFields,    \* how many payload indexes a collection gets (3 in the code)
    MaxFailures     \* bound: requests that fail, and deletions

ASSUME StoreAssumption ==
    /\ Points \subseteq Nat \ {0} /\ IsFiniteSet(Points)
    /\ Documents # {}
    /\ DocumentOf \in [Points -> Documents]
    /\ Original \subseteq Points
    /\ PageSize \in Nat \ {0} /\ IndexFields \in Nat \ {0} /\ MaxFailures \in Nat
    /\ Size \in Nat \ {0} /\ OldSize \in Nat \ {0, Size}

VARIABLES
    collection,     \* vector size of the collection, 0 when there is none
    indexes,        \* how many of its payload indexes it has
    points,         \* the points in it
    inactive,       \* those of them with not_actual_since set
    text,           \* the points of the documents as they are published now
    process,
    switching,      \* history: the collection was of another size once
    failures, deletes

vars == <<collection, indexes, points, inactive, text, process, switching, failures, deletes>>

Processes == Ingests \cup Servers
Of(d) == {i \in Points : DocumentOf[i] = d}

Idle == [at |-> "idle", doc |-> CHOOSE d \in Documents : TRUE, offset |-> 0,
         chunks |-> {}, read |-> <<>>, stable |-> {}]

Init ==
    /\ collection \in {0, Size, OldSize}
    /\ switching = (collection = OldSize)
    /\ points = IF collection = 0 THEN {} ELSE Original
    /\ indexes = IF collection = 0 THEN 0 ELSE IndexFields
    /\ inactive = {}
    /\ text = Original
    /\ process = [p \in Processes |-> Idle]
    /\ failures = 0
    /\ deletes = 0

(* What is in the collection from now on; a scroll under way keeps only     *)
(* what has been there all along (history variable stable).                 *)
Holds(content, hidden) ==
    /\ points' = content
    /\ inactive' = hidden \cap content

Keeps(after, p, me) ==
    process' = [q \in Processes |-> IF q = p THEN me
                                    ELSE [process[q] EXCEPT !.stable = @ \cap after]]

Goes(p, me) == Keeps(points, p, me)
Stays == UNCHANGED <<collection, indexes, points, inactive, switching>>

(* The exception ends the operation.                                        *)
Raises(p) == Goes(p, Idle) /\ Stays

-----------------------------------------------------------------------------
(* upsert_chunks() of a document, ensure_collection() first.                *)
Upsert(p, d) ==
    /\ process[p].at = "idle"
    /\ Goes(p, [Idle EXCEPT !.at = "list", !.doc = d, !.chunks = text \cap Of(d)])
    /\ Stays
    /\ UNCHANGED <<text, failures, deletes>>

GetCollections(p) ==
    /\ process[p].at = "list"
    /\ Goes(p, [process[p] EXCEPT !.at = IF collection = 0 THEN "create" ELSE "info"])
    /\ Stays
    /\ UNCHANGED <<text, failures, deletes>>

(* Mutant: an existing collection is always replaced. *)
AlwaysRecreates(p) ==
    /\ process[p].at = "info"
    /\ Goes(p, [process[p] EXCEPT !.at = "drop"])
    /\ Stays
    /\ UNCHANGED <<text, failures, deletes>>

(* Mutant: the size of an existing collection is not looked at. *)
NeverRecreates(p) ==
    /\ process[p].at = "info"
    /\ Goes(p, [process[p] EXCEPT !.at = "upsert"])
    /\ Stays
    /\ UNCHANGED <<text, failures, deletes>>

GetCollection(p) ==
    /\ process[p].at = "info"
    /\ IF collection = 0 THEN Raises(p)
       ELSE /\ Goes(p, [process[p] EXCEPT !.at = IF collection = Size THEN "upsert" ELSE "drop"])
            /\ Stays
    /\ UNCHANGED <<text, failures, deletes>>

DeleteCollection(p) ==
    /\ process[p].at = "drop"
    /\ collection' = 0
    /\ indexes' = 0
    /\ Holds({}, {})
    /\ Keeps({}, p, [process[p] EXCEPT !.at = "create"])
    /\ UNCHANGED <<text, switching, failures, deletes>>

CreateCollection(p) ==
    /\ process[p].at = "create"
    /\ IF collection # 0 THEN Raises(p)
       ELSE /\ collection' = Size
            /\ indexes' = 0
            /\ Goes(p, [process[p] EXCEPT !.at = "index", !.offset = 1])
            /\ UNCHANGED <<points, inactive, switching>>
    /\ UNCHANGED <<text, failures, deletes>>

(* document_id, doc_uuid, not_actual_since.                                 *)
CreatePayloadIndex(p) ==
    LET me == process[p] IN
    /\ me.at = "index"
    /\ IF collection = 0 THEN Raises(p)
       ELSE /\ indexes' = IF indexes < me.offset THEN me.offset ELSE indexes
            /\ Goes(p, IF me.offset = IndexFields THEN [me EXCEPT !.at = "upsert", !.offset = 0]
                       ELSE [me EXCEPT !.offset = @ + 1])
            /\ UNCHANGED <<collection, points, inactive, switching>>
    /\ UNCHANGED <<text, failures, deletes>>

(* The payload of a chunk is replaced as a whole: what was inactive is      *)
(* actual again.                                                            *)
StoreChunks(p) ==
    LET chunks == process[p].chunks IN
    /\ process[p].at = "upsert"
    /\ IF collection # Size THEN Raises(p)
       ELSE /\ Holds(points \cup chunks, inactive \ chunks)
            /\ Goes(p, Idle)
            /\ UNCHANGED <<collection, indexes, switching>>
    /\ UNCHANGED <<text, failures, deletes>>

-----------------------------------------------------------------------------
(* The loop of deactivate_sections() and get_chunks_by_document_id(): pages *)
(* of points that match, each from the offset the one before gave.          *)
Scroll(p, d, purpose) ==
    /\ process[p].at = "idle"
    /\ Goes(p, [Idle EXCEPT !.at = purpose, !.doc = d, !.stable = points \cap Of(d)])
    /\ Stays
    /\ UNCHANGED <<text, failures, deletes>>

(* Matching points from an offset on, in the order of their ids.            *)
Ascending(s) == \A i, j \in DOMAIN s : i < j => s[i] < s[j]
Sorted(S) == CHOOSE s \in [1..Cardinality(S) -> S] : Ascending(s)
Matching(d, offset) == Sorted({i \in points \cap Of(d) : i >= offset})

(* Mutant: the offset counts the points already read. *)
PageByCount(p) ==
    LET me == process[p]
        all == Matching(me.doc, 0)
        last == Len(all) <= me.offset + PageSize
        read == me.read \o SubSeq(all, me.offset + 1,
                                  IF last THEN Len(all) ELSE me.offset + PageSize)
    IN
    /\ me.at \in {"deactivate", "get chunks"}
    /\ IF collection = 0 THEN Raises(p)
       ELSE /\ Goes(p, IF ~last THEN [me EXCEPT !.read = read, !.offset = @ + PageSize]
                       ELSE [me EXCEPT !.read = read, !.offset = 0,
                               !.at = IF me.at = "deactivate" THEN "set payload" ELSE "done"])
            /\ Stays
    /\ UNCHANGED <<text, failures, deletes>>

Page(p) ==
    LET me == process[p]
        rest == Matching(me.doc, me.offset)
        last == Len(rest) <= PageSize
        page == SubSeq(rest, 1, IF last THEN Len(rest) ELSE PageSize)
        read == me.read \o page
    IN
    /\ me.at \in {"deactivate", "get chunks"}
    /\ IF collection = 0 THEN Raises(p)
       ELSE /\ Goes(p, IF ~last THEN [me EXCEPT !.read = read, !.offset = rest[PageSize + 1]]
                       ELSE [me EXCEPT !.read = read, !.offset = 0,
                               !.at = IF me.at = "deactivate" THEN "set payload" ELSE "done"])
            /\ Stays
    /\ UNCHANGED <<text, failures, deletes>>

(* not_actual_since is set on what was read; nothing read, nothing to do.   *)
SetPayload(p) ==
    LET me == process[p] IN
    /\ me.at = "set payload"
    /\ IF collection = 0 THEN Raises(p)
       ELSE /\ inactive' = inactive \cup (points \cap ToSet(me.read))
            /\ Goes(p, Idle)
            /\ UNCHANGED <<collection, indexes, points, switching>>
    /\ UNCHANGED <<text, failures, deletes>>

Returns(p) ==
    /\ process[p].at = "done"
    /\ Goes(p, Idle)
    /\ Stays
    /\ UNCHANGED <<text, failures, deletes>>

DeleteDocumentChunks(p, d) ==
    /\ process[p].at = "idle"
    /\ collection # 0
    /\ failures + deletes < MaxFailures
    /\ deletes' = deletes + 1
    /\ Holds(points \ Of(d), inactive)
    /\ Keeps(points \ Of(d), p, process[p])
    /\ UNCHANGED <<collection, indexes, text, switching, failures>>

(* The documents are amended: they have other chunks besides.               *)
Amend ==
    /\ text' = Points
    /\ UNCHANGED <<collection, indexes, points, inactive, process, switching, failures, deletes>>

(* A request fails, or the process ends in the middle of the operation.     *)
Fails(p) ==
    /\ process[p].at # "idle"
    /\ failures + deletes < MaxFailures
    /\ failures' = failures + 1
    /\ Raises(p)
    /\ UNCHANGED <<text, deletes>>

Step(p) ==
    \/ GetCollections(p) \/ GetCollection(p) \/ DeleteCollection(p) \/ CreateCollection(p)
    \/ CreatePayloadIndex(p) \/ StoreChunks(p)
    \/ Page(p) \/ SetPayload(p) \/ Returns(p)

Next ==
    \/ \E p \in Processes : Step(p) \/ Fails(p)
    \/ \E p \in Ingests, d \in Documents :
          Upsert(p, d) \/ Scroll(p, d, "deactivate") \/ DeleteDocumentChunks(p, d)
    \/ \E p \in Servers, d \in Documents : Scroll(p, d, "get chunks")
    \/ Amend

(* Requests are answered, and every document is ingested again and again.   *)
Fairness ==
    /\ \A p \in Processes : WF_vars(Step(p))
    /\ \A p \in Ingests, d \in Documents : SF_vars(Upsert(p, d))

Spec == Init /\ [][Next]_vars /\ Fairness

-----------------------------------------------------------------------------
(* Type invariant. *)
TypeOK ==
    /\ collection \in {0, Size, OldSize}
    /\ indexes \in 0..IndexFields
    /\ points \subseteq Points
    /\ inactive \subseteq points
    /\ text \subseteq Points
    /\ collection = 0 => points = {} /\ indexes = 0
    /\ process \in [Processes ->
         [at : {"idle", "list", "info", "drop", "create", "index", "upsert", "deactivate",
                "get chunks", "set payload", "done"},
          doc : Documents, offset : Nat, chunks : SUBSET Points, read : Seq(Points), stable : SUBSET Points]]
    /\ switching \in BOOLEAN
    /\ failures \in Nat /\ deletes \in Nat
    /\ failures + deletes <= MaxFailures

(* A scroll, however many pages it takes and whatever other processes store *)
(* or delete between them, reads every chunk that is there all along, and   *)
(* none twice: get_chunks_by_document_id() returns it, deactivate_sections()*)
(* hides it.                                                                *)
ScrollComplete ==
    \A p \in Processes :
        /\ process[p].at \in {"set payload", "done"} =>
              process[p].stable \subseteq ToSet(process[p].read)
        /\ IsInjective(process[p].read)

(* With one embedding model in use, and the collection never of another's   *)
(* size, chunks leave the store by delete_document_chunks() only, whatever  *)
(* processes create the collection at the same time.                        *)
OnlyDeletesRemove ==
    [][~switching /\ ~(points \subseteq points') => deletes' > deletes]_vars

(* A document that is ingested again and again comes to be in the store, as *)
(* it is published, for good, also when the collection has first to be      *)
(* replaced because the model changed, and although creations collide and   *)
(* requests fail.                                                           *)
EventuallyStored == <>[](text \subseteq points /\ collection = Size)
=============================================================================
