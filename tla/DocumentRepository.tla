------------------------- MODULE DocumentRepository -------------------------
(* ReferenceRepository and DocumentRepository on one PostgreSQL database:   *)
(* several coroutines upsert documents, another fills the topic table, and  *)
(* documents are read while that goes on.  Every statement is a transaction *)
(* of its own (the pool commits each), and every statement is awaited, so   *)
(* a get-or-create is a SELECT and, some time later, an INSERT .. ON        *)
(* CONFLICT DO UPDATE .. RETURNING id.  Any statement may fail, or the      *)
(* process die, and what was written before stays.                          *)
EXTENDS Naturals, Sequences

CONSTANTS
    Writers,        \* coroutines in _persist_document() / upsert_document()
    Seeders,        \* coroutines in get_or_create_topic() with a vector store
    Readers,        \* calls of get_document_by_publish_id()
    Keys,           \* natural keys of reference rows: table and external id
    Topics,         \* ... those of the topic table
    None,           \* SQL NULL
    Publications,   \* publish_ids
    Contents,       \* what the source may say of a document
    MaxFailures,    \* bound: statements that fail
    MaxEdits        \* bound: times the source edits a document

(* The references of a document in the order they are resolved: data        *)
(* source, jurisdiction, document type, organization.                       *)
Columns == 1..4

Content == [reference : [Columns -> Keys \cup {None}], topic : Seq(Topics)]

ASSUME ContentsAssumption ==
    /\ Topics \subseteq Keys /\ None \notin Keys
    /\ Contents \subseteq {c \in Content : c.reference[1] # None}
    /\ Contents # {} /\ Topics # {} /\ Publications # {}
    /\ MaxFailures \in Nat /\ MaxEdits \in Nat

VARIABLES
    uuid,           \* the UUIDs handed out so far are 1..uuid
    row,            \* [Keys -> Nat]: id of the reference row, 0 if there is none
    document,       \* [Publications -> [Columns -> Nat]]: ids of its references
    document_topic, \* pairs of a publication and the id of a topic row
    vectors,        \* points of the topics collection: [key, topic_id]
    source,         \* [Publications -> Contents]: what the source says now
    writer, seeder, reader,
    finished,       \* [Publications -> contents whose upsert has returned]
    failures, edits

tables == <<uuid, row, document, document_topic, vectors>>
vars == <<tables, source, writer, seeder, reader, finished, failures, edits>>

NoRow == [c \in Columns |-> 0]
Exists(p) == document[p] # NoRow

-----------------------------------------------------------------------------
Idle == [at |-> "idle", pub |-> CHOOSE p \in Publications : TRUE,
         content |-> CHOOSE c \in Contents : TRUE, column |-> 1, topic |-> 1,
         id |-> NoRow, topic_id |-> 0]
NotReading == [at |-> "idle", pub |-> CHOOSE p \in Publications : TRUE, due |-> {},
               columns |-> {}, topics |-> {}]

Writer == [at : {"idle", "select", "insert", "row", "select topic", "insert topic", "link"},
           pub : Publications, content : Contents, column : 1..5, topic : Nat \ {0},
           id : [Columns -> Nat], topic_id : Nat]
Seeder == [at : {"idle", "select", "insert", "sync"}, key : Topics, topic_id : Nat]
Reader == [at : {"idle", "topics", "done"}, pub : Publications, due : SUBSET Contents,
           columns : SUBSET Columns, topics : SUBSET Topics]

Init ==
    /\ uuid = 0
    /\ row = [k \in Keys |-> 0]
    /\ document = [p \in Publications |-> NoRow]
    /\ document_topic = {}
    /\ vectors = {}
    /\ source \in [Publications -> Contents]
    /\ writer = [w \in Writers |-> Idle]
    /\ seeder = [s \in Seeders |->
                   [at |-> "idle", key |-> CHOOSE k \in Topics : TRUE, topic_id |-> 0]]
    /\ reader = [r \in Readers |-> NotReading]
    /\ finished = [p \in Publications |-> {}]
    /\ failures = 0
    /\ edits = 0

-----------------------------------------------------------------------------
(* Mutant: ON CONFLICT DO UPDATE also replaces the id. *)
InsertedAnew(k) == uuid + 1

(* INSERT .. ON CONFLICT DO UPDATE .. RETURNING id: the row of the key, old *)
(* or new.                                                                  *)
Inserted(k) == IF row[k] = 0 THEN uuid + 1 ELSE row[k]

InsertRow(k) ==
    /\ row' = [row EXCEPT ![k] = Inserted(k)]
    /\ uuid' = IF row[k] = 0 THEN uuid + 1 ELSE uuid
    /\ UNCHANGED <<document, document_topic, vectors>>

(* The next reference the document has, from column c on; 5 when none.      *)
NextColumn(content, c) ==
    CHOOSE d \in c..5 :
        /\ d = 5 \/ content.reference[d] # None
        /\ \A e \in c..4 : e < d => content.reference[e] = None

(* A writer whose column c is resolved to id goes on to the next.           *)
Resolved(me, id) ==
    LET next == NextColumn(me.content, me.column + 1)
    IN  [me EXCEPT !.id[me.column] = id, !.column = next,
                   !.at = IF next = 5 THEN "row" ELSE "select"]

Referenced(me) == me.content.reference[me.column]
TopicOf(me) == me.content.topic[me.topic]
(* Mutant: the document counts as done before its last topic is linked. *)
LastTopicEarly(me) == me.topic >= Len(me.content.topic)

LastTopic(me) == me.topic > Len(me.content.topic)

Begin(w, p) ==
    /\ writer[w].at = "idle"
    /\ writer' = [writer EXCEPT ![w] =
         [Idle EXCEPT !.at = "select", !.pub = p, !.content = source[p],
                      !.column = NextColumn(source[p], 1)]]
    /\ UNCHANGED <<tables, source, seeder, reader, finished, failures, edits>>

Select(w) ==
    /\ writer[w].at = "select"
    /\ LET id == row[Referenced(writer[w])] IN
       writer' = [writer EXCEPT ![w] =
                    IF id # 0 THEN Resolved(@, id) ELSE [@ EXCEPT !.at = "insert"]]
    /\ UNCHANGED <<tables, source, seeder, reader, finished, failures, edits>>

Insert(w) ==
    /\ writer[w].at = "insert"
    /\ InsertRow(Referenced(writer[w]))
    /\ writer' = [writer EXCEPT ![w] = Resolved(@, Inserted(Referenced(@)))]
    /\ UNCHANGED <<source, seeder, reader, finished, failures, edits>>

(* The next topic, or the end of upsert_document().                         *)
ToTopic(me) == IF LastTopic(me) THEN Idle
               ELSE [me EXCEPT !.at = "select topic", !.topic_id = 0]
Ends(w, me) ==
    finished' = IF LastTopic(me) THEN [finished EXCEPT ![me.pub] = @ \cup {me.content}]
                ELSE finished

(* Mutant: the upsert overwrites what it does not know with NULL. *)
NotCoalesced(new, old) == new

(* INSERT INTO document .. ON CONFLICT DO UPDATE with a COALESCE for every  *)
(* reference.                                                               *)
Coalesced(new, old) == [c \in Columns |-> IF new[c] # 0 THEN new[c] ELSE old[c]]

WriteRow(w) ==
    LET me == writer[w] IN
    /\ me.at = "row"
    /\ document' = [document EXCEPT ![me.pub] = Coalesced(me.id, @)]
    /\ writer' = [writer EXCEPT ![w] = ToTopic(@)]
    /\ Ends(w, me)
    /\ UNCHANGED <<uuid, row, document_topic, vectors, source, seeder, reader, failures, edits>>

(* Mutant: a topic that is already there is taken for linked. *)
SelectTopicSkips(w) ==
    LET me == [writer[w] EXCEPT !.topic = @ + 1] IN
    /\ writer[w].at = "select topic"
    /\ IF row[TopicOf(writer[w])] # 0
       THEN writer' = [writer EXCEPT ![w] = ToTopic(me)] /\ Ends(w, me)
       ELSE writer' = [writer EXCEPT ![w].at = "insert topic"] /\ UNCHANGED finished
    /\ UNCHANGED <<tables, source, seeder, reader, failures, edits>>

SelectTopic(w) ==
    /\ writer[w].at = "select topic"
    /\ LET id == row[TopicOf(writer[w])] IN
       writer' = [writer EXCEPT ![w].topic_id = id,
                                ![w].at = IF id # 0 THEN "link" ELSE "insert topic"]
    /\ UNCHANGED <<tables, source, seeder, reader, finished, failures, edits>>

InsertTopic(w) ==
    /\ writer[w].at = "insert topic"
    /\ InsertRow(TopicOf(writer[w]))
    /\ writer' = [writer EXCEPT ![w].topic_id = Inserted(TopicOf(writer[w])), ![w].at = "link"]
    /\ UNCHANGED <<source, seeder, reader, finished, failures, edits>>

LinkTopic(w) ==
    LET me == [writer[w] EXCEPT !.topic = @ + 1] IN
    /\ writer[w].at = "link"
    /\ document_topic' = document_topic \cup {<<me.pub, me.topic_id>>}
    /\ writer' = [writer EXCEPT ![w] = ToTopic(me)]
    /\ Ends(w, me)
    /\ UNCHANGED <<uuid, row, document, vectors, source, seeder, reader, failures, edits>>

(* A statement fails: the exception leaves upsert_document().               *)
WriterFails(w) ==
    /\ writer[w].at # "idle"
    /\ failures < MaxFailures
    /\ failures' = failures + 1
    /\ writer' = [writer EXCEPT ![w] = Idle]
    /\ UNCHANGED <<tables, source, seeder, reader, finished, edits>>

-----------------------------------------------------------------------------
(* get_or_create_topic() with a vector store: a topic found is returned as  *)
(* it is, a topic inserted is embedded and stored, and a failure to do so   *)
(* is logged and forgotten.                                                 *)
SeedTopic(s, k) ==
    /\ seeder[s].at = "idle"
    /\ seeder' = [seeder EXCEPT ![s].at = "select", ![s].key = k]
    /\ UNCHANGED <<tables, source, writer, reader, finished, failures, edits>>

SeedSelect(s) ==
    /\ seeder[s].at = "select"
    /\ seeder' = [seeder EXCEPT ![s].at = IF row[seeder[s].key] # 0 THEN "idle" ELSE "insert"]
    /\ UNCHANGED <<tables, source, writer, reader, finished, failures, edits>>

SeedInsert(s) ==
    /\ seeder[s].at = "insert"
    /\ InsertRow(seeder[s].key)
    /\ seeder' = [seeder EXCEPT ![s].at = "sync", ![s].topic_id = Inserted(seeder[s].key)]
    /\ UNCHANGED <<source, writer, reader, finished, failures, edits>>

(* The point's id is derived from the external id: a second upsert replaces *)
(* the first.                                                               *)
SeedSync(s) ==
    /\ seeder[s].at = "sync"
    /\ vectors' = {v \in vectors : v.key # seeder[s].key}
                    \cup {[key |-> seeder[s].key, topic_id |-> seeder[s].topic_id]}
    /\ seeder' = [seeder EXCEPT ![s].at = "idle", ![s].topic_id = 0]
    /\ UNCHANGED <<uuid, row, document, document_topic, source, writer, reader, finished,
                   failures, edits>>

SeedFails(s) ==
    /\ seeder[s].at # "idle"
    /\ failures < MaxFailures
    /\ failures' = failures + 1
    /\ seeder' = [seeder EXCEPT ![s].at = "idle", ![s].topic_id = 0]
    /\ UNCHANGED <<tables, source, writer, reader, finished, edits>>

-----------------------------------------------------------------------------
(* get_document_by_publish_id(): the row with its joins, then its topics.   *)
Joined(p) == {c \in Columns : document[p][c] # 0}

Linked(p) == {k \in Topics : row[k] # 0 /\ <<p, row[k]>> \in document_topic}

ReadRow(r, p) ==
    /\ reader[r].at = "idle"
    /\ reader' = [reader EXCEPT ![r] =
         [at |-> IF Exists(p) THEN "topics" ELSE "done", pub |-> p, due |-> finished[p],
          columns |-> Joined(p), topics |-> {}]]
    /\ UNCHANGED <<tables, source, writer, seeder, finished, failures, edits>>

ReadTopics(r) ==
    /\ reader[r].at = "topics"
    /\ reader' = [reader EXCEPT ![r].at = "done", ![r].topics = Linked(reader[r].pub)]
    /\ UNCHANGED <<tables, source, writer, seeder, finished, failures, edits>>

ReadFails(r) ==
    /\ reader[r].at = "topics"
    /\ failures < MaxFailures
    /\ failures' = failures + 1
    /\ reader' = [reader EXCEPT ![r] = NotReading]
    /\ UNCHANGED <<tables, source, writer, seeder, finished, edits>>

(* The source says something else of a document.                            *)
Edit(p) ==
    /\ edits < MaxEdits
    /\ edits' = edits + 1
    /\ \E c \in Contents : source' = [source EXCEPT ![p] = c]
    /\ UNCHANGED <<tables, writer, seeder, reader, finished, failures>>

WriterStep(w) ==
    \/ Select(w) \/ Insert(w) \/ WriteRow(w)
    \/ SelectTopic(w) \/ InsertTopic(w) \/ LinkTopic(w)

Next ==
    \/ \E w \in Writers : WriterStep(w) \/ WriterFails(w) \/ \E p \in Publications : Begin(w, p)
    \/ \E s \in Seeders : \/ SeedSelect(s) \/ SeedInsert(s) \/ SeedSync(s) \/ SeedFails(s)
                          \/ \E k \in Topics : SeedTopic(s, k)
    \/ \E r \in Readers : \/ ReadTopics(r) \/ ReadFails(r)
                          \/ \E p \in Publications : ReadRow(r, p)
    \/ \E p \in Publications : Edit(p)

(* A statement ends, and an ingest goes through every listed document again *)
(* and again.                                                               *)
Fairness ==
    \A w \in Writers : WF_vars(WriterStep(w)) /\ \A p \in Publications : SF_vars(Begin(w, p))

Spec == Init /\ [][Next]_vars /\ Fairness

-----------------------------------------------------------------------------
(* Type invariant. *)
TypeOK ==
    /\ uuid \in Nat
    /\ row \in [Keys -> Nat]
    /\ document \in [Publications -> [Columns -> Nat]]
    /\ document_topic \subseteq Publications \X Nat
    /\ vectors \subseteq [key : Topics, topic_id : Nat]
    /\ source \in [Publications -> Contents]
    /\ writer \in [Writers -> Writer]
    /\ seeder \in [Seeders -> Seeder]
    /\ reader \in [Readers -> Reader]
    /\ finished \in [Publications -> SUBSET Contents]
    /\ failures \in 0..MaxFailures
    /\ edits \in 0..MaxEdits

(* An id, wherever it is kept -- in a coroutine between two statements, in  *)
(* a document, in a link, in the vector store -- is the id of the one row   *)
(* of the reference it was asked for, however the get-or-creates of several *)
(* coroutines interleave.                                                   *)
OneRowPerId == \A k, l \in Keys : row[k] = row[l] /\ row[k] # 0 => k = l
HeldIds ==
    \A w \in Writers : LET me == writer[w] IN
        /\ \A c \in Columns : me.id[c] # 0 => me.id[c] = row[me.content.reference[c]]
        /\ me.at = "link" => me.topic_id = row[TopicOf(me)]
StoredIds ==
    /\ \A p \in Publications, c \in Columns :
          document[p][c] # 0 => \E k \in Keys : row[k] = document[p][c]
    /\ \A link \in document_topic : \E k \in Keys : row[k] = link[2]
    /\ \A v \in vectors : v.topic_id = row[v.key]
IdsResolve == OneRowPerId /\ HeldIds /\ StoredIds

(* A read begun after an upsert had returned finds the document, a value in *)
(* every column that upsert gave one, and all its topics -- although row    *)
(* and topics are read by two statements while others write.                *)
ReadSeesFinished ==
    \A r \in Readers : reader[r].at = "done" =>
        \A c \in reader[r].due :
            /\ {d \in Columns : c.reference[d] # None} \subseteq reader[r].columns
            /\ {c.topic[i] : i \in DOMAIN c.topic} \subseteq reader[r].topics

(* The tables implement the store of DocumentStore: surrogate ids stand for *)
(* the references whose rows they name.                                     *)
KeyOf(id) == IF id = 0 THEN None ELSE CHOOSE k \in Keys : row[k] = id

Store == INSTANCE DocumentStore WITH
    entered <- {k \in Keys : row[k] # 0},
    document <- [p \in Publications |-> [c \in Columns |-> KeyOf(document[p][c])]],
    topics <- [p \in Publications |-> {k \in Keys : <<p, row[k]>> \in document_topic}]

ImplementsStore == Store!Spec

(* Once statements stop failing and the source stops editing, every         *)
(* document comes to be stored with the references and topics the source    *)
(* gives it, whatever half-done upserts were left behind.                   *)
CaughtUp(p) ==
    /\ \A c \in Columns : source[p].reference[c] # None =>
          document[p][c] = row[source[p].reference[c]] /\ document[p][c] # 0
    /\ \A i \in DOMAIN source[p].topic :
          row[source[p].topic[i]] # 0 /\ <<p, row[source[p].topic[i]]>> \in document_topic
CatchesUp == <>[](\A p \in Publications : CaughtUp(p))
=============================================================================
