----------------------- MODULE DocumentRepositoryProofs -----------------------
(* Proofs about DocumentRepository, for every number of writers, seeders,   *)
(* readers, references, topics and publications: an id is true wherever it  *)
(* is kept, a read sees what was finished, and the tables implement the     *)
(* store of DocumentStore.                                                  *)
EXTENDS DocumentRepository, TLAPS

LEMMA SeqElement ==
  ASSUME NEW S, NEW s \in Seq(S), NEW n \in Nat \ {0}, n <= Len(s)
  PROVE  s[n] \in S
<1>1. Len(s) \in Nat /\ n \in 1..Len(s)
  OBVIOUS
<1>. QED
  BY <1>1

LEMMA OneToFive ==
  ASSUME NEW n \in 1..5
  PROVE  n = 1 \/ n = 2 \/ n = 3 \/ n = 4 \/ n = 5
  OBVIOUS

LEMMA Predecessor ==
  ASSUME NEW n \in Nat \ {0}, NEW m \in Nat, n <= m
  PROVE  n - 1 \in 0..m
  OBVIOUS

LEMMA Ordered ==
  ASSUME NEW m \in Nat, NEW n \in Nat
  PROVE  m < n \/ m = n \/ n < m
  OBVIOUS

LEMMA CountedOn ==
  ASSUME NEW m \in Nat, NEW n \in 0..m, n < m
  PROVE  n + 1 \in 0..m
  OBVIOUS

LEMMA SeederFailures ==
  ASSUME NEW s \in Seeders,
         SeedSelect(s) \/ SeedSync(s) \/ SeedFails(s) \/ \E k \in Topics : SeedTopic(s, k)
  PROVE  failures' = failures \/ (failures < MaxFailures /\ failures' = failures + 1)
  BY DEF SeedSelect, SeedSync, SeedFails, SeedTopic

USE ContentsAssumption DEF ContentsAssumption, Content, Columns

-----------------------------------------------------------------------------
(* The inductive invariant.  R, D and L stand for the tables row, document  *)
(* and document_topic.                                                      *)

(* What a content asks for is in the tables: a value in every column, and   *)
(* the links to its first n topics.                                         *)
Covers(content, columns) ==
    \A c \in Columns : content.reference[c] # None => columns[c] # 0
Links(p, content, n, R, L) ==
    \A i \in 1..n : R[content.topic[i]] # 0 /\ <<p, R[content.topic[i]]>> \in L

(* A writer holds true ids, and has done what comes before the statement it *)
(* is at.                                                                   *)
Truthful(me, R) ==
    \A c \in Columns : me.id[c] # 0 =>
        me.content.reference[c] \in Keys /\ me.id[c] = R[me.content.reference[c]]

OnTrack(me, R, D, L) ==
    /\ me.at \in {"select", "insert"} => me.column \in Columns /\ Referenced(me) # None
    /\ me.at \in {"select", "insert", "row"} =>
         /\ me.topic = 1
         /\ \A c \in Columns : c < me.column /\ me.content.reference[c] # None => me.id[c] # 0
    /\ me.at = "row" => me.column = 5
    /\ me.at \in {"select topic", "insert topic", "link"} =>
         /\ me.topic <= Len(me.content.topic)
         /\ Covers(me.content, D[me.pub])
         /\ Links(me.pub, me.content, me.topic - 1, R, L)
    /\ me.at = "link" => me.topic_id # 0 /\ me.topic_id = R[TopicOf(me)]

(* A reader will have seen what was due when it began.                      *)
Informed(me, R, D, L) ==
    \A content \in me.due :
        /\ me.at # "idle" =>
             {c \in Columns : content.reference[c] # None} \subseteq me.columns
        /\ me.at = "topics" => Links(me.pub, content, Len(content.topic), R, L)
        /\ me.at = "done" => {content.topic[i] : i \in DOMAIN content.topic} \subseteq me.topics

RowIds == OneRowPerId /\ \A k \in Keys : row[k] <= uuid
Stored ==
    /\ \A p \in Publications, c \in Columns :
          document[p][c] # 0 => \E k \in Keys : row[k] = document[p][c]
    /\ \A link \in document_topic : link[2] # 0 /\ \E k \in Keys : row[k] = link[2]
    /\ \A v \in vectors : v.topic_id # 0 /\ v.topic_id = row[v.key]
Synced == \A s \in Seeders : seeder[s].at = "sync" =>
              seeder[s].topic_id # 0 /\ seeder[s].topic_id = row[seeder[s].key]
Finished ==
    \A p \in Publications : \A content \in finished[p] :
        /\ Covers(content, document[p])
        /\ Links(p, content, Len(content.topic), row, document_topic)

IndInv ==
    /\ TypeOK
    /\ RowIds /\ Stored /\ Synced /\ Finished
    /\ \A w \in Writers :
          Truthful(writer[w], row) /\ OnTrack(writer[w], row, document, document_topic)
    /\ \A r \in Readers : Informed(reader[r], row, document, document_topic)

-----------------------------------------------------------------------------
(* Lemmas about the operators.                                              *)

(* The next reference that is there: every column before it has none.       *)
LEMMA NextColumnFound ==
  ASSUME NEW content \in Contents, NEW c \in 1..5
  PROVE  LET d == NextColumn(content, c)
         IN  /\ d \in c..5
             /\ d # 5 => content.reference[d] # None
             /\ \A e \in c..4 : e < d => content.reference[e] = None
<1>. DEFINE Fits(d, b) == /\ d = 5 \/ content.reference[d] # None
                          /\ \A e \in b..4 : e < d => content.reference[e] = None
<1>1. \E d \in 5..5 : Fits(d, 5)
  OBVIOUS
<1>2. ASSUME NEW b \in 1..4, \E d \in (b + 1)..5 : Fits(d, b + 1)
      PROVE  \E d \in b..5 : Fits(d, b)
  <2>1. CASE content.reference[b] # None
    <3>1. b \in b..5 /\ Fits(b, b)
      BY <2>1
    <3>. QED
      BY <3>1
  <2>2. CASE content.reference[b] = None
    <3>1. PICK d \in (b + 1)..5 : Fits(d, b + 1)
      BY <1>2
    <3>2. d \in b..5 /\ Fits(d, b)
      BY <3>1, <2>2
    <3>. QED
      BY <3>2
  <2>. QED
    BY <2>1, <2>2
<1>3. \E d \in 4..5 : Fits(d, 4)
  BY <1>1, <1>2
<1>4. \E d \in 3..5 : Fits(d, 3)
  BY <1>2, <1>3
<1>5. \E d \in 2..5 : Fits(d, 2)
  BY <1>2, <1>4
<1>6. \E d \in 1..5 : Fits(d, 1)
  BY <1>2, <1>5
<1>7. c = 1 \/ c = 2 \/ c = 3 \/ c = 4 \/ c = 5
  BY OneToFive
<1>. HIDE DEF Fits
<1>8. \E d \in c..5 : Fits(d, c)
  BY <1>1, <1>3, <1>4, <1>5, <1>6, <1>7
<1>. QED
  BY <1>8 DEF NextColumn, Fits

(* A writer whose column is resolved, field by field.                       *)
LEMMA ResolvedFields ==
  ASSUME NEW me \in Writer, me.column \in Columns, NEW id \in Nat
  PROVE  LET k == Resolved(me, id)
             next == NextColumn(me.content, me.column + 1)
         IN  /\ k \in Writer
             /\ k.at = IF next = 5 THEN "row" ELSE "select"
             /\ k.column = next
             /\ k.id = [me.id EXCEPT ![me.column] = id]
             /\ k.pub = me.pub /\ k.content = me.content
             /\ k.topic = me.topic /\ k.topic_id = me.topic_id
<1>. DEFINE next == NextColumn(me.content, me.column + 1)
<1>1. me.content \in Contents
  BY DEF Writer
<1>2. next \in 1..5
  BY <1>1, NextColumnFound
<1>. HIDE DEF next
<1>3. [me.id EXCEPT ![me.column] = id] \in [Columns -> Nat]
  BY DEF Writer
<1>. QED
  BY <1>2, <1>3 DEF Resolved, Writer, next

(* The row of a key is its row for good, and a fresh id is nobody's.        *)
LEMMA InsertedRow ==
  ASSUME TypeOK, RowIds, NEW k \in Keys, InsertRow(k)
  PROVE  /\ row' \in [Keys -> Nat] /\ uuid' \in Nat
         /\ RowIds'
         /\ Inserted(k) \in Nat \ {0} /\ row'[k] = Inserted(k)
         /\ \A l \in Keys : row[l] # 0 => row'[l] = row[l]
<1>1. uuid \in Nat /\ row \in [Keys -> Nat]
  BY DEF TypeOK
<1>2. Inserted(k) \in Nat \ {0} /\ Inserted(k) <= uuid' /\ uuid <= uuid' /\ uuid' \in Nat
  BY <1>1 DEF RowIds, InsertRow, Inserted
<1>3. row' \in [Keys -> Nat] /\ row'[k] = Inserted(k)
      /\ \A l \in Keys \ {k} : row'[l] = row[l]
  BY <1>1, <1>2 DEF InsertRow
<1>4. \A l \in Keys : row[l] # 0 => row'[l] = row[l]
  BY <1>3 DEF Inserted
<1>5. ASSUME NEW l \in Keys PROVE row'[l] <= uuid'
  <2>1. CASE l = k
    BY <1>2, <1>3, <2>1
  <2>2. CASE l # k
    <3>1. row'[l] = row[l] /\ row[l] \in Nat /\ row[l] <= uuid
      BY <1>1, <1>3, <2>2 DEF RowIds
    <3>. QED
      BY <1>1, <1>2, <3>1
  <2>. QED
    BY <2>1, <2>2
<1>6. ASSUME NEW l \in Keys, NEW m \in Keys, row'[l] = row'[m], row'[l] # 0
      PROVE  l = m
  <2>1. CASE row[k] = 0
    <3>1. row'[k] = uuid + 1 /\ \A n \in Keys \ {k} : row'[n] <= uuid
      BY <1>3, <2>1 DEF Inserted, RowIds
    <3>. QED
      BY <1>1, <1>3, <1>6, <3>1 DEF RowIds, OneRowPerId
  <2>2. CASE row[k] # 0
    BY <1>3, <1>6, <2>2 DEF Inserted, RowIds, OneRowPerId
  <2>. QED
    BY <2>1, <2>2
<1>. QED
  BY <1>2, <1>3, <1>4, <1>5, <1>6 DEF RowIds, OneRowPerId

(* What holds of tables holds of tables that have more.                     *)
More(R, S, D, E, L, M) ==
    /\ \A k \in Keys : R[k] # 0 => S[k] = R[k]
    /\ \A p \in Publications, c \in Columns : D[p][c] # 0 => E[p][c] # 0
    /\ L \subseteq M

LEMMA LinksGrow ==
  ASSUME NEW R, NEW S, NEW D, NEW E, NEW L, NEW M, More(R, S, D, E, L, M),
         NEW p, NEW content \in Contents, NEW n \in 0..Len(content.topic),
         Links(p, content, n, R, L)
  PROVE  Links(p, content, n, S, M)
<1>1. \A i \in 1..n : content.topic[i] \in Keys
  <2>1. content.topic \in Seq(Topics)
    OBVIOUS
  <2>2. \A i \in 1..n : content.topic[i] \in Topics
    BY <2>1
  <2>. QED
    BY <2>2
<1>. QED
  BY <1>1 DEF More, Links

LEMMA WriterGrows ==
  ASSUME NEW R \in [Keys -> Nat], NEW S, NEW D, NEW E, NEW L, NEW M, More(R, S, D, E, L, M),
         NEW me \in Writer, Truthful(me, R), OnTrack(me, R, D, L)
  PROVE  Truthful(me, S) /\ OnTrack(me, S, E, M)
<1>1. me.content \in Contents /\ me.pub \in Publications /\ me.topic \in Nat \ {0}
      /\ me.id \in [Columns -> Nat]
  BY DEF Writer
<1>2. Truthful(me, S)
  BY <1>1 DEF Truthful, More
<1>3. ASSUME me.at \in {"select topic", "insert topic", "link"}
      PROVE  /\ Covers(me.content, E[me.pub])
             /\ Links(me.pub, me.content, me.topic - 1, S, M)
  <2>1. Len(me.content.topic) \in Nat
    BY <1>1
  <2>2. /\ me.topic <= Len(me.content.topic)
        /\ Links(me.pub, me.content, me.topic - 1, R, L)
        /\ Covers(me.content, D[me.pub])
    BY <1>3 DEF OnTrack
  <2>3. me.topic - 1 \in 0..Len(me.content.topic)
    BY <1>1, <2>1, <2>2, Predecessor
  <2>4. Links(me.pub, me.content, me.topic - 1, S, M)
    BY <1>1, <2>2, <2>3, LinksGrow
  <2>5. Covers(me.content, E[me.pub])
    BY <1>1, <2>2 DEF Covers, More
  <2>. QED
    BY <2>4, <2>5
<1>4. ASSUME me.at = "link" PROVE me.topic_id = S[TopicOf(me)]
  <2>1. me.topic <= Len(me.content.topic)
    BY <1>4 DEF OnTrack
  <2>2. me.content.topic \in Seq(Topics)
    BY <1>1
  <2>3. me.content.topic[me.topic] \in Topics
    BY <1>1, <2>1, <2>2, SeqElement
  <2>4. TopicOf(me) \in Keys
    BY <2>3 DEF TopicOf
  <2>. QED
    BY <1>4, <2>4 DEF OnTrack, More
<1>. QED
  BY <1>2, <1>3, <1>4 DEF OnTrack

LEMMA ReaderGrows ==
  ASSUME NEW R, NEW S, NEW D, NEW E, NEW L, NEW M, More(R, S, D, E, L, M),
         NEW me \in Reader, Informed(me, R, D, L)
  PROVE  Informed(me, S, E, M)
<1>1. me.due \subseteq Contents
  BY DEF Reader
<1>2. ASSUME NEW content \in me.due, me.at = "topics"
      PROVE  Links(me.pub, content, Len(content.topic), S, M)
  <2>1. content \in Contents /\ Len(content.topic) \in 0..Len(content.topic)
    BY <1>1
  <2>. QED
    BY <1>2, <2>1, LinksGrow DEF Informed
<1>. QED
  BY <1>2 DEF Informed

-----------------------------------------------------------------------------
(* One step of one coroutine.                                               *)
AllOnTrack == \A w \in Writers :
    Truthful(writer[w], row) /\ OnTrack(writer[w], row, document, document_topic)
AllInformed == \A r \in Readers : Informed(reader[r], row, document, document_topic)
TablesGrow == More(row, row', document, document', document_topic, document_topic')

LEMMA IdleOnTrack ==
  /\ Idle \in Writer
  /\ \A R, D, L : Truthful(Idle, R) /\ OnTrack(Idle, R, D, L)
<1>1. (CHOOSE p \in Publications : TRUE) \in Publications
  OBVIOUS
<1>2. (CHOOSE c \in Contents : TRUE) \in Contents
  OBVIOUS
<1>3. NoRow \in [Columns -> Nat] /\ \A c \in Columns : NoRow[c] = 0
  BY DEF NoRow
<1>4. Idle \in Writer
  BY <1>1, <1>2, <1>3 DEF Idle, Writer
<1>. QED
  BY <1>3, <1>4 DEF Idle, Truthful, OnTrack

LEMMA NotReadingInformed ==
  NotReading \in Reader /\ \A R, D, L : Informed(NotReading, R, D, L)
<1>1. (CHOOSE p \in Publications : TRUE) \in Publications
  OBVIOUS
<1>. QED
  BY <1>1 DEF NotReading, Reader, Informed

(* What stays true of the others when one writer moves, ...                 *)
LEMMA OneWriterMoves ==
  ASSUME IndInv, TablesGrow, NEW w \in Writers, NEW k \in Writer,
         writer' = [writer EXCEPT ![w] = k],
         Truthful(k, row'), OnTrack(k, row', document', document_topic')
  PROVE  writer' \in [Writers -> Writer] /\ AllOnTrack'
<1>1. writer \in [Writers -> Writer] /\ row \in [Keys -> Nat]
  BY DEF IndInv, TypeOK
<1>2. ASSUME NEW v \in Writers
      PROVE  Truthful(writer[v], row') /\ OnTrack(writer[v], row', document', document_topic')
  <2>1. writer[v] \in Writer
    BY <1>1
  <2>. QED
    BY <1>1, <2>1, WriterGrows DEF TablesGrow, IndInv
<1>3. \A v \in Writers : writer'[v] = IF v = w THEN k ELSE writer[v]
  BY <1>1
<1>. QED
  BY <1>1, <1>2, <1>3 DEF AllOnTrack

(* ... and when none does.                                                  *)
LEMMA WritersWait ==
  ASSUME IndInv, TablesGrow, writer' = writer
  PROVE  AllOnTrack'
<1>1. writer \in [Writers -> Writer] /\ row \in [Keys -> Nat]
  BY DEF IndInv, TypeOK
<1>2. ASSUME NEW v \in Writers
      PROVE  Truthful(writer[v], row') /\ OnTrack(writer[v], row', document', document_topic')
  <2>1. writer[v] \in Writer
    BY <1>1
  <2>. QED
    BY <1>1, <2>1, WriterGrows DEF TablesGrow, IndInv
<1>. QED
  BY <1>2 DEF AllOnTrack

LEMMA ReadersWait ==
  ASSUME IndInv, TablesGrow, reader' = reader
  PROVE  AllInformed'
<1>1. \A r \in Readers : reader[r] \in Reader
  BY DEF IndInv, TypeOK
<1>. QED
  BY <1>1, ReaderGrows DEF TablesGrow, IndInv, AllInformed

LEMMA FinishedStays ==
  ASSUME IndInv, TablesGrow, NEW p \in Publications, NEW content \in finished[p]
  PROVE  /\ Covers(content, document'[p])
         /\ Links(p, content, Len(content.topic), row', document_topic')
<1>1. content \in Contents
  BY DEF IndInv, TypeOK
<1>2. Len(content.topic) \in 0..Len(content.topic)
  BY <1>1
<1>3. Links(p, content, Len(content.topic), row', document_topic')
  BY <1>1, <1>2, LinksGrow DEF IndInv, Finished, TablesGrow
<1>4. Covers(content, document'[p])
  BY DEF IndInv, Finished, Covers, TablesGrow, More
<1>. QED
  BY <1>3, <1>4

(* A row is inserted: ids stay true, whoever keeps them.                    *)
LEMMA RowInserted ==
  ASSUME IndInv, NEW k \in Keys, InsertRow(k)
  PROVE  /\ TablesGrow /\ RowIds' /\ Stored'
         /\ uuid' \in Nat /\ row' \in [Keys -> Nat]
         /\ Inserted(k) \in Nat \ {0} /\ row'[k] = Inserted(k)
         /\ document' = document /\ document_topic' = document_topic /\ vectors' = vectors
<1>1. TypeOK /\ RowIds
  BY DEF IndInv
<1>2. /\ row' \in [Keys -> Nat] /\ uuid' \in Nat /\ RowIds'
      /\ Inserted(k) \in Nat \ {0} /\ row'[k] = Inserted(k)
      /\ \A l \in Keys : row[l] # 0 => row'[l] = row[l]
  BY <1>1, InsertedRow
<1>3. document' = document /\ document_topic' = document_topic /\ vectors' = vectors
  BY DEF InsertRow
<1>4. TablesGrow
  BY <1>2, <1>3 DEF TablesGrow, More
<1>5. Stored'
  <2>1. \A v \in vectors : v.key \in Keys
    BY <1>1 DEF TypeOK
  <2>2. ASSUME NEW i, i # 0, \E l \in Keys : row[l] = i
        PROVE  \E l \in Keys : row'[l] = i
    BY <1>2, <2>2
  <2>3. \A p \in Publications, c \in Columns :
          document'[p][c] # 0 => \E l \in Keys : row'[l] = document'[p][c]
    BY <1>3, <2>2 DEF IndInv, Stored
  <2>4. \A link \in document_topic' : link[2] # 0 /\ \E l \in Keys : row'[l] = link[2]
    BY <1>3, <2>2 DEF IndInv, Stored
  <2>5. \A v \in vectors' : v.topic_id # 0 /\ v.topic_id = row'[v.key]
    BY <1>2, <1>3, <2>1 DEF IndInv, Stored
  <2>. QED
    BY <2>3, <2>4, <2>5 DEF Stored
<1>. QED
  BY <1>2, <1>3, <1>4, <1>5

(* upsert_document() goes on to the next topic or ends: what it finished is *)
(* in the tables.                                                           *)
LEMMA TopicReached ==
  ASSUME IndInv, TablesGrow, NEW w \in Writers, NEW me \in Writer, Ends(w, me),
         Truthful(me, row'), Covers(me.content, document'[me.pub]),
         Links(me.pub, me.content, me.topic - 1, row', document_topic')
  PROVE  /\ ToTopic(me) \in Writer
         /\ Truthful(ToTopic(me), row')
         /\ OnTrack(ToTopic(me), row', document', document_topic')
         /\ finished' \in [Publications -> SUBSET Contents]
         /\ Finished'
<1>1. /\ me.content \in Contents /\ me.pub \in Publications /\ me.topic \in Nat \ {0}
      /\ finished \in [Publications -> SUBSET Contents]
  BY DEF Writer, IndInv, TypeOK
<1>2. Len(me.content.topic) \in Nat
  BY <1>1
<1>3. CASE LastTopic(me)
  <2>1. ToTopic(me) = Idle
    BY <1>3 DEF ToTopic
  <2>2. finished' = [finished EXCEPT ![me.pub] = @ \cup {me.content}]
    BY <1>3 DEF Ends
  <2>3. Len(me.content.topic) <= me.topic - 1
    BY <1>1, <1>2, <1>3 DEF LastTopic
  <2>4. Links(me.pub, me.content, Len(me.content.topic), row', document_topic')
    <3>1. \A i \in 1..Len(me.content.topic) : i \in 1..(me.topic - 1)
      BY <1>1, <1>2, <2>3
    <3>. QED
      BY <3>1 DEF Links
  <2>5. ASSUME NEW p \in Publications, NEW content \in finished'[p]
        PROVE  /\ Covers(content, document'[p])
               /\ Links(p, content, Len(content.topic), row', document_topic')
    <3>1. CASE content \in finished[p]
      BY <3>1, FinishedStays
    <3>2. CASE content \notin finished[p]
      <4>1. p = me.pub /\ content = me.content
        BY <1>1, <2>2, <2>5, <3>2
      <4>. QED
        BY <2>4, <4>1
    <3>. QED
      BY <3>1, <3>2
  <2>6. finished' \in [Publications -> SUBSET Contents]
    BY <1>1, <2>2
  <2>. QED
    BY <2>1, <2>5, <2>6, IdleOnTrack DEF Finished
<1>4. CASE ~LastTopic(me)
  <2>. DEFINE k == [me EXCEPT !.at = "select topic", !.topic_id = 0]
  <2>1. ToTopic(me) = k
    BY <1>4 DEF ToTopic
  <2>2. finished' = finished
    BY <1>4 DEF Ends
  <2>3. me.topic <= Len(me.content.topic)
    BY <1>1, <1>2, <1>4 DEF LastTopic
  <2>4. /\ k \in Writer /\ k.at = "select topic" /\ k.content = me.content /\ k.pub = me.pub
        /\ k.topic = me.topic /\ k.id = me.id
    BY DEF Writer
  <2>. HIDE DEF k
  <2>5. Truthful(k, row')
    BY <2>4 DEF Truthful
  <2>6. OnTrack(k, row', document', document_topic')
    BY <2>3, <2>4 DEF OnTrack
  <2>7. Finished'
    BY <2>2, FinishedStays DEF Finished
  <2>. QED
    BY <1>1, <2>1, <2>2, <2>4, <2>5, <2>6, <2>7
<1>. QED
  BY <1>3, <1>4

(* A column is resolved, by a row found or inserted.                        *)
LEMMA ColumnResolved ==
  ASSUME IndInv, TablesGrow, row' \in [Keys -> Nat], NEW w \in Writers,
         writer[w].at \in {"select", "insert"},
         NEW id \in Nat \ {0}, id = row'[Referenced(writer[w])]
  PROVE  LET k == Resolved(writer[w], id)
         IN  k \in Writer /\ Truthful(k, row') /\ OnTrack(k, row', document', document_topic')
<1>. DEFINE me == writer[w]
            k == Resolved(me, id)
            next == NextColumn(me.content, me.column + 1)
<1>1. /\ me \in Writer /\ Truthful(me, row')
      /\ me.column \in Columns /\ me.topic = 1
      /\ me.content.reference[me.column] \in Keys
      /\ \A c \in Columns : c < me.column /\ me.content.reference[c] # None => me.id[c] # 0
  <2>1. me \in Writer /\ row \in [Keys -> Nat]
    BY DEF IndInv, TypeOK
  <2>2. Truthful(me, row) /\ OnTrack(me, row, document, document_topic)
    BY DEF IndInv
  <2>3. me.column \in Columns /\ Referenced(me) # None /\ me.topic = 1
    BY <2>2 DEF OnTrack
  <2>4. me.content \in Contents
    BY <2>1 DEF Writer
  <2>5. me.content.reference[me.column] \in Keys
    BY <2>3, <2>4 DEF Referenced
  <2>. QED
    BY <2>1, <2>2, <2>3, <2>5, WriterGrows DEF OnTrack, TablesGrow
<1>. HIDE DEF me
<1>2. me.content \in Contents /\ me.id \in [Columns -> Nat] /\ me.column + 1 \in 1..5
  <2>1. me.content \in Contents /\ me.id \in [Columns -> Nat]
    BY <1>1 DEF Writer
  <2>2. me.column \in 1..4
    BY <1>1
  <2>3. me.column + 1 \in 1..5
    BY <2>2
  <2>. QED
    BY <2>1, <2>3
<1>3. /\ next \in (me.column + 1)..5
      /\ next # 5 => me.content.reference[next] # None
      /\ \A e \in (me.column + 1)..4 : e < next => me.content.reference[e] = None
  BY <1>2, NextColumnFound
<1>4. /\ k \in Writer /\ k.at = IF next = 5 THEN "row" ELSE "select"
      /\ k.column = next /\ k.id = [me.id EXCEPT ![me.column] = id]
      /\ k.pub = me.pub /\ k.content = me.content /\ k.topic = me.topic
  BY <1>1, ResolvedFields
<1>. HIDE DEF k, next
<1>5. k.id[me.column] = id /\ \A c \in Columns \ {me.column} : k.id[c] = me.id[c]
  BY <1>1, <1>2, <1>4
<1>6. id = row'[me.content.reference[me.column]]
  BY DEF me, Referenced
<1>7. Truthful(k, row')
  BY <1>1, <1>4, <1>5, <1>6 DEF Truthful
<1>8. ASSUME NEW c \in Columns, c < k.column, k.content.reference[c] # None
      PROVE  k.id[c] # 0
  <2>1. CASE c < me.column
    BY <1>1, <1>4, <1>5, <1>8, <2>1
  <2>2. CASE c = me.column
    BY <1>5, <2>2
  <2>3. CASE me.column < c
    <3>1. c \in (me.column + 1)..4 /\ c < next
      BY <1>1, <1>4, <1>8, <2>3
    <3>. QED
      BY <1>3, <1>4, <1>8, <3>1
  <2>4. c \in Nat /\ me.column \in Nat
    BY <1>1
  <2>. QED
    BY <2>1, <2>2, <2>3, <2>4, Ordered
<1>9. k.at \in {"select", "insert"} => k.column \in Columns /\ Referenced(k) # None
  BY <1>1, <1>3, <1>4 DEF Referenced
<1>10. k.at \in {"row", "select"} /\ (k.at = "row" => k.column = 5) /\ k.topic = 1
  BY <1>1, <1>4
<1>11. OnTrack(k, row', document', document_topic')
  BY <1>8, <1>9, <1>10 DEF OnTrack
<1>. QED
  BY <1>4, <1>7, <1>11 DEF k, me

LEMMA TablesUnchanged ==
  ASSUME IndInv, UNCHANGED tables
  PROVE  TablesGrow /\ RowIds' /\ Stored' /\ row' \in [Keys -> Nat]
BY DEF IndInv, TypeOK, tables, TablesGrow, More, RowIds, OneRowPerId, Stored

LEMMA BeginKeeps ==
  ASSUME IndInv, NEW w \in Writers, NEW p \in Publications, Begin(w, p)
  PROVE  IndInv'
<1>. DEFINE k == [Idle EXCEPT !.at = "select", !.pub = p, !.content = source[p],
                              !.column = NextColumn(source[p], 1)]
<1>1. UNCHANGED <<tables, source, seeder, reader, finished, failures, edits>>
  BY DEF Begin
<1>2. TablesGrow /\ RowIds' /\ Stored' /\ row' \in [Keys -> Nat]
  BY <1>1, TablesUnchanged
<1>3. writer' = [writer EXCEPT ![w] = k]
  BY DEF Begin
<1>4. source[p] \in Contents /\ source[p].reference[1] # None
  BY DEF IndInv, TypeOK
<1>5. NextColumn(source[p], 1) = 1
  BY <1>4, NextColumnFound
<1>6. /\ k \in Writer /\ k.at = "select" /\ k.content = source[p]
      /\ k.column = 1 /\ k.id = NoRow /\ k.topic = 1
  BY <1>4, <1>5, IdleOnTrack DEF Writer, Idle
<1>. HIDE DEF k
<1>7. Truthful(k, row') /\ OnTrack(k, row', document', document_topic')
  BY <1>4, <1>6 DEF Truthful, OnTrack, NoRow, Referenced
<1>8. writer' \in [Writers -> Writer] /\ AllOnTrack'
  BY <1>2, <1>3, <1>6, <1>7, OneWriterMoves
<1>9. AllInformed'
  BY <1>1, <1>2, ReadersWait
<1>10. Finished' /\ Synced'
  BY <1>1 DEF IndInv, Finished, Synced, tables
<1>11. TypeOK'
  BY <1>1, <1>8 DEF IndInv, TypeOK, tables
<1>. QED
  BY <1>2, <1>8, <1>9, <1>10, <1>11 DEF IndInv, AllOnTrack, AllInformed

LEMMA SelectKeeps ==
  ASSUME IndInv, NEW w \in Writers, Select(w)
  PROVE  IndInv'
<1>. DEFINE id == row[Referenced(writer[w])]
            k == IF id # 0 THEN Resolved(writer[w], id) ELSE [writer[w] EXCEPT !.at = "insert"]
<1>1. UNCHANGED <<tables, source, seeder, reader, finished, failures, edits>>
  BY DEF Select
<1>2. TablesGrow /\ RowIds' /\ Stored' /\ row' \in [Keys -> Nat] /\ row' = row
  BY <1>1, TablesUnchanged DEF tables
<1>3. /\ writer[w] \in Writer /\ row \in [Keys -> Nat] /\ writer[w].at = "select"
      /\ writer[w].content \in Contents
      /\ Truthful(writer[w], row) /\ OnTrack(writer[w], row, document, document_topic)
  BY DEF IndInv, TypeOK, Select, Writer
<1>4. writer' = [writer EXCEPT ![w] = k]
  BY <1>3 DEF Select, IndInv, TypeOK
<1>5. id \in Nat
  <2>1. writer[w].content.reference[writer[w].column] \in Keys
    BY <1>3 DEF OnTrack, Referenced
  <2>. QED
    BY <1>3, <2>1 DEF Referenced
<1>6. k \in Writer /\ Truthful(k, row') /\ OnTrack(k, row', document', document_topic')
  <2>1. CASE id # 0
    BY <1>2, <1>3, <1>5, <2>1, ColumnResolved
  <2>2. CASE id = 0
    <3>. DEFINE me == writer[w]
    <3>1. k = [me EXCEPT !.at = "insert"]
      BY <2>2
    <3>2. /\ k \in Writer /\ k.at = "insert" /\ k.content = me.content /\ k.id = me.id
          /\ k.column = me.column /\ k.topic = me.topic
      BY <1>3, <3>1 DEF Writer
    <3>. HIDE DEF k, me
    <3>3. Truthful(k, row') /\ OnTrack(k, row', document', document_topic')
      BY <1>2, <1>3, <3>2 DEF Truthful, OnTrack, Referenced, me
    <3>. QED
      BY <3>2, <3>3
  <2>. QED
    BY <2>1, <2>2
<1>. HIDE DEF k
<1>7. writer' \in [Writers -> Writer] /\ AllOnTrack'
  BY <1>2, <1>4, <1>6, OneWriterMoves
<1>8. AllInformed'
  BY <1>1, <1>2, ReadersWait
<1>9. Finished' /\ Synced'
  BY <1>1 DEF IndInv, Finished, Synced, tables
<1>10. TypeOK'
  BY <1>1, <1>7 DEF IndInv, TypeOK, tables
<1>. QED
  BY <1>2, <1>7, <1>8, <1>9, <1>10 DEF IndInv, AllOnTrack, AllInformed

LEMMA InsertKeeps ==
  ASSUME IndInv, NEW w \in Writers, Insert(w)
  PROVE  IndInv'
<1>. DEFINE key == Referenced(writer[w])
            k == Resolved(writer[w], Inserted(key))
<1>1. /\ writer[w] \in Writer /\ writer[w].at = "insert" /\ writer[w].content \in Contents
      /\ OnTrack(writer[w], row, document, document_topic)
      /\ InsertRow(key) /\ writer' = [writer EXCEPT ![w] = k]
      /\ UNCHANGED <<source, seeder, reader, finished, failures, edits>>
  BY DEF Insert, IndInv, TypeOK, Writer
<1>2. key \in Keys
  BY <1>1 DEF OnTrack, Referenced
<1>3. /\ TablesGrow /\ RowIds' /\ Stored' /\ uuid' \in Nat /\ row' \in [Keys -> Nat]
      /\ Inserted(key) \in Nat \ {0} /\ row'[key] = Inserted(key)
      /\ document' = document /\ document_topic' = document_topic /\ vectors' = vectors
  BY <1>1, <1>2, RowInserted
<1>4. k \in Writer /\ Truthful(k, row') /\ OnTrack(k, row', document', document_topic')
  BY <1>1, <1>3, ColumnResolved
<1>. HIDE DEF k, key
<1>5. writer' \in [Writers -> Writer] /\ AllOnTrack'
  BY <1>1, <1>3, <1>4, OneWriterMoves
<1>6. AllInformed'
  BY <1>1, <1>3, ReadersWait
<1>7. Finished'
  BY <1>1, <1>3, FinishedStays DEF Finished
<1>8. Synced'
  BY <1>1, <1>3 DEF IndInv, Synced, TypeOK, Seeder, TablesGrow, More
<1>9. TypeOK'
  BY <1>1, <1>3, <1>5 DEF IndInv, TypeOK
<1>. QED
  BY <1>3, <1>5, <1>6, <1>7, <1>8, <1>9 DEF IndInv, AllOnTrack, AllInformed

LEMMA WriteRowKeeps ==
  ASSUME IndInv, NEW w \in Writers, WriteRow(w)
  PROVE  IndInv'
<1>. DEFINE me == writer[w]
<1>1. /\ me \in Writer /\ me.at = "row" /\ me.content \in Contents /\ me.pub \in Publications
      /\ me.id \in [Columns -> Nat]
      /\ OnTrack(me, row, document, document_topic) /\ Truthful(me, row)
      /\ document' = [document EXCEPT ![me.pub] = Coalesced(me.id, @)]
      /\ writer' = [writer EXCEPT ![w] = ToTopic(me)]
      /\ Ends(w, me)
      /\ UNCHANGED <<uuid, row, document_topic, vectors, source, seeder, reader, failures, edits>>
  BY DEF WriteRow, IndInv, TypeOK, Writer
<1>. HIDE DEF me
<1>2. /\ document \in [Publications -> [Columns -> Nat]]
      /\ row \in [Keys -> Nat]
  BY DEF IndInv, TypeOK
<1>3. /\ document' \in [Publications -> [Columns -> Nat]]
      /\ \A c \in Columns :
            document'[me.pub][c] = IF me.id[c] # 0 THEN me.id[c] ELSE document[me.pub][c]
      /\ \A p \in Publications \ {me.pub} : document'[p] = document[p]
  BY <1>1, <1>2 DEF Coalesced
<1>4. TablesGrow
  BY <1>1, <1>3 DEF TablesGrow, More
<1>5. RowIds'
  BY <1>1 DEF IndInv, RowIds, OneRowPerId
<1>6. Stored'
  <2>1. ASSUME NEW p \in Publications, NEW c \in Columns, document'[p][c] # 0
        PROVE  \E k \in Keys : row[k] = document'[p][c]
    <3>1. CASE p = me.pub /\ me.id[c] # 0
      <4>1. document'[p][c] = me.id[c]
        BY <1>3, <3>1
      <4>2. me.content.reference[c] \in Keys /\ me.id[c] = row[me.content.reference[c]]
        BY <1>1, <3>1 DEF Truthful
      <4>. QED
        BY <4>1, <4>2
    <3>2. CASE ~(p = me.pub /\ me.id[c] # 0)
      <4>1. document'[p][c] = document[p][c]
        BY <1>3, <3>2
      <4>. QED
        BY <2>1, <4>1 DEF IndInv, Stored
    <3>. QED
      BY <3>1, <3>2
  <2>. QED
    BY <1>1, <2>1 DEF IndInv, Stored
<1>7. Covers(me.content, document'[me.pub])
  <2>1. ASSUME NEW c \in Columns, me.content.reference[c] # None
        PROVE  me.id[c] # 0
    <3>1. me.column = 5
      BY <1>1 DEF OnTrack
    <3>2. c < me.column
      BY <3>1
    <3>. QED
      BY <1>1, <2>1, <3>2 DEF OnTrack
  <2>. QED
    BY <1>3, <2>1 DEF Covers
<1>8. Links(me.pub, me.content, me.topic - 1, row', document_topic')
  <2>1. me.topic - 1 = 0
    BY <1>1 DEF OnTrack
  <2>. QED
    BY <2>1 DEF Links
<1>. DEFINE k == ToTopic(me)
<1>9. /\ k \in Writer /\ Truthful(k, row') /\ OnTrack(k, row', document', document_topic')
      /\ finished' \in [Publications -> SUBSET Contents] /\ Finished'
  <2>1. Truthful(me, row')
    BY <1>1
  <2>. QED
    BY <1>1, <1>4, <1>7, <1>8, <2>1, TopicReached
<1>. HIDE DEF k
<1>10. writer' \in [Writers -> Writer] /\ AllOnTrack'
  BY <1>1, <1>4, <1>9, OneWriterMoves DEF k
<1>11. AllInformed'
  BY <1>1, <1>4, ReadersWait
<1>12. Synced'
  BY <1>1 DEF IndInv, Synced
<1>13. TypeOK'
  BY <1>1, <1>3, <1>9, <1>10 DEF IndInv, TypeOK
<1>. QED
  BY <1>5, <1>6, <1>9, <1>10, <1>11, <1>12, <1>13 DEF IndInv, AllOnTrack, AllInformed

(* The topic a writer is at is a topic of its document.                     *)
LEMMA TopicKnown ==
  ASSUME IndInv, NEW w \in Writers, writer[w].at \in {"select topic", "insert topic", "link"}
  PROVE  TopicOf(writer[w]) \in Keys
<1>1. /\ writer[w] \in Writer /\ OnTrack(writer[w], row, document, document_topic)
  BY DEF IndInv, TypeOK
<1>2. writer[w].content.topic \in Seq(Topics) /\ writer[w].topic \in Nat \ {0}
  BY <1>1 DEF Writer
<1>3. writer[w].topic <= Len(writer[w].content.topic)
  BY <1>1 DEF OnTrack
<1>4. writer[w].content.topic[writer[w].topic] \in Topics
  BY <1>2, <1>3, SeqElement
<1>. QED
  BY <1>4 DEF TopicOf

(* A topic is found or inserted; its id is taken along.                     *)
LEMMA TopicResolved ==
  ASSUME IndInv, TablesGrow, NEW w \in Writers,
         writer[w].at \in {"select topic", "insert topic"},
         NEW id \in Nat, NEW at \in {"insert topic", "link"},
         at = "link" => id # 0 /\ id = row'[TopicOf(writer[w])]
  PROVE  LET k == [writer[w] EXCEPT !.topic_id = id, !.at = at]
         IN  k \in Writer /\ Truthful(k, row') /\ OnTrack(k, row', document', document_topic')
<1>. DEFINE me == writer[w]
            k == [me EXCEPT !.topic_id = id, !.at = at]
<1>1. /\ me \in Writer /\ Truthful(me, row') /\ OnTrack(me, row', document', document_topic')
      /\ me.at \in {"select topic", "insert topic"}
      /\ at = "link" => id # 0 /\ id = row'[TopicOf(me)]
  <2>1. me \in Writer /\ row \in [Keys -> Nat]
    BY DEF IndInv, TypeOK
  <2>2. Truthful(me, row) /\ OnTrack(me, row, document, document_topic)
    BY DEF IndInv
  <2>. QED
    BY <2>1, <2>2, WriterGrows DEF TablesGrow
<1>. HIDE DEF me
<1>2. /\ k \in Writer /\ k.at = at /\ k.topic_id = id /\ k.content = me.content
      /\ k.pub = me.pub /\ k.topic = me.topic /\ k.id = me.id
  BY <1>1 DEF Writer
<1>. HIDE DEF k
<1>3. Truthful(k, row') /\ OnTrack(k, row', document', document_topic')
  BY <1>1, <1>2 DEF Truthful, OnTrack, TopicOf
<1>. QED
  BY <1>2, <1>3 DEF k, me

LEMMA SelectTopicKeeps ==
  ASSUME IndInv, NEW w \in Writers, SelectTopic(w)
  PROVE  IndInv'
<1>. DEFINE id == row[TopicOf(writer[w])]
            at == IF id # 0 THEN "link" ELSE "insert topic"
            k == [writer[w] EXCEPT !.topic_id = id, !.at = at]
<1>1. /\ writer[w].at = "select topic" /\ writer[w] \in Writer /\ row \in [Keys -> Nat]
      /\ UNCHANGED <<tables, source, seeder, reader, finished, failures, edits>>
  BY DEF SelectTopic, IndInv, TypeOK
<1>2. TablesGrow /\ RowIds' /\ Stored' /\ row' = row
  BY <1>1, TablesUnchanged DEF tables
<1>3. writer' = [writer EXCEPT ![w] = k]
  BY DEF SelectTopic, IndInv, TypeOK
<1>4. id \in Nat
  BY <1>1, TopicKnown
<1>5. k \in Writer /\ Truthful(k, row') /\ OnTrack(k, row', document', document_topic')
  <2>1. at \in {"insert topic", "link"} /\ (at = "link" => id # 0 /\ id = row'[TopicOf(writer[w])])
    BY <1>2
  <2>. HIDE DEF id, at
  <2>. QED
    BY <1>1, <1>2, <1>4, <2>1, TopicResolved
<1>. HIDE DEF k
<1>6. writer' \in [Writers -> Writer] /\ AllOnTrack'
  BY <1>2, <1>3, <1>5, OneWriterMoves
<1>7. AllInformed'
  BY <1>1, <1>2, ReadersWait
<1>8. Finished' /\ Synced'
  BY <1>1 DEF IndInv, Finished, Synced, tables
<1>9. TypeOK'
  BY <1>1, <1>6 DEF IndInv, TypeOK, tables
<1>. QED
  BY <1>2, <1>6, <1>7, <1>8, <1>9 DEF IndInv, AllOnTrack, AllInformed

LEMMA InsertTopicKeeps ==
  ASSUME IndInv, NEW w \in Writers, InsertTopic(w)
  PROVE  IndInv'
<1>. DEFINE key == TopicOf(writer[w])
            k == [writer[w] EXCEPT !.topic_id = Inserted(key), !.at = "link"]
<1>1. /\ writer[w].at = "insert topic" /\ InsertRow(key)
      /\ writer' = [writer EXCEPT ![w] = k]
      /\ UNCHANGED <<source, seeder, reader, finished, failures, edits>>
  BY DEF InsertTopic, IndInv, TypeOK
<1>2. key \in Keys
  BY <1>1, TopicKnown
<1>3. /\ TablesGrow /\ RowIds' /\ Stored' /\ uuid' \in Nat /\ row' \in [Keys -> Nat]
      /\ Inserted(key) \in Nat \ {0} /\ row'[key] = Inserted(key)
      /\ document' = document /\ document_topic' = document_topic /\ vectors' = vectors
  BY <1>1, <1>2, RowInserted
<1>4. k \in Writer /\ Truthful(k, row') /\ OnTrack(k, row', document', document_topic')
  BY <1>1, <1>3, TopicResolved
<1>. HIDE DEF k, key
<1>5. writer' \in [Writers -> Writer] /\ AllOnTrack'
  BY <1>1, <1>3, <1>4, OneWriterMoves
<1>6. AllInformed'
  BY <1>1, <1>3, ReadersWait
<1>7. Finished'
  BY <1>1, <1>3, FinishedStays DEF Finished
<1>8. Synced'
  BY <1>1, <1>3 DEF IndInv, Synced, TypeOK, Seeder, TablesGrow, More
<1>9. TypeOK'
  BY <1>1, <1>3, <1>5 DEF IndInv, TypeOK
<1>. QED
  BY <1>3, <1>5, <1>6, <1>7, <1>8, <1>9 DEF IndInv, AllOnTrack, AllInformed

LEMMA LinkTopicKeeps ==
  ASSUME IndInv, NEW w \in Writers, LinkTopic(w)
  PROVE  IndInv'
<1>. DEFINE me == writer[w]
            next == [me EXCEPT !.topic = @ + 1]
<1>1. /\ me \in Writer /\ me.at = "link" /\ me.content \in Contents /\ me.pub \in Publications
      /\ me.topic \in Nat \ {0} /\ me.topic_id \in Nat
      /\ OnTrack(me, row, document, document_topic) /\ Truthful(me, row)
  BY DEF LinkTopic, IndInv, TypeOK, Writer
<1>2. /\ document_topic' = document_topic \cup {<<me.pub, me.topic_id>>}
      /\ writer' = [writer EXCEPT ![w] = ToTopic(next)]
      /\ Ends(w, next)
      /\ UNCHANGED <<uuid, row, document, vectors, source, seeder, reader, failures, edits>>
  BY DEF LinkTopic, IndInv, TypeOK
<1>3. me.topic_id # 0 /\ me.topic_id = row[TopicOf(me)] /\ TopicOf(me) \in Keys
  BY <1>1, TopicKnown DEF OnTrack
<1>4. /\ next \in Writer /\ next.content = me.content /\ next.pub = me.pub /\ next.id = me.id
      /\ next.topic = me.topic + 1
  <2>. HIDE DEF me
  <2>1. me.topic + 1 \in Nat \ {0}
    BY <1>1
  <2>. QED
    BY <1>1, <2>1 DEF Writer
<1>. HIDE DEF me, next
<1>5. TablesGrow /\ RowIds'
  BY <1>2 DEF TablesGrow, More, IndInv, RowIds, OneRowPerId
<1>6. Stored'
  BY <1>2, <1>3 DEF IndInv, Stored
<1>7. Covers(next.content, document'[next.pub]) /\ Truthful(next, row')
  BY <1>1, <1>2, <1>4 DEF OnTrack, Truthful
<1>8. Links(next.pub, next.content, next.topic - 1, row', document_topic')
  <2>1. Links(me.pub, me.content, me.topic - 1, row, document_topic)
    BY <1>1 DEF OnTrack
  <2>2. ASSUME NEW i \in 1..me.topic
        PROVE  /\ row'[me.content.topic[i]] # 0
               /\ <<me.pub, row'[me.content.topic[i]]>> \in document_topic'
    <3>1. CASE i = me.topic
      BY <1>2, <1>3, <3>1 DEF TopicOf
    <3>2. CASE i # me.topic
      <4>1. i \in 1..(me.topic - 1)
        BY <1>1, <3>2
      <4>. QED
        BY <1>2, <2>1, <4>1 DEF Links
    <3>. QED
      BY <3>1, <3>2
  <2>3. next.topic - 1 = me.topic
    BY <1>1, <1>4
  <2>. QED
    BY <1>4, <2>2, <2>3 DEF Links
<1>. DEFINE k == ToTopic(next)
<1>9. /\ k \in Writer /\ Truthful(k, row') /\ OnTrack(k, row', document', document_topic')
      /\ finished' \in [Publications -> SUBSET Contents] /\ Finished'
  BY <1>2, <1>4, <1>5, <1>7, <1>8, TopicReached
<1>. HIDE DEF k
<1>10. writer' \in [Writers -> Writer] /\ AllOnTrack'
  BY <1>2, <1>5, <1>9, OneWriterMoves DEF k
<1>11. AllInformed'
  BY <1>2, <1>5, ReadersWait
<1>12. Synced'
  BY <1>2 DEF IndInv, Synced
<1>13. TypeOK'
  <2>1. document_topic' \subseteq Publications \X Nat
    <3>1. document_topic \subseteq Publications \X Nat
      BY DEF IndInv, TypeOK
    <3>2. <<me.pub, me.topic_id>> \in Publications \X Nat
      BY <1>1
    <3>. QED
      BY <1>2, <3>1, <3>2
  <2>. QED
    BY <1>2, <1>9, <1>10, <2>1 DEF IndInv, TypeOK
<1>. QED
  BY <1>5, <1>6, <1>9, <1>10, <1>11, <1>12, <1>13 DEF IndInv, AllOnTrack, AllInformed

LEMMA WriterFailsKeeps ==
  ASSUME IndInv, NEW w \in Writers, WriterFails(w)
  PROVE  IndInv'
<1>1. /\ failures \in 0..MaxFailures /\ failures < MaxFailures /\ failures' = failures + 1
      /\ writer' = [writer EXCEPT ![w] = Idle]
      /\ UNCHANGED <<tables, source, seeder, reader, finished, edits>>
  BY DEF WriterFails, IndInv, TypeOK
<1>2. TablesGrow /\ RowIds' /\ Stored'
  BY <1>1, TablesUnchanged
<1>3. writer' \in [Writers -> Writer] /\ AllOnTrack'
  BY <1>1, <1>2, IdleOnTrack, OneWriterMoves
<1>4. AllInformed'
  BY <1>1, <1>2, ReadersWait
<1>5. Finished' /\ Synced'
  BY <1>1 DEF IndInv, Finished, Synced, tables
<1>6. TypeOK'
  <2>1. failures' \in 0..MaxFailures
    BY <1>1
  <2>. QED
    BY <1>1, <1>3, <2>1 DEF IndInv, TypeOK, tables
<1>. QED
  BY <1>2, <1>3, <1>4, <1>5, <1>6 DEF IndInv, AllOnTrack, AllInformed

(* The writers' tables are left alone by the rest.                          *)
LEMMA SeederKeeps ==
  ASSUME IndInv, NEW s \in Seeders,
         SeedSelect(s) \/ SeedSync(s) \/ SeedFails(s) \/ \E k \in Topics : SeedTopic(s, k)
  PROVE  IndInv'
<1>1. /\ seeder \in [Seeders -> Seeder] /\ seeder[s] \in Seeder
      /\ UNCHANGED <<uuid, row, document, document_topic, source, writer, reader, finished, edits>>
  BY DEF IndInv, TypeOK, SeedSelect, SeedSync, SeedFails, SeedTopic, tables
<1>2. TablesGrow /\ RowIds'
  BY <1>1 DEF TablesGrow, More, IndInv, RowIds, OneRowPerId
<1>3. AllOnTrack' /\ AllInformed' /\ Finished'
  BY <1>1, <1>2, WritersWait, ReadersWait, FinishedStays DEF Finished
<1>4. seeder' \in [Seeders -> Seeder] /\ Synced'
  <2>1. CASE SeedSelect(s)
    <3>. DEFINE at == IF row[seeder[s].key] # 0 THEN "idle" ELSE "insert"
    <3>1. seeder' = [seeder EXCEPT ![s] = [seeder[s] EXCEPT !.at = at]] /\ at # "sync"
      BY <1>1, <2>1 DEF SeedSelect
    <3>2. [seeder[s] EXCEPT !.at = at] \in Seeder /\ [seeder[s] EXCEPT !.at = at].at # "sync"
      BY <1>1 DEF Seeder
    <3>. QED
      BY <1>1, <3>1, <3>2 DEF IndInv, Synced
  <2>2. CASE SeedSync(s) \/ SeedFails(s)
    <3>1. [seeder[s] EXCEPT !.at = "idle", !.topic_id = 0] \in Seeder
      BY <1>1 DEF Seeder
    <3>2. seeder' = [seeder EXCEPT ![s] = [seeder[s] EXCEPT !.at = "idle", !.topic_id = 0]]
      BY <1>1, <2>2 DEF SeedSync, SeedFails
    <3>. QED
      BY <1>1, <3>1, <3>2 DEF IndInv, Synced, Seeder
  <2>3. ASSUME NEW k \in Topics, SeedTopic(s, k) PROVE seeder' \in [Seeders -> Seeder] /\ Synced'
    <3>1. [seeder[s] EXCEPT !.at = "select", !.key = k] \in Seeder
      BY <1>1 DEF Seeder
    <3>2. seeder' = [seeder EXCEPT ![s] = [seeder[s] EXCEPT !.at = "select", !.key = k]]
      BY <1>1, <2>3 DEF SeedTopic
    <3>. QED
      BY <1>1, <3>1, <3>2 DEF IndInv, Synced, Seeder
  <2>. QED
    BY <2>1, <2>2, <2>3
<1>5. vectors' \subseteq [key : Topics, topic_id : Nat] /\ Stored'
  <2>1. CASE vectors' = vectors
    BY <1>1, <2>1 DEF IndInv, TypeOK, Stored
  <2>2. CASE SeedSync(s)
    <3>. DEFINE v == [key |-> seeder[s].key, topic_id |-> seeder[s].topic_id]
    <3>1. v \in [key : Topics, topic_id : Nat]
      BY <1>1 DEF Seeder
    <3>2. v.topic_id # 0 /\ v.topic_id = row[v.key]
      BY <2>2 DEF SeedSync, IndInv, Synced
    <3>3. \A u \in vectors' : u \in vectors \/ u = v
      BY <2>2 DEF SeedSync
    <3>. HIDE DEF v
    <3>4. vectors' \subseteq [key : Topics, topic_id : Nat]
      BY <3>1, <3>3 DEF IndInv, TypeOK
    <3>. QED
      BY <1>1, <3>2, <3>3, <3>4 DEF IndInv, Stored
  <2>. QED
    BY <2>1, <2>2 DEF SeedSelect, SeedFails, SeedTopic, tables
<1>6. failures' \in 0..MaxFailures
  <2>1. failures \in 0..MaxFailures /\ MaxFailures \in Nat
    BY DEF IndInv, TypeOK
  <2>2. failures' = failures \/ (failures < MaxFailures /\ failures' = failures + 1)
    BY SeederFailures
  <2>. QED
    BY <2>1, <2>2, CountedOn
<1>7. TypeOK'
  BY <1>1, <1>4, <1>5, <1>6 DEF IndInv, TypeOK
<1>. QED
  BY <1>2, <1>3, <1>4, <1>5, <1>7 DEF IndInv, AllOnTrack, AllInformed

LEMMA SeedInsertKeeps ==
  ASSUME IndInv, NEW s \in Seeders, SeedInsert(s)
  PROVE  IndInv'
<1>. DEFINE key == seeder[s].key
            k == [seeder[s] EXCEPT !.at = "sync", !.topic_id = Inserted(key)]
<1>1. /\ seeder \in [Seeders -> Seeder] /\ seeder[s] \in Seeder /\ key \in Keys
      /\ InsertRow(key) /\ seeder' = [seeder EXCEPT ![s] = k]
      /\ UNCHANGED <<source, writer, reader, finished, failures, edits>>
  BY DEF IndInv, TypeOK, Seeder, SeedInsert
<1>2. /\ TablesGrow /\ RowIds' /\ Stored' /\ uuid' \in Nat /\ row' \in [Keys -> Nat]
      /\ Inserted(key) \in Nat \ {0} /\ row'[key] = Inserted(key)
      /\ document' = document /\ document_topic' = document_topic /\ vectors' = vectors
  BY <1>1, RowInserted
<1>3. AllOnTrack' /\ AllInformed' /\ Finished'
  BY <1>1, <1>2, WritersWait, ReadersWait, FinishedStays DEF Finished
<1>4. k \in Seeder /\ k.topic_id # 0 /\ k.topic_id = row'[k.key]
  BY <1>1, <1>2 DEF Seeder
<1>. HIDE DEF k, key
<1>5. seeder' \in [Seeders -> Seeder]
  BY <1>1, <1>4
<1>6. Synced'
  <2>1. ASSUME NEW r \in Seeders, seeder'[r].at = "sync"
        PROVE  seeder'[r].topic_id # 0 /\ seeder'[r].topic_id = row'[seeder'[r].key]
    <3>1. CASE r = s
      BY <1>1, <1>4, <3>1
    <3>2. CASE r # s
      <4>1. seeder'[r] = seeder[r] /\ seeder[r].key \in Keys
        BY <1>1, <3>2 DEF Seeder
      <4>. QED
        BY <1>2, <2>1, <4>1 DEF IndInv, Synced, TablesGrow, More
    <3>. QED
      BY <3>1, <3>2
  <2>. QED
    BY <2>1 DEF Synced
<1>7. TypeOK'
  BY <1>1, <1>2, <1>5 DEF IndInv, TypeOK
<1>. QED
  BY <1>2, <1>3, <1>6, <1>7 DEF IndInv, AllOnTrack, AllInformed

(* A read: the row with its joins covers what was finished before it, and   *)
(* so do the topics.                                                        *)
LEMMA ReaderKeeps ==
  ASSUME IndInv, NEW r \in Readers,
         ReadTopics(r) \/ ReadFails(r) \/ \E p \in Publications : ReadRow(r, p)
  PROVE  IndInv'
<1>1. /\ reader \in [Readers -> Reader] /\ reader[r] \in Reader
      /\ Informed(reader[r], row, document, document_topic)
      /\ UNCHANGED <<tables, source, writer, seeder, finished, edits>>
  BY DEF IndInv, TypeOK, ReadTopics, ReadFails, ReadRow
<1>2. TablesGrow /\ RowIds' /\ Stored'
  BY <1>1, TablesUnchanged
<1>3. AllOnTrack' /\ Finished' /\ Synced'
  BY <1>1, <1>2, WritersWait, FinishedStays DEF Finished, IndInv, Synced, tables
<1>4. PICK k \in Reader :
        reader' = [reader EXCEPT ![r] = k] /\ Informed(k, row, document, document_topic)
  <2>1. CASE ReadTopics(r)
    <3>. DEFINE me == reader[r]
                k == [me EXCEPT !.at = "done", !.topics = Linked(me.pub)]
    <3>1. /\ reader' = [reader EXCEPT ![r] = k]
          /\ me \in Reader /\ me.due \subseteq Contents /\ me.at = "topics"
          /\ Informed(me, row, document, document_topic)
      BY <1>1, <2>1 DEF ReadTopics, Reader
    <3>. HIDE DEF me
    <3>2. Linked(me.pub) \in SUBSET Topics
      BY DEF Linked
    <3>3. /\ k \in Reader /\ k.at = "done" /\ k.due = me.due /\ k.columns = me.columns
          /\ k.topics = Linked(me.pub)
      BY <3>1, <3>2 DEF Reader
    <3>. HIDE DEF k
    <3>4. ASSUME NEW content \in k.due, NEW i \in DOMAIN content.topic
          PROVE  content.topic[i] \in k.topics
      <4>1. content.topic \in Seq(Topics) /\ DOMAIN content.topic = 1..Len(content.topic)
        BY <3>1, <3>3
      <4>2. content.topic[i] \in Topics
        BY <4>1, SeqElement
      <4>3. row[content.topic[i]] # 0 /\ <<me.pub, row[content.topic[i]]>> \in document_topic
        BY <3>1, <3>3, <4>1 DEF Informed, Links
      <4>. QED
        BY <3>3, <4>2, <4>3 DEF Linked
    <3>5. Informed(k, row, document, document_topic)
      BY <3>1, <3>3, <3>4 DEF Informed
    <3>. QED
      BY <3>1, <3>3, <3>5
  <2>2. CASE ReadFails(r)
    BY <2>2, NotReadingInformed DEF ReadFails
  <2>3. ASSUME NEW p \in Publications, ReadRow(r, p)
        PROVE  \E k \in Reader :
                 reader' = [reader EXCEPT ![r] = k] /\ Informed(k, row, document, document_topic)
    <3>. DEFINE k == [at |-> IF Exists(p) THEN "topics" ELSE "done", pub |-> p,
                      due |-> finished[p], columns |-> Joined(p), topics |-> {}]
    <3>1. /\ reader' = [reader EXCEPT ![r] = k]
          /\ finished[p] \subseteq Contents
          /\ k \in Reader
      BY <2>3 DEF ReadRow, IndInv, TypeOK, Reader, Joined
    <3>2. ASSUME NEW content \in finished[p]
          PROVE  /\ {c \in Columns : content.reference[c] # None} \subseteq Joined(p)
                 /\ Exists(p)
                 /\ Links(p, content, Len(content.topic), row, document_topic)
      <4>1. Covers(content, document[p]) /\ Links(p, content, Len(content.topic), row, document_topic)
        BY DEF IndInv, Finished
      <4>2. document[p][1] # 0
        BY <3>1, <4>1 DEF Covers
      <4>. QED
        BY <4>1, <4>2 DEF Covers, Joined, Exists, NoRow
    <3>3. Informed(k, row, document, document_topic)
      BY <3>2 DEF Informed
    <3>. QED
      BY <3>1, <3>3
  <2>. QED
    BY <2>1, <2>2, <2>3
<1>5. reader' \in [Readers -> Reader] /\ AllInformed'
  <2>1. \A q \in Readers : reader'[q] = IF q = r THEN k ELSE reader[q]
    BY <1>1, <1>4
  <2>. QED
    BY <1>1, <1>4, <2>1 DEF IndInv, AllInformed, tables
<1>6. failures' \in 0..MaxFailures
  <2>1. failures \in 0..MaxFailures /\ MaxFailures \in Nat
    BY DEF IndInv, TypeOK
  <2>2. CASE ReadFails(r)
    BY <2>1, <2>2, CountedOn DEF ReadFails
  <2>3. CASE ~ReadFails(r)
    <3>1. failures' = failures
      BY <2>3 DEF ReadTopics, ReadRow
    <3>. QED
      BY <2>1, <3>1
  <2>. QED
    BY <2>2, <2>3
<1>7. TypeOK'
  BY <1>1, <1>5, <1>6 DEF IndInv, TypeOK, tables
<1>. QED
  BY <1>2, <1>3, <1>5, <1>7 DEF IndInv, AllOnTrack, AllInformed

LEMMA EditKeeps ==
  ASSUME IndInv, NEW p \in Publications, Edit(p)
  PROVE  IndInv'
<1>1. UNCHANGED <<tables, writer, seeder, reader, finished, failures>>
  BY DEF Edit
<1>2. TablesGrow /\ RowIds' /\ Stored'
  BY <1>1, TablesUnchanged
<1>3. AllOnTrack' /\ AllInformed' /\ Finished' /\ Synced'
  BY <1>1, <1>2, WritersWait, ReadersWait, FinishedStays DEF Finished, IndInv, Synced, tables
<1>4. source' \in [Publications -> Contents] /\ edits' \in 0..MaxEdits
  BY DEF Edit, IndInv, TypeOK
<1>5. TypeOK'
  BY <1>1, <1>4 DEF IndInv, TypeOK, tables
<1>. QED
  BY <1>2, <1>3, <1>5 DEF IndInv, AllOnTrack, AllInformed

-----------------------------------------------------------------------------
(* The theorems.                                                            *)
LEMMA InitInvariant == Init => IndInv
<1>. SUFFICES ASSUME Init PROVE IndInv
  OBVIOUS
<1>1. /\ \A w \in Writers : writer[w] = Idle
      /\ \A r \in Readers : reader[r] = NotReading
      /\ \A k \in Keys : row[k] = 0
      /\ \A p \in Publications, c \in Columns : document[p][c] = 0
      /\ \A s \in Seeders : seeder[s].at = "idle"
      /\ document_topic = {} /\ vectors = {} /\ \A p \in Publications : finished[p] = {}
  BY DEF Init, NoRow
<1>2. TypeOK
  <2>1. (CHOOSE k \in Topics : TRUE) \in Topics
    OBVIOUS
  <2>2. [at |-> "idle", key |-> CHOOSE k \in Topics : TRUE, topic_id |-> 0] \in Seeder
    BY <2>1 DEF Seeder
  <2>3. seeder \in [Seeders -> Seeder]
    BY <2>2 DEF Init
  <2>4. document \in [Publications -> [Columns -> Nat]] /\ row \in [Keys -> Nat]
    BY DEF Init, NoRow
  <2>. QED
    BY <2>3, <2>4, IdleOnTrack, NotReadingInformed DEF Init, TypeOK
<1>3. RowIds /\ Stored /\ Synced /\ Finished
  BY <1>1 DEF RowIds, OneRowPerId, Stored, Synced, Finished, Init
<1>. QED
  BY <1>1, <1>2, <1>3, IdleOnTrack, NotReadingInformed DEF IndInv

LEMMA StepInvariant == IndInv /\ [Next]_vars => IndInv'
<1>. SUFFICES ASSUME IndInv, [Next]_vars PROVE IndInv'
  OBVIOUS
<1>1. ASSUME NEW w \in Writers,
             WriterStep(w) \/ WriterFails(w) \/ \E p \in Publications : Begin(w, p)
      PROVE  IndInv'
  BY <1>1, BeginKeeps, SelectKeeps, InsertKeeps, WriteRowKeeps, SelectTopicKeeps,
     InsertTopicKeeps, LinkTopicKeeps, WriterFailsKeeps DEF WriterStep
<1>2. CASE UNCHANGED vars
  <2>1. UNCHANGED <<uuid, row, document, document_topic, vectors, source, writer, seeder, reader,
                    finished, failures, edits>>
    BY <1>2 DEF vars, tables
  <2>2. TypeOK'
    BY <2>1 DEF IndInv, TypeOK
  <2>3. RowIds' /\ Stored' /\ Synced' /\ Finished'
    BY <2>1 DEF IndInv, RowIds, OneRowPerId, Stored, Synced, Finished
  <2>. QED
    BY <2>1, <2>2, <2>3 DEF IndInv
<1>. QED
  BY <1>1, <1>2, SeederKeeps, SeedInsertKeeps, ReaderKeeps, EditKeeps DEF Next

(* The inductive invariant holds in every reachable state.                  *)
THEOREM Invariance == Spec => []IndInv
BY InitInvariant, StepInvariant, PTL DEF Spec

(* The tables and every coroutine keep their types.                         *)
THEOREM TypeCorrect == Spec => []TypeOK
<1>1. IndInv => TypeOK
  BY DEF IndInv
<1>. QED
  BY <1>1, Invariance, PTL

(* An id is the id of the one row it was asked for, wherever it is kept:    *)
(* in a coroutine, in a document, in a link, in the vector store.           *)
THEOREM IdsResolveHolds == Spec => []IdsResolve
<1>1. IndInv => IdsResolve
  BY DEF IndInv, IdsResolve, RowIds, HeldIds, StoredIds, Stored, Truthful, OnTrack
<1>. QED
  BY <1>1, Invariance, PTL

(* A read begun after an upsert had returned sees what it stored.           *)
THEOREM ReadSeesFinishedHolds == Spec => []ReadSeesFinished
<1>1. IndInv => ReadSeesFinished
  BY DEF IndInv, ReadSeesFinished, Informed
<1>. QED
  BY <1>1, Invariance, PTL

-----------------------------------------------------------------------------
(* The refinement.  What the store of DocumentStore is, of tables R, D and L.*)
Key(R, id) == IF id = 0 THEN None ELSE CHOOSE k \in Keys : R[k] = id
Entered(R) == {k \in Keys : R[k] # 0}
Documents(R, D) == [p \in Publications |-> [c \in Columns |-> Key(R, D[p][c])]]
TopicsOf(R, L) == [p \in Publications |-> {k \in Keys : <<p, R[k]>> \in L}]

Bar == <<Entered(row), Documents(row, document), TopicsOf(row, document_topic)>>

LEMMA BarIsStore ==
  /\ Entered(row) = {k \in Keys : row[k] # 0}
  /\ Documents(row, document)
       = [p \in Publications |-> [c \in Columns |-> KeyOf(document[p][c])]]
  /\ TopicsOf(row, document_topic)
       = [p \in Publications |-> {k \in Keys : <<p, row[k]>> \in document_topic}]
BY DEF Entered, Documents, TopicsOf, Key, KeyOf

LEMMA BarIsStoreNext ==
  /\ Entered(row') = {k \in Keys : row'[k] # 0}
  /\ Documents(row', document')
       = [p \in Publications |-> [c \in Columns |-> KeyOf(document[p][c])]]'
  /\ TopicsOf(row', document_topic')
       = [p \in Publications |-> {k \in Keys : <<p, row'[k]>> \in document_topic'}]
BY DEF Entered, Documents, TopicsOf, Key, KeyOf

(* An id stands for the reference whose row it names.                       *)
LEMMA KeyFound ==
  ASSUME RowIds, NEW k \in Keys, row[k] # 0
  PROVE  Key(row, row[k]) = k
BY DEF Key, RowIds, OneRowPerId

(* It stands for the same reference when more rows are inserted.            *)
LEMMA KeyStays ==
  ASSUME IndInv, RowIds', TablesGrow,
         NEW id, id = 0 \/ \E k \in Keys : row[k] = id
  PROVE  Key(row', id) = Key(row, id)
<1>1. CASE id = 0
  BY <1>1 DEF Key
<1>2. CASE id # 0
  <2>1. PICK k \in Keys : row[k] = id /\ row'[k] = id
    BY <1>2 DEF TablesGrow, More
  <2>2. Key(row, id) = k
    BY <1>2, <2>1, KeyFound DEF IndInv
  <2>3. \A l \in Keys : row'[l] = id => l = k
    BY <1>2, <2>1 DEF RowIds, OneRowPerId
  <2>4. Key(row', id) = k
    BY <1>2, <2>1, <2>3 DEF Key
  <2>. QED
    BY <2>2, <2>4
<1>. QED
  BY <1>1, <1>2

(* An INSERT enters its reference and leaves the rest of the store alone.   *)
LEMMA InsertEnters ==
  ASSUME IndInv, NEW k \in Keys, InsertRow(k)
  PROVE  Store!Enter(k)
<1>1. /\ TablesGrow /\ RowIds' /\ row' \in [Keys -> Nat] /\ row'[k] # 0
      /\ document' = document /\ document_topic' = document_topic
  BY RowInserted
<1>2. row \in [Keys -> Nat] /\ \A l \in Keys \ {k} : row'[l] = row[l]
  BY DEF InsertRow, IndInv, TypeOK
<1>3. Entered(row') = Entered(row) \cup {k}
  BY <1>1, <1>2 DEF Entered
<1>4. Documents(row', document') = Documents(row, document)
  <2>1. \A p \in Publications, c \in Columns :
           Key(row', document[p][c]) = Key(row, document[p][c])
    BY <1>1, KeyStays DEF IndInv, Stored
  <2>. QED
    BY <1>1, <2>1 DEF Documents
<1>5. TopicsOf(row', document_topic') = TopicsOf(row, document_topic)
  <2>1. ASSUME NEW p \in Publications, NEW l \in Keys
        PROVE  <<p, row'[l]>> \in document_topic <=> <<p, row[l]>> \in document_topic
    <3>1. CASE row[l] # 0
      BY <1>1, <3>1 DEF TablesGrow, More
    <3>2. CASE row[l] = 0
      <4>1. <<p, row[l]>> \notin document_topic
        BY <3>2 DEF IndInv, Stored
      <4>2. ASSUME <<p, row'[l]>> \in document_topic PROVE FALSE
        <5>1. row'[l] # 0 /\ \E m \in Keys : row[m] = row'[l]
          BY <4>2 DEF IndInv, Stored
        <5>2. PICK m \in Keys : row[m] = row'[l]
          BY <5>1
        <5>3. row'[m] = row'[l]
          BY <1>1, <5>1, <5>2 DEF TablesGrow, More
        <5>4. m = l
          BY <1>1, <5>1, <5>3 DEF RowIds, OneRowPerId
        <5>. QED
          BY <3>2, <5>1, <5>2, <5>4
      <4>. QED
        BY <4>1, <4>2
    <3>. QED
      BY <3>1, <3>2
  <2>. QED
    BY <1>1, <2>1 DEF TopicsOf
<1>. QED
  BY <1>3, <1>4, <1>5 DEF Store!Enter, Entered, Documents, TopicsOf, Key, KeyOf

(* The UPSERT of a document writes references that are entered, and where   *)
(* there was one leaves one.                                                *)
LEMMA RowWrites ==
  ASSUME IndInv, IndInv', NEW w \in Writers, WriteRow(w)
  PROVE  Store!Write(writer[w].pub)
<1>. DEFINE pub == writer[w].pub
<1>1. /\ document' = [document EXCEPT ![pub] = Coalesced(writer[w].id, @)]
      /\ row' = row /\ document_topic' = document_topic
  BY DEF WriteRow
<1>2. pub \in Publications /\ document \in [Publications -> [Columns -> Nat]]
  BY DEF IndInv, TypeOK, Writer
<1>. HIDE DEF pub
<1>3. ASSUME NEW c \in Columns
      PROVE  /\ Key(row, document'[pub][c]) \in Entered(row) \cup {None}
             /\ Key(row, document[pub][c]) # None => Key(row, document'[pub][c]) # None
  <2>1. document'[pub][c] = 0 \/ \E k \in Keys : row[k] = document'[pub][c]
    BY <1>1, <1>2 DEF IndInv, Stored
  <2>2. CASE document'[pub][c] = 0
    <3>1. document[pub][c] = 0
      BY <1>1, <1>2, <2>2 DEF Coalesced
    <3>. QED
      BY <2>2, <3>1 DEF Key
  <2>3. CASE document'[pub][c] # 0
    <3>1. PICK k \in Keys : row[k] = document'[pub][c]
      BY <2>1, <2>3
    <3>2. Key(row, document'[pub][c]) = k
      BY <2>3, <3>1, KeyFound DEF IndInv
    <3>. QED
      BY <2>3, <3>1, <3>2 DEF Entered
  <2>. QED
    BY <2>2, <2>3
<1>4. \A q \in Publications \ {pub} : document'[q] = document[q]
  BY <1>1, <1>2
<1>. DEFINE old == Documents(row, document)
            new == Documents(row, document')
<1>5. \A c \in Columns : /\ new[pub][c] \in Entered(row) \cup {None}
                         /\ old[pub][c] # None => new[pub][c] # None
  BY <1>2, <1>3 DEF Documents
<1>6. \A q \in Publications \ {pub} : new[q] = old[q]
  BY <1>4 DEF Documents
<1>7. new = Documents(row', document') /\ Entered(row') = Entered(row)
      /\ TopicsOf(row', document_topic') = TopicsOf(row, document_topic)
  BY <1>1
<1>. HIDE DEF old, new
<1>8. Store!Write(pub)
  BY <1>5, <1>6, <1>7, BarIsStore, BarIsStoreNext, Zenon
     DEF Store!Write, Store!Columns, Bar, old
<1>. QED
  BY <1>8 DEF pub

LEMMA LinkLinks ==
  ASSUME IndInv, NEW w \in Writers, LinkTopic(w),
         NEW pub, pub = writer[w].pub, NEW topic, topic = TopicOf(writer[w])
  PROVE  Store!Link(pub, topic)
<1>1. /\ writer[w].at = "link" /\ writer[w] \in Writer
      /\ OnTrack(writer[w], row, document, document_topic)
      /\ row \in [Keys -> Nat] /\ document \in [Publications -> [Columns -> Nat]]
      /\ document_topic' = document_topic \cup {<<pub, writer[w].topic_id>>}
      /\ row' = row /\ document' = document
  <2>1. /\ writer \in [Writers -> Writer] /\ OnTrack(writer[w], row, document, document_topic)
        /\ row \in [Keys -> Nat] /\ document \in [Publications -> [Columns -> Nat]]
    BY DEF IndInv, TypeOK
  <2>2. writer[w] \in Writer
    BY <2>1
  <2>3. writer[w].at = "link" /\ row' = row /\ document' = document
    BY DEF LinkTopic
  <2>4. LET me == [writer[w] EXCEPT !.topic = @ + 1]
        IN  me.pub = pub /\ me.topic_id = writer[w].topic_id
    BY <2>2 DEF Writer
  <2>5. document_topic' = document_topic \cup {<<pub, writer[w].topic_id>>}
    BY <2>4 DEF LinkTopic
  <2>. QED
    BY <2>1, <2>2, <2>3, <2>5
<1>2. topic \in Keys /\ row[topic] # 0 /\ writer[w].topic_id = row[topic]
  BY <1>1, TopicKnown DEF OnTrack
<1>3. pub \in Publications /\ document[pub][1] # 0
  <2>1. writer[w].content \in Contents /\ pub \in Publications
    BY <1>1 DEF Writer
  <2>2. writer[w].content.reference[1] # None
    BY <2>1
  <2>3. Covers(writer[w].content, document[pub])
    BY <1>1 DEF OnTrack
  <2>. QED
    BY <2>1, <2>2, <2>3 DEF Covers
<1>4. topic \in Entered(row)
  BY <1>2 DEF Entered
<1>5. Documents(row, document)[pub] # Store!NoRow
  <2>1. PICK k \in Keys : row[k] = document[pub][1]
    BY <1>3 DEF IndInv, Stored
  <2>2. Key(row, document[pub][1]) = k
    BY <1>3, <2>1, KeyFound DEF IndInv
  <2>3. Documents(row, document)[pub][1] = k /\ k # None
    BY <1>3, <2>2 DEF Documents
  <2>4. Store!NoRow[1] = None
    BY DEF Store!NoRow, Store!Columns
  <2>. QED
    BY <2>3, <2>4
<1>6. TopicsOf(row, document_topic')
        = [TopicsOf(row, document_topic) EXCEPT ![pub] = @ \cup {topic}]
  <2>1. ASSUME NEW p \in Publications, NEW k \in Keys
        PROVE  <<p, row[k]>> \in document_topic'
                 <=> <<p, row[k]>> \in document_topic \/ (p = pub /\ k = topic)
    BY <1>1, <1>2 DEF IndInv, RowIds, OneRowPerId
  <2>. DEFINE S(p) == {k \in Keys : <<p, row[k]>> \in document_topic}
              T(p) == {k \in Keys : <<p, row[k]>> \in document_topic'}
  <2>2. T(pub) = S(pub) \cup {topic} /\ \A p \in Publications \ {pub} : T(p) = S(p)
    BY <1>2, <1>3, <2>1
  <2>. HIDE DEF S, T
  <2>3. [p \in Publications |-> T(p)]
          = [[p \in Publications |-> S(p)] EXCEPT ![pub] = S(pub) \cup {topic}]
    BY <1>3, <2>2
  <2>. QED
    BY <1>3, <2>3 DEF TopicsOf, S, T
<1>7. Entered(row') = Entered(row) /\ Documents(row', document') = Documents(row, document)
  BY <1>1
<1>8. TopicsOf(row', document_topic')
        = [TopicsOf(row, document_topic) EXCEPT ![pub] = @ \cup {topic}]
  BY <1>1, <1>6
<1>. QED
  BY <1>4, <1>5, <1>7, <1>8, BarIsStore, BarIsStoreNext DEF Store!Link

(* The tables of PostgreSQL implement the abstract store: each statement    *)
(* enters a reference, writes a document, links a topic, or changes nothing *)
(* that DocumentStore knows of.                                             *)
THEOREM Refinement == Spec => ImplementsStore
<1>1. Init => Store!Init
  BY DEF Init, Store!Init, Store!NoRow, Store!Columns, KeyOf, NoRow
<1>2. IndInv /\ IndInv' /\ [Next]_vars => [Store!Next]_Store!vars
  <2>. SUFFICES ASSUME IndInv, IndInv', [Next]_vars PROVE Store!Next \/ Bar' = Bar
    BY DEF Bar, Store!vars, Entered, Documents, TopicsOf, Key, KeyOf
  <2>1. ASSUME NEW k \in Keys, InsertRow(k) PROVE Store!Next
    BY <2>1, InsertEnters DEF Store!Next
  <2>2. CASE row' = row /\ document' = document /\ document_topic' = document_topic
    BY <2>2 DEF Bar
  <2>3. ASSUME NEW w \in Writers, WriterStep(w) PROVE Store!Next \/ Bar' = Bar
    <3>1. CASE Insert(w)
      <4>1. writer[w] \in Writer /\ Referenced(writer[w]) \in Keys
        <5>1. /\ writer[w] \in Writer /\ writer[w].at = "insert"
              /\ OnTrack(writer[w], row, document, document_topic)
          BY <3>1 DEF IndInv, TypeOK, Insert
        <5>2. writer[w].content \in Contents
          BY <5>1 DEF Writer
        <5>. QED
          BY <5>1, <5>2 DEF OnTrack, Referenced
      <4>. QED
        BY <2>1, <3>1, <4>1 DEF Insert
    <3>2. CASE InsertTopic(w)
      BY <2>1, <3>2, TopicKnown DEF InsertTopic
    <3>3. CASE WriteRow(w)
      <4>1. writer[w].pub \in Publications
        BY DEF IndInv, TypeOK, Writer
      <4>. QED
        BY <3>3, <4>1, RowWrites DEF Store!Next
    <3>4. CASE LinkTopic(w)
      <4>1. PICK pub \in Publications, topic \in Keys :
              pub = writer[w].pub /\ topic = TopicOf(writer[w])
        BY <3>4, TopicKnown DEF IndInv, TypeOK, Writer, LinkTopic
      <4>2. Store!Link(pub, topic)
        BY <3>4, <4>1, LinkLinks
      <4>. QED
        BY <4>2 DEF Store!Next
    <3>5. CASE Select(w) \/ SelectTopic(w)
      BY <2>2, <3>5 DEF Select, SelectTopic, tables
    <3>. QED
      BY <2>3, <3>1, <3>2, <3>3, <3>4, <3>5 DEF WriterStep
  <2>4. ASSUME NEW s \in Seeders, SeedInsert(s) PROVE Store!Next
    BY <2>1, <2>4 DEF SeedInsert, IndInv, TypeOK, Seeder
  <2>. QED
    BY <2>2, <2>3, <2>4 DEF Next, WriterFails, Begin, SeedTopic, SeedSelect, SeedSync, SeedFails,
       ReadRow, ReadTopics, ReadFails, Edit, tables, vars
<1>. QED
  BY <1>1, <1>2, Invariance, PTL DEF Spec, ImplementsStore, Store!Spec

=============================================================================
