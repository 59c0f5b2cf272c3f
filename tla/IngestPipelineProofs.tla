----------------------- MODULE IngestPipelineProofs -----------------------
(***************************************************************************)
(* Proofs about IngestPipeline, for every number of workers, documents,    *)
(* sections and versions: what Qdrant says of PostgreSQL is true, whatever *)
(* runs concurrently, fails or crashes.  At the end, proofs about          *)
(* YandexVision, for every number of documents, pages, tokens and retries. *)
(***************************************************************************)
EXTENDS MCIngestOcr, TLAPS

USE IngestAssumption DEF IngestAssumption, NoId

-----------------------------------------------------------------------------
(* The inductive invariant.                                                *)

(* Table R has a row of document d, external id e, with id i. *)
Has(R, d, e, i) == \E r \in R : r.doc = d /\ r.ext = e /\ r.id = i

UniqueIds == \A q, r \in rows : q.id = r.id => q = r

(* What a worker remembers of the table is true, and while it persists the *)
(* sections, each is mapped or still to come.                              *)
Sound(k, R) ==
  /\ k.pc = "write" /\ k.existing # NoId => Has(R, k.doc, Head(k.queue), k.existing)
  /\ \A e \in Sections : k.section_map[e] # NoId => Has(R, k.doc, e, k.section_map[e])
  /\ k.pc \in {"select", "write"} =>
       /\ k.queue # <<>>
       /\ \A e \in Range(Toc[k.version]) : k.section_map[e] # NoId \/ e \in Range(k.queue)
  /\ k.pc \notin {"select", "write", "upsert"} => k.section_map = NoMap
  /\ k.pc = "upsert" =>
       \/ k.section_map = NoMap
       \/ \A e \in Range(Toc[k.version]) : k.section_map[e] # NoId

LinksHold(P, R) ==
  \A p \in P : p.section_uuids # NoMap =>
    \A e \in Path(p.sec) : Has(R, p.doc, e, p.section_uuids[e])

IndInv ==
  /\ TypeOK
  /\ UniqueIds
  /\ \A w \in Workers : Sound(worker[w], rows)
  /\ LinksHold(points, rows)

-----------------------------------------------------------------------------
(* Lemmas.                                                                 *)

(* The default record of a worker is one, and remembers nothing. *)
LEMMA FreshSound == Fresh \in Worker /\ \A R : Sound(Fresh, R)
<1>1. NoMap \in SectionMap /\ \A e \in Sections : NoMap[e] = NoId
  BY DEF NoMap, SectionMap, Id
<1>2. (CHOOSE d \in Docs : TRUE) \in Docs
  OBVIOUS
<1>3. 1 \in Version /\ NoId \in Id
  BY DEF Version, Id
<1>4. Fresh \in Worker
  BY <1>1, <1>2, <1>3 DEF Fresh, Worker
<1>. QED
  BY <1>1, <1>4 DEF Fresh, Sound

(* What a table has, a table with more rows has. *)
LEMMA SoundGrows ==
  ASSUME NEW k, NEW R, NEW S, Sound(k, R),
         \A d, e, i : Has(R, d, e, i) => Has(S, d, e, i)
  PROVE  Sound(k, S)
BY DEF Sound

LEMMA LinksGrow ==
  ASSUME NEW P, NEW R, NEW S, LinksHold(P, R),
         \A d, e, i : Has(R, d, e, i) => Has(S, d, e, i)
  PROVE  LinksHold(P, S)
BY DEF LinksHold

(* What comes after the head of a queue. *)
LEMMA RangeTail ==
  ASSUME NEW q \in Seq(Sections), q # <<>>
  PROVE  /\ Head(q) \in Sections
         /\ Tail(q) \in Seq(Sections)
         /\ \A e \in Range(q) : e = Head(q) \/ e \in Range(Tail(q))
<1>1. Head(q) \in Sections /\ Tail(q) \in Seq(Sections)
  OBVIOUS
<1>2. ASSUME NEW e \in Range(q), e # Head(q)
      PROVE  e \in Range(Tail(q))
  <2>1. PICK i \in 1 .. Len(q) : q[i] = e
    BY DEF Range
  <2>2. i # 1
    BY <2>1, <1>2
  <2>3. i - 1 \in 1 .. Len(Tail(q)) /\ Tail(q)[i - 1] = q[i]
    BY <2>1, <2>2
  <2>4. DOMAIN Tail(q) = 1 .. Len(Tail(q))
    BY <1>1
  <2>. QED
    BY <2>1, <2>3, <2>4 DEF Range
<1>. QED
  BY <1>1, <1>2

(* A table of contents lists known sections. *)
LEMMA TocTyped ==
  ASSUME NEW v \in Version
  PROVE  Toc[v] \in Seq(Sections) /\ Range(Toc[v]) \subseteq Sections
<1>1. Toc[v] \in Seq(Sections)
  BY DEF Version
<1>. QED
  BY <1>1 DEF Range

(* The points a worker writes carry true links. *)
LEMMA NewPointsSound ==
  ASSUME NEW k \in Worker, NEW R, Sound(k, R), k.pc = "upsert"
  PROVE  /\ NewPoints(k.doc, k.version, k.section_map) \subseteq Point
         /\ LinksHold(NewPoints(k.doc, k.version, k.section_map), R)
<1>. DEFINE map == k.section_map
            v == k.version
<1>1. v \in Version /\ map \in SectionMap /\ k.doc \in Docs
  BY DEF Worker
<1>2. Range(Toc[v]) \subseteq Sections
  BY <1>1, TocTyped
<1>3. ASSUME NEW e \in Sections
      PROVE  Links(map, e) \in SectionMap
  BY <1>1 DEF Links, SectionMap, Id
<1>4. NewPoints(k.doc, v, map) \subseteq Point
  BY <1>1, <1>2, <1>3 DEF NewPoints, Point
<1>5. ASSUME NEW p \in NewPoints(k.doc, v, map), p.section_uuids # NoMap,
             NEW a \in Path(p.sec)
      PROVE  Has(R, p.doc, a, p.section_uuids[a])
  <2>1. PICK e \in Range(Toc[v]) :
          p = [doc |-> k.doc, sec |-> e, version |-> v, section_uuids |-> Links(map, e)]
    BY DEF NewPoints
  <2>2. map # NoMap
    <3>1. map = NoMap => Links(map, e) = NoMap
      BY DEF Links, NoMap
    <3>. QED
      BY <3>1, <2>1, <1>5
  <2>3. a \in Range(Toc[v]) /\ a \in Sections
    <3>1. Path(e) \subseteq Range(Toc[v])
      BY <1>1, <2>1, TocAssumption DEF TocAssumption, Version
    <3>. QED
      BY <3>1, <2>1, <1>2, <1>5
  <2>4. map[a] # NoId
    BY <2>2, <2>3 DEF Sound
  <2>5. Has(R, k.doc, a, map[a])
    BY <2>3, <2>4 DEF Sound
  <2>6. p.section_uuids[a] = map[a]
    BY <2>1, <2>3, <1>5 DEF Links
  <2>. QED
    BY <2>1, <2>5, <2>6
<1>. QED
  BY <1>4, <1>5 DEF LinksHold

LEMMA StoreSound ==
  ASSUME NEW k \in Worker, Sound(k, rows), k.pc = "upsert",
         points \subseteq Point, LinksHold(points, rows)
  PROVE  /\ Store(k.doc, k.version, k.section_map) \subseteq Point
         /\ LinksHold(Store(k.doc, k.version, k.section_map), rows)
BY NewPointsSound DEF Store, LinksHold

(* The table after a write: still well formed, it has all it had and the   *)
(* section just written.                                                   *)
LEMMA WrittenSound ==
  ASSUME NEW w \in Workers, IndInv, worker[w].pc = "write", Writable(w)
  PROVE  /\ WrittenId(w) \in RowIds
         /\ Written(w) \subseteq Row
         /\ \A q, r \in Written(w) : q.id = r.id => q = r
         /\ \A d, e, i : Has(rows, d, e, i) => Has(Written(w), d, e, i)
         /\ Has(Written(w), Doc(w), Section(w), WrittenId(w))
<1>. DEFINE new == [id |-> WrittenId(w), doc |-> Doc(w), ext |-> Section(w),
                    parent |-> ParentId(Doc(w), Section(w))]
<1>1. worker[w] \in Worker /\ rows \subseteq Row
  BY DEF IndInv, TypeOK
<1>2. Doc(w) \in Docs /\ worker[w].existing \in Id
  BY <1>1 DEF Worker, Doc
<1>3. Section(w) \in Sections
  <2>1. worker[w].queue \in Seq(Sections) /\ worker[w].queue # <<>>
    BY <1>1 DEF IndInv, Sound, Worker
  <2>. QED
    BY <2>1, RangeTail DEF Section
<1>4. /\ WrittenId(w) \in RowIds
      /\ \A r \in rows : r.id = WrittenId(w) => r.doc = Doc(w) /\ r.ext = Section(w)
  <2>1. CASE worker[w].existing # NoId
    <3>1. WrittenId(w) = worker[w].existing /\ worker[w].existing \in RowIds
      BY <2>1, <1>2 DEF WrittenId, Id
    <3>2. Has(rows, Doc(w), Section(w), worker[w].existing)
      BY <2>1 DEF IndInv, Sound, Doc, Section
    <3>. QED
      BY <3>1, <3>2 DEF Has, IndInv, UniqueIds
  <2>2. CASE worker[w].existing = NoId
    <3>1. NextId \in Unused
      BY <2>2 DEF Writable, NextId, Unused
    <3>. QED
      BY <3>1, <2>2 DEF WrittenId, Unused
  <2>. QED
    BY <2>1, <2>2
<1>5. ParentId(Doc(w), Section(w)) \in Id
  <2>1. Parents(Doc(w), Section(w)) \subseteq RowIds
    BY <1>1 DEF Parents, RowsOf, Row
  <2>. QED
    BY <2>1 DEF ParentId, Id
<1>6. new \in Row
  BY <1>2, <1>3, <1>4, <1>5 DEF Row
<1>7. Written(w) = {r \in rows : r.id # WrittenId(w)} \cup {new}
  BY DEF Written
<1>8. \A q, r \in Written(w) : q.id = r.id => q = r
  BY <1>7 DEF IndInv, UniqueIds
<1>9. Has(Written(w), Doc(w), Section(w), WrittenId(w))
  <2>1. new \in Written(w)
    BY <1>7
  <2>2. new.doc = Doc(w) /\ new.ext = Section(w) /\ new.id = WrittenId(w)
    OBVIOUS
  <2>. QED
    BY <2>1, <2>2 DEF Has
<1>10. ASSUME NEW d, NEW e, NEW i, Has(rows, d, e, i)
       PROVE  Has(Written(w), d, e, i)
  <2>1. PICK r \in rows : r.doc = d /\ r.ext = e /\ r.id = i
    BY <1>10 DEF Has
  <2>2. CASE i = WrittenId(w)
    BY <2>1, <2>2, <1>4, <1>9
  <2>3. CASE i # WrittenId(w)
    BY <2>1, <2>3, <1>7 DEF Has
  <2>. QED
    BY <2>2, <2>3
<1>. QED
  BY <1>1, <1>4, <1>6, <1>7, <1>8, <1>9, <1>10

-----------------------------------------------------------------------------
(* Invariance.                                                             *)

(* It is enough to look at the worker that moved. *)
LEMMA OneWorker ==
  ASSUME IndInv, NEW w \in Workers, NEW k \in Worker,
         worker' = [worker EXCEPT ![w] = k],
         source' \in [Docs -> Version], faulty' \in BOOLEAN, document' \subseteq Docs,
         rows' \subseteq Row, points' \subseteq Point, UniqueIds',
         \A d, e, i : Has(rows, d, e, i) => Has(rows', d, e, i),
         Sound(k, rows'), LinksHold(points', rows')
  PROVE  IndInv'
<1>1. TypeOK'
  BY DEF IndInv, TypeOK
<1>2. ASSUME NEW v \in Workers PROVE Sound(worker'[v], rows')
  <2>1. CASE v = w
    BY <2>1 DEF IndInv, TypeOK
  <2>2. CASE v # w
    BY <2>2, SoundGrows DEF IndInv, TypeOK
  <2>. QED
    BY <2>1, <2>2
<1>. QED
  BY <1>1, <1>2 DEF IndInv

(* The same when the stores are left alone. *)
LEMMA QuietWorker ==
  ASSUME IndInv, NEW w \in Workers, NEW k \in Worker,
         worker' = [worker EXCEPT ![w] = k], UNCHANGED <<source, faulty, stores>>,
         Sound(k, rows)
  PROVE  IndInv'
<1>1. UniqueIds'
  BY DEF IndInv, UniqueIds, stores
<1>2. \A d, e, i : Has(rows, d, e, i) => Has(rows', d, e, i)
  BY DEF stores
<1>3. /\ source' \in [Docs -> Version] /\ faulty' \in BOOLEAN /\ document' \subseteq Docs
      /\ rows' \subseteq Row /\ points' \subseteq Point
      /\ Sound(k, rows') /\ LinksHold(points', rows')
  BY DEF stores, IndInv, TypeOK
<1>. QED
  BY <1>1, <1>2, <1>3, OneWorker

(* A finished item leaves a sound worker. *)
LEMMA ItemDoneSound ==
  ASSUME IndInv, NEW w \in Workers, ItemDone(w)
  PROVE  \E k \in Worker : worker' = [worker EXCEPT ![w] = k] /\ \A R : Sound(k, R)
<1>. DEFINE k == [Fresh EXCEPT !.pc = "item", !.bound = TRUE, !.todo = worker[w].todo]
<1>1. worker[w] \in Worker
  BY DEF IndInv, TypeOK
<1>2. k \in Worker
  BY <1>1, FreshSound DEF Worker
<1>3. \A R : Sound(k, R)
  BY FreshSound DEF Sound, Fresh, Worker
<1>. QED
  BY <1>2, <1>3 DEF ItemDone

LEMMA StartRunInv ==
  ASSUME IndInv, NEW w \in Workers, StartRun(w)
  PROVE  IndInv'
<1>1. PICK listing \in SUBSET Docs :
        worker' = [worker EXCEPT ![w] = [Fresh EXCEPT !.pc = "item", !.todo = listing]]
  BY DEF StartRun
<1>. DEFINE k == [Fresh EXCEPT !.pc = "item", !.todo = listing]
<1>2. k \in Worker /\ Sound(k, rows)
  BY FreshSound DEF Worker, Sound, Fresh
<1>. QED
  BY <1>1, <1>2, QuietWorker DEF StartRun

(* Moving on to pc, between the places that rely on what is remembered. *)
LEMMA ItemInv ==
  ASSUME IndInv, NEW w \in Workers, NEW d \in Docs,
         NextItem(w, d) \/ ParseFails(w, d) \/ EndRun(w) \/ Crash(w)
  PROVE  IndInv'
<1>1. worker[w] \in Worker /\ worker \in [Workers -> Worker] /\ Sound(worker[w], rows)
  BY DEF IndInv, TypeOK
<1>2. CASE NextItem(w, d)
  <2>. DEFINE k == [worker[w] EXCEPT !.pc = "persist", !.doc = d, !.bound = TRUE,
                                     !.todo = @ \ {d}]
  <2>1. worker' = [worker EXCEPT ![w] = k] /\ k \in Worker
    BY <1>1, <1>2 DEF NextItem, Worker
  <2>2. worker[w].section_map = NoMap
    BY <1>1, <1>2 DEF NextItem, Sound
  <2>3. k.section_map = worker[w].section_map /\ k.pc = "persist"
    BY <1>1 DEF Worker
  <2>4. Sound(k, rows)
    BY <2>2, <2>3 DEF Sound, NoMap
  <2>. QED
    BY <2>1, <2>4, <1>2, QuietWorker DEF NextItem
<1>3. CASE ParseFails(w, d)
  <2>. DEFINE k == [worker[w] EXCEPT
                      !.todo = IF worker[w].bound THEN @ \ {d} ELSE {},
                      !.pc = IF worker[w].bound THEN @ ELSE "idle"]
  <2>1. worker' = [worker EXCEPT ![w] = k] /\ k \in Worker
    BY <1>1, <1>3 DEF ParseFails, Worker
  <2>2. worker[w].section_map = NoMap
    BY <1>1, <1>3 DEF ParseFails, Sound
  <2>3. k.section_map = worker[w].section_map /\ k.pc \in {"item", "idle"}
    BY <1>1, <1>3 DEF Worker, ParseFails
  <2>4. Sound(k, rows)
    BY <2>2, <2>3 DEF Sound, NoMap
  <2>. QED
    BY <2>1, <2>4, <1>3, QuietWorker DEF ParseFails
<1>4. CASE EndRun(w)
  <2>. DEFINE k == [worker[w] EXCEPT !.pc = "idle"]
  <2>1. worker' = [worker EXCEPT ![w] = k] /\ k \in Worker
    BY <1>1, <1>4 DEF EndRun, Goto, Worker
  <2>2. worker[w].section_map = NoMap
    BY <1>1, <1>4 DEF EndRun, Sound
  <2>3. k.section_map = worker[w].section_map /\ k.pc = "idle"
    BY <1>1 DEF Worker
  <2>4. Sound(k, rows)
    BY <2>2, <2>3 DEF Sound, NoMap
  <2>. QED
    BY <2>1, <2>4, <1>4, QuietWorker DEF EndRun
<1>5. CASE Crash(w)
  BY <1>5, FreshSound, QuietWorker DEF Crash
<1>. QED
  BY <1>2, <1>3, <1>4, <1>5

(* Persisting the document and fetching its text. *)
LEMMA ContentInv ==
  ASSUME IndInv, NEW w \in Workers, Persist(w) \/ FetchText(w)
  PROVE  IndInv'
<1>1. /\ worker[w] \in Worker /\ worker \in [Workers -> Worker]
      /\ Sound(worker[w], rows) /\ worker[w].doc \in Docs
  BY DEF IndInv, TypeOK, Worker
<1>2. CASE Persist(w)
  <2>. DEFINE k == [worker[w] EXCEPT !.pc = "content"]
  <2>1. worker' = [worker EXCEPT ![w] = k] /\ k \in Worker
    BY <1>1, <1>2 DEF Persist, Goto, Worker
  <2>2. worker[w].section_map = NoMap
    BY <1>1, <1>2 DEF Persist, Sound
  <2>3. k.section_map = worker[w].section_map /\ k.pc = "content"
    BY <1>1 DEF Worker
  <2>4. Sound(k, rows)
    BY <2>2, <2>3 DEF Sound, NoMap
  <2>5. /\ document' \subseteq Docs
        /\ source' \in [Docs -> Version] /\ faulty' \in BOOLEAN
        /\ rows' = rows /\ points' = points /\ rows \subseteq Row /\ points \subseteq Point
    BY <1>1, <1>2 DEF Persist, IndInv, TypeOK
  <2>6. UniqueIds' /\ LinksHold(points', rows')
    BY <2>5 DEF IndInv, UniqueIds
  <2>. QED
    BY <2>1, <2>4, <2>5, <2>6, OneWorker
<1>3. CASE FetchText(w)
  <2>. DEFINE v == source[worker[w].doc]
              k == [worker[w] EXCEPT !.version = v, !.queue = Toc[v], !.section_map = NoMap,
                      !.pc = IF WithDb /\ Toc[v] # <<>> THEN "select" ELSE "upsert"]
  <2>1. v \in Version /\ Toc[v] \in Seq(Sections) /\ NoMap \in SectionMap
    <3>1. v \in Version
      BY <1>1 DEF IndInv, TypeOK
    <3>. QED
      BY <3>1, TocTyped DEF NoMap, SectionMap, Id
  <2>2. worker' = [worker EXCEPT ![w] = k] /\ k \in Worker
    BY <1>1, <1>3, <2>1 DEF FetchText, Worker
  <2>3. /\ k.version = v /\ k.queue = Toc[v] /\ k.section_map = NoMap
        /\ k.pc = IF WithDb /\ Toc[v] # <<>> THEN "select" ELSE "upsert"
    BY <1>1 DEF Worker
  <2>4. Sound(k, rows)
    BY <2>3 DEF Sound, NoMap
  <2>. QED
    BY <2>2, <2>4, <1>3, QuietWorker DEF FetchText
<1>. QED
  BY <1>2, <1>3

(* An item that ends, indexed or not, leaves a sound worker. *)
LEMMA ItemDoneInv ==
  ASSUME IndInv, NEW w \in Workers, EmptyText(w) \/ ItemFails(w) \/ Upsert(w)
  PROVE  IndInv'
<1>1. /\ worker[w] \in Worker /\ Sound(worker[w], rows) /\ worker[w].doc \in Docs
      /\ source \in [Docs -> Version] /\ faulty \in BOOLEAN /\ document \subseteq Docs
      /\ rows \subseteq Row /\ points \subseteq Point
  BY DEF IndInv, TypeOK, Worker
<1>2. PICK k \in Worker : worker' = [worker EXCEPT ![w] = k] /\ \A R : Sound(k, R)
  <2>1. ItemDone(w)
    BY DEF EmptyText, ItemFails, Upsert
  <2>. QED
    BY <1>1, <2>1, ItemDoneSound
<1>3. rows' = rows /\ source' = source /\ faulty' = faulty
  BY DEF EmptyText, ItemFails, Upsert, stores
<1>4. document' \subseteq Docs
  BY <1>1 DEF EmptyText, ItemFails, Upsert, stores
<1>5. \/ points' = points
      \/ /\ worker[w].pc = "upsert"
         /\ points' = Store(worker[w].doc, worker[w].version, worker[w].section_map)
  BY DEF EmptyText, ItemFails, Upsert, stores, Doc
<1>6. points' \subseteq Point /\ LinksHold(points', rows)
  BY <1>1, <1>5, StoreSound DEF IndInv
<1>7. UniqueIds' /\ \A d, e, i : Has(rows, d, e, i) => Has(rows', d, e, i)
  BY <1>3 DEF IndInv, UniqueIds
<1>. QED
  BY <1>1, <1>2, <1>3, <1>4, <1>6, <1>7, OneWorker

(* The SELECT finds a row that is there. *)
LEMMA SelectInv ==
  ASSUME IndInv, NEW w \in Workers, SelectSection(w)
  PROVE  IndInv'
<1>1. /\ worker[w] \in Worker /\ worker \in [Workers -> Worker]
      /\ Sound(worker[w], rows) /\ rows \subseteq Row
  BY DEF IndInv, TypeOK
<1>. DEFINE found == {r.id : r \in RowsOf(Doc(w), Section(w))}
<1>2. PICK id \in IF found = {} THEN {NoId} ELSE found :
        worker' = [worker EXCEPT ![w].pc = "write", ![w].existing = id]
  BY DEF SelectSection
<1>3. id \in Id /\ (id # NoId => Has(rows, Doc(w), Section(w), id))
  <2>1. CASE id = NoId
    BY <2>1 DEF Id
  <2>2. CASE id # NoId
    <3>1. PICK r \in RowsOf(Doc(w), Section(w)) : r.id = id
      BY <1>2, <2>2
    <3>2. r \in rows /\ r.doc = Doc(w) /\ r.ext = Section(w)
      BY DEF RowsOf
    <3>. QED
      BY <3>1, <3>2, <1>1 DEF Has, Id, Row
  <2>. QED
    BY <2>1, <2>2
<1>. DEFINE k == [worker[w] EXCEPT !.pc = "write", !.existing = id]
<1>4. worker' = [worker EXCEPT ![w] = k] /\ k \in Worker
  BY <1>1, <1>2, <1>3 DEF Worker
<1>5. /\ k.pc = "write" /\ k.existing = id /\ k.doc = Doc(w) /\ k.queue = worker[w].queue
      /\ k.version = worker[w].version /\ k.section_map = worker[w].section_map
      /\ Head(k.queue) = Section(w)
  BY <1>1 DEF Worker, Doc, Section
<1>6. worker[w].pc = "select"
  BY DEF SelectSection
<1>. HIDE DEF k
<1>7. Sound(k, rows)
  BY <1>1, <1>3, <1>5, <1>6 DEF Sound, Doc
<1>. QED
  BY <1>4, <1>7, QuietWorker DEF SelectSection

(* The row written is remembered; the sections before it still are. *)
LEMMA WriteInv ==
  ASSUME IndInv, NEW w \in Workers, WriteSection(w)
  PROVE  IndInv'
<1>1. /\ worker[w] \in Worker /\ worker \in [Workers -> Worker]
      /\ Sound(worker[w], rows) /\ rows \subseteq Row
      /\ source \in [Docs -> Version] /\ faulty \in BOOLEAN /\ document \subseteq Docs
      /\ points \subseteq Point
  BY DEF IndInv, TypeOK
<1>. DEFINE q == worker[w].queue
            m == [worker[w].section_map EXCEPT ![Section(w)] = WrittenId(w)]
            pc == IF Tail(q) = <<>> THEN "upsert" ELSE "select"
            k == [worker[w] EXCEPT !.queue = Tail(q), !.existing = NoId,
                                   !.section_map = m, !.pc = pc]
<1>2. /\ worker[w].pc = "write" /\ Writable(w) /\ rows' = Written(w)
      /\ source' = source /\ faulty' = faulty /\ document' = document /\ points' = points
  BY DEF WriteSection
<1>3. /\ WrittenId(w) \in RowIds /\ rows' \subseteq Row /\ UniqueIds'
      /\ \A d, e, i : Has(rows, d, e, i) => Has(rows', d, e, i)
      /\ Has(rows', Doc(w), Section(w), WrittenId(w))
  BY <1>2, WrittenSound DEF UniqueIds
<1>4. q \in Seq(Sections) /\ q # <<>>
  BY <1>1, <1>2 DEF Worker, Sound
<1>5. /\ Section(w) \in Sections /\ Tail(q) \in Seq(Sections)
      /\ \A e \in Range(q) : e = Section(w) \/ e \in Range(Tail(q))
  BY <1>4, RangeTail DEF Section
<1>6. worker[w].section_map \in [Sections -> Id]
  BY <1>1 DEF Worker, SectionMap
<1>7. m \in SectionMap
  BY <1>3, <1>6 DEF SectionMap, Id
<1>8. worker' = [worker EXCEPT ![w] = k]
  BY <1>1, <1>2 DEF WriteSection, Worker
<1>9. NoId \in Id /\ pc \in {"select", "upsert"}
  BY DEF Id
<1>10. k \in Worker
  BY <1>1, <1>5, <1>7, <1>9 DEF Worker
<1>11. /\ k.queue = Tail(q) /\ k.existing = NoId /\ k.section_map = m /\ k.pc = pc
       /\ k.doc = worker[w].doc /\ k.version = worker[w].version
  BY <1>1 DEF Worker
<1>12. \A e \in Sections : m[e] = IF e = Section(w) THEN WrittenId(w)
                                  ELSE worker[w].section_map[e]
  BY <1>6
<1>13. ASSUME NEW e \in Sections, m[e] # NoId
       PROVE  Has(rows', k.doc, e, m[e])
  BY <1>1, <1>3, <1>11, <1>12, <1>13 DEF Sound, Doc
<1>14. ASSUME NEW e \in Range(Toc[k.version])
       PROVE  m[e] # NoId \/ e \in Range(Tail(q))
  <2>1. k.version \in Version
    BY <1>10 DEF Worker
  <2>2. e \in Sections
    BY <2>1, TocTyped
  <2>3. worker[w].section_map[e] # NoId \/ e \in Range(q)
    BY <1>1, <1>2, <1>11 DEF Sound
  <2>4. WrittenId(w) # NoId
    BY <1>3
  <2>. QED
    BY <2>2, <2>3, <2>4, <1>5, <1>12
<1>15. Tail(q) = <<>> => Range(Tail(q)) = {}
  BY DEF Range
<1>. HIDE DEF k, m
<1>16. Sound(k, rows')
  BY <1>11, <1>13, <1>14, <1>15 DEF Sound
<1>17. LinksHold(points', rows')
  BY <1>2, <1>3, LinksGrow DEF IndInv
<1>. QED
  BY <1>1, <1>2, <1>3, <1>8, <1>10, <1>16, <1>17, OneWorker

(* A failed statement makes the worker forget all links. *)
LEMMA SectionsFailInv ==
  ASSUME IndInv, NEW w \in Workers, SectionsFail(w)
  PROVE  IndInv'
<1>1. /\ worker[w] \in Worker /\ worker \in [Workers -> Worker] /\ rows \subseteq Row
      /\ source \in [Docs -> Version] /\ faulty \in BOOLEAN /\ document \subseteq Docs
      /\ points \subseteq Point
  BY DEF IndInv, TypeOK
<1>2. /\ source' = source /\ faulty' = faulty /\ document' = document /\ points' = points
      /\ DropMap(w)
  BY DEF SectionsFail
<1>3. \/ rows' = rows
      \/ worker[w].pc = "write" /\ Writable(w) /\ rows' = Written(w)
  BY DEF SectionsFail
<1>4. /\ rows' \subseteq Row /\ UniqueIds'
      /\ \A d, e, i : Has(rows, d, e, i) => Has(rows', d, e, i)
  <2>1. CASE rows' = rows
    BY <2>1, <1>1 DEF IndInv, UniqueIds
  <2>2. CASE worker[w].pc = "write" /\ Writable(w) /\ rows' = Written(w)
    BY <2>2, WrittenSound DEF UniqueIds
  <2>. QED
    BY <1>3, <2>1, <2>2
<1>. DEFINE k == [worker[w] EXCEPT !.pc = "upsert", !.queue = <<>>, !.existing = NoId,
                                   !.section_map = NoMap]
<1>5. NoMap \in SectionMap /\ NoId \in Id /\ <<>> \in Seq(Sections)
  BY DEF NoMap, SectionMap, Id
<1>6. worker' = [worker EXCEPT ![w] = k] /\ k \in Worker
  BY <1>1, <1>2, <1>5 DEF DropMap, Worker
<1>7. k.pc = "upsert" /\ k.section_map = NoMap
  BY <1>1 DEF Worker
<1>8. Sound(k, rows')
  BY <1>7 DEF Sound, NoMap
<1>9. LinksHold(points', rows')
  BY <1>2, <1>4, LinksGrow DEF IndInv
<1>. QED
  BY <1>1, <1>2, <1>4, <1>6, <1>8, <1>9, OneWorker

(* Amendments and repairs touch neither the workers nor the stores. *)
LEMMA EnvironmentInv ==
  ASSUME IndInv, (\E d \in Docs : Amend(d)) \/ Heal \/ UNCHANGED vars
  PROVE  IndInv'
<1>1. UNCHANGED <<stores, worker>>
  BY DEF Amend, Heal, vars, stores
<1>2. source' \in [Docs -> Version] /\ faulty' \in BOOLEAN
  <2>1. source \in [Docs -> 1 .. MaxVersion] /\ faulty \in BOOLEAN
    BY DEF IndInv, TypeOK, Version
  <2>2. ASSUME NEW d \in Docs, Amend(d) PROVE source' \in [Docs -> 1 .. MaxVersion]
    <3>1. source[d] + 1 \in 1 .. MaxVersion
      BY <2>1, <2>2 DEF Amend
    <3>. QED
      BY <2>1, <2>2, <3>1 DEF Amend
  <2>. QED
    BY <2>1, <2>2 DEF Amend, Heal, vars, Version
<1>. QED
  BY <1>1, <1>2 DEF IndInv, TypeOK, UniqueIds, stores

(* The inductive invariant holds in every reachable state.                 *)
THEOREM Invariance == Spec => []IndInv
<1>1. Init => IndInv
  <2>1. SUFFICES ASSUME Init PROVE IndInv
    OBVIOUS
  <2>2. 1 \in Version
    BY DEF Version
  <2>3. TypeOK
    BY <2>1, <2>2, FreshSound DEF Init, TypeOK
  <2>4. \A w \in Workers : Sound(worker[w], rows)
    BY <2>1, FreshSound DEF Init
  <2>. QED
    BY <2>1, <2>3, <2>4 DEF Init, IndInv, UniqueIds, LinksHold
<1>2. IndInv /\ [Next]_vars => IndInv'
  <2>1. SUFFICES ASSUME IndInv, [Next]_vars PROVE IndInv'
    OBVIOUS
  <2>2. CASE \E w \in Workers : StartRun(w)
    BY <2>1, <2>2, StartRunInv
  <2>3. ASSUME NEW w \in Workers, Step(w) PROVE IndInv'
    BY <2>1, <2>3, ItemInv, ContentInv, ItemDoneInv, SelectInv, WriteInv, SectionsFailInv
    DEF Step
  <2>4. CASE \E w \in Workers : Crash(w)
    BY <2>1, <2>4, ItemInv
  <2>5. CASE (\E d \in Docs \ Malformed : Amend(d)) \/ Heal \/ UNCHANGED vars
    BY <2>1, <2>5, EnvironmentInv
  <2>. QED
    BY <2>1, <2>2, <2>3, <2>4, <2>5 DEF Next
<1>. QED
  BY <1>1, <1>2, PTL DEF Spec

-----------------------------------------------------------------------------
(* The theorems.                                                           *)

(* Every variable keeps its type. *)
THEOREM TypeCorrect == Spec => []TypeOK
BY Invariance, PTL DEF IndInv

(* Every link of a chunk names the row of its section in the document.     *)
THEOREM LinksResolveHolds == Spec => []LinksResolve
<1>1. IndInv => LinksResolve
  <2>1. ASSUME IndInv, NEW p \in points, p.section_uuids # NoMap, NEW e \in Path(p.sec)
        PROVE  \E r \in RowsOf(p.doc, e) : r.id = p.section_uuids[e]
    <3>1. Has(rows, p.doc, e, p.section_uuids[e])
      BY <2>1 DEF IndInv, LinksHold
    <3>. QED
      BY <3>1 DEF Has, RowsOf
  <2>. QED
    BY <2>1 DEF LinksResolve
<1>. QED
  BY <1>1, Invariance, PTL

-----------------------------------------------------------------------------
(* Indexed implies persisted.  The document of a point or a row has a row: *)
(* a worker writes neither before Persist, and documents are never deleted.*)

Persisted ==
  /\ \A p \in points : p.doc \in document
  /\ \A r \in rows : r.doc \in document
  /\ \A w \in Workers :
       worker[w].pc \in {"content", "select", "write", "upsert"} =>
         worker[w].doc \in document

LEMMA PersistedWorker ==
  ASSUME TypeOK, Persisted, NEW w \in Workers, NEW k,
         worker' = [worker EXCEPT ![w] = k], document \subseteq document',
         k.pc \in {"content", "select", "write", "upsert"} => k.doc \in document',
         \A p \in points' : p \in points \/ p.doc \in document',
         \A r \in rows' : r \in rows \/ r.doc \in document'
  PROVE  Persisted'
BY DEF TypeOK, Persisted

(* What a write or an upsert adds belongs to the worker's document. *)
LEMMA AddedToDocument ==
  ASSUME NEW w \in Workers
  PROVE  /\ \A r \in Written(w) : r \in rows \/ r.doc = worker[w].doc
         /\ \A p \in Store(worker[w].doc, worker[w].version, worker[w].section_map) :
              p \in points \/ p.doc = worker[w].doc
BY DEF Written, Doc, Store, NewPoints

LEMMA PersistedStep ==
  ASSUME WithDb, TypeOK, Persisted, NEW w \in Workers, Step(w)
  PROVE  Persisted'
<1>1. /\ worker[w] \in Worker /\ worker \in [Workers -> Worker]
      /\ worker[w].pc \in {"content", "select", "write", "upsert"} =>
           worker[w].doc \in document
  BY DEF TypeOK, Persisted
<1>2. ASSUME NEW d \in Docs, NextItem(w, d) PROVE Persisted'
  <2>. DEFINE k == [worker[w] EXCEPT !.pc = "persist", !.doc = d, !.bound = TRUE,
                                     !.todo = @ \ {d}]
  <2>1. worker' = [worker EXCEPT ![w] = k] /\ k.pc = "persist"
    BY <1>1, <1>2 DEF NextItem, Worker
  <2>. QED
    BY <1>2, <2>1, PersistedWorker DEF NextItem, stores
<1>3. ASSUME NEW d \in Docs, ParseFails(w, d) PROVE Persisted'
  <2>. DEFINE k == [worker[w] EXCEPT
                      !.todo = IF worker[w].bound THEN @ \ {d} ELSE {},
                      !.pc = IF worker[w].bound THEN @ ELSE "idle"]
  <2>1. worker' = [worker EXCEPT ![w] = k] /\ k.pc \in {"item", "idle"}
    BY <1>1, <1>3 DEF ParseFails, Worker
  <2>. QED
    BY <1>3, <2>1, PersistedWorker DEF ParseFails, stores
<1>4. CASE EndRun(w)
  <2>. DEFINE k == [worker[w] EXCEPT !.pc = "idle"]
  <2>1. worker' = [worker EXCEPT ![w] = k] /\ k.pc = "idle"
    BY <1>1, <1>4 DEF EndRun, Goto, Worker
  <2>. QED
    BY <1>4, <2>1, PersistedWorker DEF EndRun, stores
<1>5. CASE Persist(w)
  <2>. DEFINE k == [worker[w] EXCEPT !.pc = "content"]
  <2>1. worker' = [worker EXCEPT ![w] = k] /\ k.doc = worker[w].doc
    BY <1>1, <1>5 DEF Persist, Goto, Worker
  <2>2. document' = document \cup {worker[w].doc}
    BY <1>5 DEF Persist
  <2>. QED
    BY <1>5, <2>1, <2>2, PersistedWorker DEF Persist
<1>6. CASE FetchText(w)
  <2>. DEFINE v == source[worker[w].doc]
              k == [worker[w] EXCEPT !.version = v, !.queue = Toc[v], !.section_map = NoMap,
                      !.pc = IF WithDb /\ Toc[v] # <<>> THEN "select" ELSE "upsert"]
  <2>1. worker' = [worker EXCEPT ![w] = k] /\ k.doc = worker[w].doc
    BY <1>1, <1>6 DEF FetchText, Worker
  <2>2. worker[w].doc \in document
    BY <1>1, <1>6 DEF FetchText
  <2>. HIDE DEF k
  <2>. QED
    BY <1>6, <2>1, <2>2, PersistedWorker DEF FetchText, stores
<1>7. CASE EmptyText(w) \/ ItemFails(w) \/ Upsert(w)
  <2>1. ItemDone(w)
    BY <1>7 DEF EmptyText, ItemFails, Upsert
  <2>. DEFINE k == [Fresh EXCEPT !.pc = "item", !.bound = TRUE, !.todo = worker[w].todo]
  <2>2. worker' = [worker EXCEPT ![w] = k] /\ k.pc = "item"
    BY <2>1 DEF ItemDone, Fresh
  <2>3. document \subseteq document' /\ rows' = rows
    BY <1>7 DEF EmptyText, ItemFails, Upsert, stores
  <2>4. \/ points' = points
        \/ /\ worker[w].pc = "upsert"
           /\ points' = Store(worker[w].doc, worker[w].version, worker[w].section_map)
    BY <1>7 DEF EmptyText, ItemFails, Upsert, stores, Doc
  <2>5. \A p \in points' : p \in points \/ p.doc \in document'
    BY <1>1, <2>3, <2>4, AddedToDocument
  <2>. QED
    BY <2>2, <2>3, <2>5, PersistedWorker
<1>8. CASE SelectSection(w)
  <2>1. PICK id : worker' = [worker EXCEPT ![w].pc = "write", ![w].existing = id]
    BY <1>8 DEF SelectSection
  <2>. DEFINE k == [worker[w] EXCEPT !.pc = "write", !.existing = id]
  <2>2. worker' = [worker EXCEPT ![w] = k] /\ k.doc = worker[w].doc
    BY <1>1, <2>1 DEF Worker
  <2>3. worker[w].doc \in document
    BY <1>1, <1>8 DEF SelectSection
  <2>. HIDE DEF k
  <2>. QED
    BY <1>8, <2>2, <2>3, PersistedWorker DEF SelectSection, stores
<1>9. CASE WriteSection(w)
  <2>1. worker[w].doc \in document /\ document' = document /\ points' = points
    BY <1>1, <1>9 DEF WriteSection
  <2>. DEFINE k == [worker[w] EXCEPT
         !.queue = Tail(@), !.existing = NoId,
         !.section_map = [@ EXCEPT ![Section(w)] = WrittenId(w)],
         !.pc = IF Tail(worker[w].queue) = <<>> THEN "upsert" ELSE "select"]
  <2>2. worker' = [worker EXCEPT ![w] = k] /\ k.doc = worker[w].doc
    BY <1>1, <1>9 DEF WriteSection, Worker
  <2>3. \A r \in rows' : r \in rows \/ r.doc \in document'
    BY <1>9, <2>1, AddedToDocument DEF WriteSection
  <2>. HIDE DEF k
  <2>. QED
    BY <2>1, <2>2, <2>3, PersistedWorker
<1>10. CASE SectionsFail(w)
  <2>1. worker[w].doc \in document /\ document' = document /\ points' = points
    BY <1>1, <1>10 DEF SectionsFail
  <2>. DEFINE k == [worker[w] EXCEPT !.pc = "upsert", !.queue = <<>>, !.existing = NoId,
                                     !.section_map = NoMap]
  <2>2. worker' = [worker EXCEPT ![w] = k] /\ k.doc = worker[w].doc
    BY <1>1, <1>10 DEF SectionsFail, DropMap, Worker
  <2>3. \A r \in rows' : r \in rows \/ r.doc \in document'
    BY <1>10, <2>1, AddedToDocument DEF SectionsFail
  <2>. HIDE DEF k
  <2>. QED
    BY <2>1, <2>2, <2>3, PersistedWorker
<1>. QED
  BY <1>2, <1>3, <1>4, <1>5, <1>6, <1>7, <1>8, <1>9, <1>10 DEF Step

(* A document is in PostgreSQL before its rows are, and before its points  *)
(* are in Qdrant.                                                          *)
THEOREM IndexedIsPersistedHolds == Spec => []IndexedIsPersisted
<1>1. Init => (WithDb => Persisted)
  BY FreshSound DEF Init, Persisted, Fresh
<1>2. IndInv /\ (WithDb => Persisted) /\ [Next]_vars => (WithDb => Persisted)'
  <2>1. SUFFICES ASSUME WithDb, TypeOK, Persisted, [Next]_vars PROVE Persisted'
    BY DEF IndInv
  <2>2. ASSUME NEW w \in Workers, StartRun(w) PROVE Persisted'
    <3>1. PICK listing \in SUBSET Docs :
            worker' = [worker EXCEPT ![w] = [Fresh EXCEPT !.pc = "item", !.todo = listing]]
      BY <2>2 DEF StartRun
    <3>. QED
      BY <2>1, <2>2, <3>1, PersistedWorker DEF StartRun, stores, Fresh
  <2>3. ASSUME NEW w \in Workers, Crash(w) PROVE Persisted'
    BY <2>1, <2>3, PersistedWorker DEF Crash, stores, Fresh
  <2>4. CASE (\E d \in Docs \ Malformed : Amend(d)) \/ Heal \/ UNCHANGED vars
    BY <2>1, <2>4 DEF Amend, Heal, vars, stores, Persisted
  <2>. QED
    BY <2>1, <2>2, <2>3, <2>4, PersistedStep DEF Next
<1>3. (WithDb => Persisted) => IndexedIsPersisted
  BY DEF Persisted, IndexedIsPersisted
<1>. QED
  BY <1>1, <1>2, <1>3, Invariance, PTL DEF Spec

-----------------------------------------------------------------------------
(* The tree of sections.  The queue of a worker is what its table of        *)
(* contents still has, so the parent of the section at its head has been    *)
(* written; and a row, once written, keeps its document and section.        *)

Done(k) == Len(Toc[k.version]) - Len(k.queue)
InOrder(k) ==
  k.pc \in {"select", "write"} =>
    /\ Done(k) \in 0 .. Len(Toc[k.version])
    /\ \A i \in 1 .. Len(k.queue) : k.queue[i] = Toc[k.version][Done(k) + i]
    /\ \A j \in 1 .. Done(k) : k.section_map[Toc[k.version][j]] # NoId

TreeInv == SectionTree /\ \A w \in Workers : InOrder(worker[w])

(* Outside upsert_sections a worker leaves the rows alone.                  *)
LEMMA Outside ==
  ASSUME TypeOK, NEW w \in Workers, NEW d \in Docs,
         \/ StartRun(w) \/ NextItem(w, d) \/ ParseFails(w, d) \/ EndRun(w) \/ Persist(w)
         \/ EmptyText(w) \/ ItemFails(w) \/ Upsert(w) \/ Crash(w)
  PROVE  /\ \E k : /\ worker' = [worker EXCEPT ![w] = k]
                   /\ k.pc \in {"idle", "item", "persist", "content"}
         /\ UNCHANGED <<source, rows>>
<1>1. worker \in [Workers -> Worker] /\ worker[w] \in Worker
  BY DEF TypeOK
<1>2. UNCHANGED <<source, rows>>
  BY DEF StartRun, NextItem, ParseFails, EndRun, Persist, EmptyText, ItemFails, Upsert,
         Crash, stores
<1>3. CASE StartRun(w)
  <2>1. PICK listing \in SUBSET Docs :
          worker' = [worker EXCEPT ![w] = [Fresh EXCEPT !.pc = "item", !.todo = listing]]
    BY <1>3 DEF StartRun
  <2>2. [Fresh EXCEPT !.pc = "item", !.todo = listing].pc = "item"
    BY DEF Fresh
  <2>. QED
    BY <1>2, <2>1, <2>2
<1>4. CASE NextItem(w, d)
  <2>. DEFINE k == [worker[w] EXCEPT !.pc = "persist", !.doc = d, !.bound = TRUE,
                                     !.todo = @ \ {d}]
  <2>1. worker' = [worker EXCEPT ![w] = k] /\ k.pc = "persist"
    BY <1>1, <1>4 DEF NextItem, Worker
  <2>. HIDE DEF k
  <2>. QED
    BY <1>2, <2>1
<1>5. CASE ParseFails(w, d)
  <2>. DEFINE k == [worker[w] EXCEPT
                      !.todo = IF worker[w].bound THEN @ \ {d} ELSE {},
                      !.pc = IF worker[w].bound THEN @ ELSE "idle"]
  <2>1. worker' = [worker EXCEPT ![w] = k] /\ k.pc \in {"item", "idle"}
    BY <1>1, <1>5 DEF ParseFails, Worker
  <2>. HIDE DEF k
  <2>. QED
    BY <1>2, <2>1
<1>6. CASE EndRun(w) \/ Persist(w)
  <2>1. PICK pc \in {"idle", "content"} : Goto(w, pc)
    BY <1>6 DEF EndRun, Persist
  <2>. DEFINE k == [worker[w] EXCEPT !.pc = pc]
  <2>2. worker' = [worker EXCEPT ![w] = k] /\ k.pc = pc
    BY <1>1, <2>1 DEF Goto, Worker
  <2>. HIDE DEF k
  <2>. QED
    BY <1>2, <2>2
<1>7. CASE EmptyText(w) \/ ItemFails(w) \/ Upsert(w)
  <2>1. ItemDone(w)
    BY <1>7 DEF EmptyText, ItemFails, Upsert
  <2>. DEFINE k == [Fresh EXCEPT !.pc = "item", !.bound = TRUE, !.todo = worker[w].todo]
  <2>2. worker' = [worker EXCEPT ![w] = k] /\ k.pc = "item"
    BY <2>1 DEF ItemDone, Fresh
  <2>. HIDE DEF k
  <2>. QED
    BY <1>2, <2>2
<1>8. CASE Crash(w)
  <2>1. worker' = [worker EXCEPT ![w] = Fresh] /\ Fresh.pc = "idle"
    BY <1>8 DEF Crash, Fresh
  <2>. QED
    BY <1>2, <2>1
<1>. QED
  BY <1>3, <1>4, <1>5, <1>6, <1>7, <1>8

(* SectionTree of a table R.                                                *)
TreeOf(R) ==
  \A r \in R : IF Parent[r.ext] = NoParent THEN r.parent = NoId
               ELSE Has(R, r.doc, Parent[r.ext], r.parent)

LEMMA TreeIs == SectionTree <=> TreeOf(rows)
BY DEF SectionTree, TreeOf, Has, RowsOf

LEMMA ParentBefore ==
  ASSUME NEW v \in Version, NEW i \in DOMAIN Toc[v], Parent[Toc[v][i]] # NoParent
  PROVE  \E j \in 1 .. i - 1 : Toc[v][j] = Parent[Toc[v][i]]
BY TocAssumption DEF TocAssumption, Version

LEMMA NextPosition ==
  ASSUME NEW m \in Nat, NEW n \in Nat \ {0}, NEW i \in 0 .. m, i = m - n
  PROVE  i + 1 \in 1 .. m
  OBVIOUS

(* The parent of the section a worker writes has a row.                     *)
LEMMA ParentWritten ==
  ASSUME IndInv, NEW w \in Workers, InOrder(worker[w]), worker[w].pc = "write",
         Parent[Section(w)] # NoParent
  PROVE  Parents(Doc(w), Section(w)) # {}
<1>. DEFINE k == worker[w]
            T == Toc[k.version]
            P == Parent[Section(w)]
<1>1. k \in Worker /\ Sound(k, rows)
  BY DEF IndInv, TypeOK
<1>2. k.version \in Version /\ k.queue \in Seq(Sections) /\ k.queue # <<>>
  BY <1>1 DEF Worker, Sound
<1>3. T \in Seq(Sections) /\ Section(w) \in Sections
  BY <1>2, TocTyped, RangeTail DEF Section
<1>4. P \in Sections
  BY <1>3
<1>5. Len(k.queue) \in Nat \ {0} /\ Len(T) \in Nat /\ Section(w) = k.queue[1]
  BY <1>2, <1>3 DEF Section
<1>6. /\ Done(k) \in 0 .. Len(T)
      /\ \A i \in 1 .. Len(k.queue) : k.queue[i] = T[Done(k) + i]
      /\ \A j \in 1 .. Done(k) : k.section_map[T[j]] # NoId
  BY DEF InOrder
<1>7. Section(w) = T[Done(k) + 1]
  <2>1. 1 \in 1 .. Len(k.queue)
    BY <1>5
  <2>. QED
    BY <1>5, <1>6, <2>1
<1>8. PICK j \in 1 .. Done(k) : T[j] = P
  <2>1. Done(k) = Len(T) - Len(k.queue)
    BY DEF Done
  <2>2. Done(k) + 1 \in 1 .. Len(T)
    BY <1>5, <1>6, <2>1, NextPosition
  <2>3. Done(k) + 1 \in DOMAIN T
    BY <1>3, <2>2
  <2>4. \E j \in 1 .. (Done(k) + 1) - 1 : T[j] = P
    <3>1. Parent[T[Done(k) + 1]] # NoParent
      BY <1>7
    <3>2. \E j \in 1 .. (Done(k) + 1) - 1 : T[j] = Parent[T[Done(k) + 1]]
      BY <1>2, <2>3, <3>1, ParentBefore
    <3>. QED
      BY <1>7, <3>2
  <2>5. (Done(k) + 1) - 1 = Done(k)
    BY <1>5, <1>6
  <2>. QED
    BY <2>4, <2>5
<1>9. k.section_map[P] # NoId
  BY <1>6, <1>8
<1>10. Has(rows, Doc(w), P, k.section_map[P])
  BY <1>1, <1>4, <1>9 DEF Sound, Doc
<1>. QED
  BY <1>10 DEF Has, Parents, RowsOf

LEMMA TreeWritten ==
  ASSUME IndInv, SectionTree, NEW w \in Workers, InOrder(worker[w]),
         worker[w].pc = "write", Writable(w)
  PROVE  TreeOf(Written(w))
<1>. DEFINE new == [id |-> WrittenId(w), doc |-> Doc(w), ext |-> Section(w),
                    parent |-> ParentId(Doc(w), Section(w))]
<1>1. \A d, e, i : Has(rows, d, e, i) => Has(Written(w), d, e, i)
  BY WrittenSound
<1>2. ASSUME NEW r \in rows
      PROVE  IF Parent[r.ext] = NoParent THEN r.parent = NoId
             ELSE Has(Written(w), r.doc, Parent[r.ext], r.parent)
  BY <1>1, TreeIs DEF TreeOf
<1>3. ASSUME Parent[Section(w)] # NoParent
      PROVE  Has(Written(w), Doc(w), Parent[Section(w)], ParentId(Doc(w), Section(w)))
  <2>1. ParentId(Doc(w), Section(w)) \in Parents(Doc(w), Section(w))
    BY <1>3, ParentWritten DEF ParentId
  <2>2. Has(rows, Doc(w), Parent[Section(w)], ParentId(Doc(w), Section(w)))
    BY <2>1 DEF Parents, RowsOf, Has
  <2>. QED
    BY <1>1, <2>2
<1>4. ASSUME Parent[Section(w)] = NoParent
      PROVE  ParentId(Doc(w), Section(w)) = NoId
  <2>1. \A r \in rows : r.ext # NoParent
    BY DEF IndInv, TypeOK, Row
  <2>2. Parents(Doc(w), Section(w)) = {}
    BY <1>4, <2>1 DEF Parents, RowsOf
  <2>. QED
    BY <2>2 DEF ParentId
<1>5. /\ new.ext = Section(w) /\ new.doc = Doc(w)
      /\ new.parent = ParentId(Doc(w), Section(w))
  OBVIOUS
<1>6. Written(w) = {r \in rows : r.id # WrittenId(w)} \cup {new}
  BY DEF Written
<1>. HIDE DEF new
<1>. QED
  BY <1>2, <1>3, <1>4, <1>5, <1>6 DEF TreeOf

(* The rows, and the worker that moved, are in order.                       *)
LEMMA TreeMoves ==
  ASSUME TypeOK, TreeInv, NEW w \in Workers, NEW k,
         worker' = [worker EXCEPT ![w] = k], InOrder(k), TreeOf(rows')
  PROVE  TreeInv'
<1>1. SectionTree'
  BY DEF SectionTree, TreeOf, Has, RowsOf
<1>2. \A v \in Workers : InOrder(worker'[v])
  BY DEF TypeOK, TreeInv
<1>3. \A v \in Workers : InOrder(worker[v])'
  BY <1>2 DEF InOrder, Done
<1>. QED
  BY <1>1, <1>3 DEF TreeInv

LEMMA TreeStep ==
  ASSUME IndInv, TreeInv, NEW w \in Workers, StartRun(w) \/ Step(w) \/ Crash(w)
  PROVE  TreeInv'
<1>1. /\ worker[w] \in Worker /\ worker \in [Workers -> Worker] /\ TypeOK
      /\ Sound(worker[w], rows) /\ InOrder(worker[w]) /\ TreeOf(rows)
  BY TreeIs DEF IndInv, TypeOK, TreeInv
<1>2. ASSUME NEW d \in Docs,
             \/ StartRun(w) \/ NextItem(w, d) \/ ParseFails(w, d) \/ EndRun(w) \/ Persist(w)
             \/ EmptyText(w) \/ ItemFails(w) \/ Upsert(w) \/ Crash(w)
      PROVE  TreeInv'
  <2>1. PICK k : /\ worker' = [worker EXCEPT ![w] = k]
                 /\ k.pc \in {"idle", "item", "persist", "content"}
    BY <1>1, <1>2, Outside
  <2>2. rows' = rows
    BY <1>1, <1>2, Outside
  <2>3. InOrder(k)
    BY <2>1 DEF InOrder
  <2>. QED
    BY <1>1, <2>1, <2>2, <2>3, TreeMoves
<1>3. CASE FetchText(w)
  <2>. DEFINE v == source[worker[w].doc]
              k == [worker[w] EXCEPT !.version = v, !.queue = Toc[v], !.section_map = NoMap,
                      !.pc = IF WithDb /\ Toc[v] # <<>> THEN "select" ELSE "upsert"]
  <2>1. v \in Version
    BY <1>1 DEF TypeOK, Worker
  <2>2. /\ worker' = [worker EXCEPT ![w] = k] /\ rows' = rows
        /\ k.version = v /\ k.queue = Toc[v]
    BY <1>1, <1>3 DEF FetchText, Worker, stores
  <2>. HIDE DEF k
  <2>3. Len(Toc[v]) \in Nat
    BY <2>1, TocTyped
  <2>4. Done(k) = 0
    BY <2>2, <2>3 DEF Done
  <2>5. InOrder(k)
    BY <2>2, <2>3, <2>4 DEF InOrder
  <2>. QED
    BY <1>1, <2>2, <2>5, TreeMoves
<1>4. CASE SelectSection(w)
  <2>1. PICK id : worker' = [worker EXCEPT ![w].pc = "write", ![w].existing = id]
    BY <1>4 DEF SelectSection
  <2>. DEFINE k == [worker[w] EXCEPT !.pc = "write", !.existing = id]
  <2>2. /\ worker' = [worker EXCEPT ![w] = k] /\ rows' = rows /\ worker[w].pc = "select"
        /\ k.version = worker[w].version /\ k.queue = worker[w].queue
        /\ k.section_map = worker[w].section_map
    BY <1>1, <1>4, <2>1 DEF SelectSection, Worker, stores
  <2>. HIDE DEF k
  <2>3. InOrder(k)
    BY <1>1, <2>2 DEF InOrder, Done
  <2>. QED
    BY <1>1, <2>2, <2>3, TreeMoves
<1>5. CASE WriteSection(w)
  <2>. DEFINE q == worker[w].queue
              T == Toc[worker[w].version]
              m == [worker[w].section_map EXCEPT ![Section(w)] = WrittenId(w)]
              k == [worker[w] EXCEPT !.queue = Tail(q), !.existing = NoId, !.section_map = m,
                      !.pc = IF Tail(q) = <<>> THEN "upsert" ELSE "select"]
  <2>1. worker[w].pc = "write" /\ Writable(w) /\ rows' = Written(w)
    BY <1>5 DEF WriteSection
  <2>2. TreeOf(rows')
    BY <1>1, <2>1, TreeWritten DEF TreeInv
  <2>3. /\ worker' = [worker EXCEPT ![w] = k]
        /\ k.version = worker[w].version /\ k.queue = Tail(q) /\ k.section_map = m
    BY <1>1, <1>5 DEF WriteSection, Worker
  <2>. HIDE DEF k
  <2>4. q \in Seq(Sections) /\ q # <<>> /\ worker[w].version \in Version
    BY <1>1, <2>1 DEF Sound, Worker
  <2>5. T \in Seq(Sections) /\ Len(T) \in Nat
    BY <2>4, TocTyped
  <2>6. /\ Len(q) \in Nat \ {0} /\ Len(Tail(q)) = Len(q) - 1 /\ Section(w) = q[1]
        /\ \A i \in 1 .. Len(Tail(q)) : Tail(q)[i] = q[i + 1] /\ i + 1 \in 1 .. Len(q)
    BY <2>4 DEF Section
  <2>7. /\ Done(worker[w]) \in 0 .. Len(T)
        /\ \A i \in 1 .. Len(q) : q[i] = T[Done(worker[w]) + i]
        /\ \A j \in 1 .. Done(worker[w]) : worker[w].section_map[T[j]] # NoId
    BY <1>1, <2>1 DEF InOrder
  <2>8. Done(worker[w]) = Len(T) - Len(q)
    BY DEF Done
  <2>9. Done(k) = Done(worker[w]) + 1 /\ Done(k) \in 1 .. Len(T)
    <3>1. Done(k) = Len(T) - (Len(q) - 1)
      BY <2>3, <2>6 DEF Done
    <3>2. Done(worker[w]) + 1 \in 1 .. Len(T)
      BY <2>5, <2>6, <2>7, <2>8, NextPosition
    <3>3. Len(T) - (Len(q) - 1) = (Len(T) - Len(q)) + 1
      BY <2>5, <2>6
    <3>. QED
      BY <2>8, <3>1, <3>2, <3>3
  <2>10. ASSUME NEW i \in 1 .. Len(Tail(q))
         PROVE  Tail(q)[i] = T[Done(k) + i]
    <3>1. Tail(q)[i] = T[Done(worker[w]) + (i + 1)]
      BY <2>6, <2>7
    <3>2. Done(worker[w]) + (i + 1) = Done(k) + i
      BY <2>7, <2>9
    <3>. QED
      BY <3>1, <3>2
  <2>11. ASSUME NEW j \in 1 .. Done(k)
         PROVE  m[T[j]] # NoId
    <3>1. T[j] \in Sections
      BY <2>5, <2>9
    <3>2. m[T[j]] = IF T[j] = Section(w) THEN WrittenId(w) ELSE worker[w].section_map[T[j]]
      BY <1>1, <3>1 DEF Worker, SectionMap
    <3>3. WrittenId(w) # NoId
      BY <2>1, WrittenSound
    <3>4. CASE j \in 1 .. Done(worker[w])
      BY <2>7, <3>2, <3>3, <3>4
    <3>5. CASE j \notin 1 .. Done(worker[w])
      <4>1. j = Done(worker[w]) + 1
        BY <2>7, <2>9, <3>5
      <4>2. 1 \in 1 .. Len(q)
        BY <2>6
      <4>3. T[j] = Section(w)
        BY <2>6, <2>7, <4>1, <4>2
      <4>. QED
        BY <3>2, <3>3, <4>3
    <3>. QED
      BY <3>4, <3>5
  <2>. HIDE DEF m
  <2>12. Done(k) \in 0 .. Len(T)
    BY <2>5, <2>9
  <2>13. InOrder(k)
    BY <2>3, <2>10, <2>11, <2>12 DEF InOrder
  <2>. QED
    BY <1>1, <2>2, <2>3, <2>13, TreeMoves
<1>6. CASE SectionsFail(w)
  <2>. DEFINE k == [worker[w] EXCEPT !.pc = "upsert", !.queue = <<>>, !.existing = NoId,
                                     !.section_map = NoMap]
  <2>1. worker' = [worker EXCEPT ![w] = k] /\ k.pc = "upsert"
    BY <1>1, <1>6 DEF SectionsFail, DropMap, Worker
  <2>. HIDE DEF k
  <2>2. InOrder(k)
    BY <2>1 DEF InOrder
  <2>3. \/ rows' = rows
        \/ worker[w].pc = "write" /\ Writable(w) /\ rows' = Written(w)
    BY <1>6 DEF SectionsFail
  <2>4. TreeOf(rows')
    BY <1>1, <2>3, TreeWritten DEF TreeInv
  <2>. QED
    BY <1>1, <2>1, <2>2, <2>4, TreeMoves
<1>7. \E d \in Docs : TRUE
  OBVIOUS
<1>. QED
  BY <1>2, <1>3, <1>4, <1>5, <1>6, <1>7 DEF Step

(* parent_id is the row of the parent, in the same document, under any      *)
(* interleaving, failure or crash: not only for the one ingest of the run.  *)
THEOREM SectionTreeHolds == Spec => []SectionTree
<1>1. Init => TreeInv
  BY DEF Init, TreeInv, SectionTree, InOrder, Fresh
<1>2. IndInv /\ TreeInv /\ [Next]_vars => TreeInv'
  <2>1. SUFFICES ASSUME IndInv, TreeInv, [Next]_vars PROVE TreeInv'
    OBVIOUS
  <2>2. ASSUME NEW w \in Workers, StartRun(w) \/ Step(w) \/ Crash(w) PROVE TreeInv'
    BY <2>1, <2>2, TreeStep
  <2>3. CASE (\E d \in Docs \ Malformed : Amend(d)) \/ Heal \/ UNCHANGED vars
    <3>1. rows' = rows /\ worker' = worker
      BY <2>3 DEF Amend, Heal, vars, stores
    <3>. QED
      BY <2>1, <3>1 DEF TreeInv, SectionTree, RowsOf, InOrder, Done
  <2>. QED
    BY <2>1, <2>2, <2>3 DEF Next
<1>3. TreeInv => SectionTree
  BY DEF TreeInv
<1>. QED
  BY <1>1, <1>2, <1>3, Invariance, PTL DEF Spec

-----------------------------------------------------------------------------
(* One worker alone.                                                        *)
Alone == \A v, w \in Workers : v = w

(* A worker that found no row is about to insert the only one.              *)
UniqueInv ==
  /\ RowsUnique
  /\ \A w \in Workers :
       worker[w].pc = "write" /\ worker[w].existing = NoId =>
         RowsOf(worker[w].doc, Head(worker[w].queue)) = {}

(* What is indexed is no newer than what the worker fetched, and the points *)
(* of a section agree on its version.                                       *)
IndexInv ==
  /\ \A p \in points : p.version <= source[p.doc]
  /\ \A p, q \in points : p.doc = q.doc /\ p.sec = q.sec => p.version = q.version
  /\ \A w \in Workers : worker[w].pc \in {"select", "write", "upsert"} =>
       /\ worker[w].version <= source[worker[w].doc]
       /\ \A p \in points : p.doc = worker[w].doc => p.version <= worker[w].version

(* A write of a worker alone keeps the sections of a document apart.        *)
LEMMA UniqueWritten ==
  ASSUME Alone, IndInv, UniqueInv, NEW w \in Workers, worker[w].pc = "write", Writable(w)
  PROVE  \A q, r \in Written(w) : q.doc = r.doc /\ q.ext = r.ext => q = r
<1>. DEFINE new == [id |-> WrittenId(w), doc |-> Doc(w), ext |-> Section(w),
                    parent |-> ParentId(Doc(w), Section(w))]
<1>1. RowsUnique /\ Sound(worker[w], rows)
  BY DEF IndInv, UniqueInv
<1>2. ASSUME NEW r \in rows, r.id # WrittenId(w), r.doc = Doc(w), r.ext = Section(w)
      PROVE  FALSE
  <2>1. CASE worker[w].existing = NoId
    <3>1. RowsOf(Doc(w), Section(w)) = {}
      BY <2>1 DEF UniqueInv, Doc, Section
    <3>. QED
      BY <1>2, <3>1 DEF RowsOf
  <2>2. CASE worker[w].existing # NoId
    <3>1. PICK o \in rows : o.doc = Doc(w) /\ o.ext = Section(w) /\ o.id = worker[w].existing
      BY <1>1, <2>2 DEF Sound, Has, Doc, Section
    <3>2. o = r
      BY <1>1, <1>2, <3>1 DEF RowsUnique
    <3>. QED
      BY <1>2, <2>2, <3>1, <3>2 DEF WrittenId
  <2>. QED
    BY <2>1, <2>2
<1>3. new.doc = Doc(w) /\ new.ext = Section(w)
  OBVIOUS
<1>4. Written(w) = {r \in rows : r.id # WrittenId(w)} \cup {new}
  BY DEF Written
<1>. HIDE DEF new
<1>. QED
  BY <1>1, <1>2, <1>3, <1>4 DEF RowsUnique

LEMMA UniqueMoves ==
  ASSUME Alone, TypeOK, NEW w \in Workers, NEW k, worker' = [worker EXCEPT ![w] = k],
         \A q, r \in rows' : q.doc = r.doc /\ q.ext = r.ext => q = r,
         k.pc # "write"
  PROVE  UniqueInv'
<1>1. \A v \in Workers : worker'[v] = k
  BY DEF Alone, TypeOK
<1>2. RowsUnique'
  BY DEF RowsUnique
<1>. QED
  BY <1>1, <1>2 DEF UniqueInv

LEMMA UniqueStep ==
  ASSUME Alone, IndInv, UniqueInv, NEW w \in Workers, StartRun(w) \/ Step(w) \/ Crash(w)
  PROVE  UniqueInv'
<1>1. /\ worker[w] \in Worker /\ worker \in [Workers -> Worker] /\ TypeOK
      /\ \A q, r \in rows : q.doc = r.doc /\ q.ext = r.ext => q = r
  BY DEF IndInv, TypeOK, UniqueInv, RowsUnique
<1>2. ASSUME NEW d \in Docs,
             \/ StartRun(w) \/ NextItem(w, d) \/ ParseFails(w, d) \/ EndRun(w) \/ Persist(w)
             \/ EmptyText(w) \/ ItemFails(w) \/ Upsert(w) \/ Crash(w)
      PROVE  UniqueInv'
  <2>1. PICK k : /\ worker' = [worker EXCEPT ![w] = k]
                 /\ k.pc \in {"idle", "item", "persist", "content"}
    BY <1>1, <1>2, Outside
  <2>2. rows' = rows
    BY <1>1, <1>2, Outside
  <2>. QED
    BY <1>1, <2>1, <2>2, UniqueMoves
<1>3. CASE FetchText(w)
  <2>. DEFINE v == source[worker[w].doc]
              k == [worker[w] EXCEPT !.version = v, !.queue = Toc[v], !.section_map = NoMap,
                      !.pc = IF WithDb /\ Toc[v] # <<>> THEN "select" ELSE "upsert"]
  <2>1. worker' = [worker EXCEPT ![w] = k] /\ rows' = rows /\ k.pc \in {"select", "upsert"}
    BY <1>1, <1>3 DEF FetchText, Worker, stores
  <2>. HIDE DEF k
  <2>. QED
    BY <1>1, <2>1, UniqueMoves
<1>4. CASE SelectSection(w)
  <2>1. PICK id \in IF {r.id : r \in RowsOf(Doc(w), Section(w))} = {} THEN {NoId}
                    ELSE {r.id : r \in RowsOf(Doc(w), Section(w))} :
          worker' = [worker EXCEPT ![w].pc = "write", ![w].existing = id]
    BY <1>4 DEF SelectSection
  <2>. DEFINE k == [worker[w] EXCEPT !.pc = "write", !.existing = id]
  <2>2. /\ worker' = [worker EXCEPT ![w] = k] /\ rows' = rows
        /\ k.existing = id /\ k.doc = Doc(w) /\ Head(k.queue) = Section(w)
    BY <1>1, <1>4, <2>1 DEF SelectSection, Worker, stores, Doc, Section
  <2>3. id = NoId => RowsOf(Doc(w), Section(w)) = {}
    <3>1. \A r \in rows : r.id # NoId
      BY <1>1 DEF TypeOK, Row
    <3>. QED
      BY <2>1, <3>1 DEF RowsOf
  <2>. HIDE DEF k
  <2>4. \A v \in Workers : worker'[v] = k
    BY <1>1, <2>2 DEF Alone
  <2>5. RowsUnique'
    BY <1>1, <2>2 DEF RowsUnique
  <2>. QED
    BY <2>2, <2>3, <2>4, <2>5 DEF UniqueInv, RowsOf
<1>5. CASE WriteSection(w)
  <2>. DEFINE k == [worker[w] EXCEPT
         !.queue = Tail(@), !.existing = NoId,
         !.section_map = [@ EXCEPT ![Section(w)] = WrittenId(w)],
         !.pc = IF Tail(worker[w].queue) = <<>> THEN "upsert" ELSE "select"]
  <2>1. worker' = [worker EXCEPT ![w] = k] /\ k.pc \in {"select", "upsert"}
    BY <1>1, <1>5 DEF WriteSection, Worker
  <2>2. worker[w].pc = "write" /\ Writable(w) /\ rows' = Written(w)
    BY <1>5 DEF WriteSection
  <2>. HIDE DEF k
  <2>. QED
    BY <1>1, <2>1, <2>2, UniqueWritten, UniqueMoves
<1>6. CASE SectionsFail(w)
  <2>. DEFINE k == [worker[w] EXCEPT !.pc = "upsert", !.queue = <<>>, !.existing = NoId,
                                     !.section_map = NoMap]
  <2>1. worker' = [worker EXCEPT ![w] = k] /\ k.pc = "upsert"
    BY <1>1, <1>6 DEF SectionsFail, DropMap, Worker
  <2>. HIDE DEF k
  <2>2. \/ rows' = rows
        \/ worker[w].pc = "write" /\ Writable(w) /\ rows' = Written(w)
    BY <1>6 DEF SectionsFail
  <2>. QED
    BY <1>1, <2>1, <2>2, UniqueWritten, UniqueMoves
<1>7. \E d \in Docs : TRUE
  OBVIOUS
<1>. QED
  BY <1>2, <1>3, <1>4, <1>5, <1>6, <1>7 DEF Step

(* One row per section of a document, as long as one ingest runs at a time: *)
(* what the SELECT before the write found still holds at the write.         *)
THEOREM RowsUniqueHolds ==
  ASSUME Alone
  PROVE  Spec => []RowsUnique
<1>1. Init => UniqueInv
  BY DEF Init, UniqueInv, RowsUnique, Fresh
<1>2. IndInv /\ UniqueInv /\ [Next]_vars => UniqueInv'
  <2>1. SUFFICES ASSUME IndInv, UniqueInv, [Next]_vars PROVE UniqueInv'
    OBVIOUS
  <2>2. ASSUME NEW w \in Workers, StartRun(w) \/ Step(w) \/ Crash(w) PROVE UniqueInv'
    BY <2>1, <2>2, UniqueStep
  <2>3. CASE (\E d \in Docs \ Malformed : Amend(d)) \/ Heal \/ UNCHANGED vars
    <3>1. rows' = rows /\ worker' = worker
      BY <2>3 DEF Amend, Heal, vars, stores
    <3>. QED
      BY <2>1, <3>1 DEF UniqueInv, RowsUnique, RowsOf
  <2>. QED
    BY <2>1, <2>2, <2>3 DEF Next
<1>3. UniqueInv => RowsUnique
  BY DEF UniqueInv
<1>. QED
  BY <1>1, <1>2, <1>3, Invariance, PTL DEF Spec

(* What upsert_chunks does to the versions of the points.                   *)
LEMMA StoreVersions ==
  ASSUME StableIds, NEW d \in Docs, NEW v \in Version, NEW map, NEW p \in Store(d, v, map)
  PROVE  \/ p \in points /\ (p.doc = d /\ p.sec \in Range(Toc[v]) => points = Store(d, v, map))
         \/ p.doc = d /\ p.sec \in Range(Toc[v]) /\ p.version = v
BY DEF Store, Overwritten, NewPoints

(* No point is newer than the source, the points of a section agree, those  *)
(* of a document are no newer than v, and no point of Q is older than the   *)
(* one of the same section in P.                                            *)
NoNewer(P) == \A p \in P : p.version <= source[p.doc]
Agreed(P) == \A p, q \in P : p.doc = q.doc /\ p.sec = q.sec => p.version = q.version
UpTo(d, v) == \A p \in points : p.doc = d => p.version <= v
NoOlder(P, Q) ==
  \A q \in P, p \in Q : q.doc = p.doc /\ q.sec = p.sec => q.version <= p.version

LEMMA VersionOrder ==
  ASSUME NEW n \in Version
  PROVE  n <= n
BY DEF Version

LEMMA NoOlderThanItself ==
  ASSUME points \subseteq Point, Agreed(points)
  PROVE  NoOlder(points, points)
<1>1. ASSUME NEW q \in points, NEW p \in points, q.doc = p.doc, q.sec = p.sec
      PROVE  q.version <= p.version
  <2>1. q.version = p.version /\ p.version \in Version
    BY <1>1 DEF Agreed, Point
  <2>. QED
    BY <2>1, VersionOrder
<1>. QED
  BY <1>1 DEF NoOlder

(* Points stored for a document, at a version the worker fetched.           *)
LEMMA IndexStored ==
  ASSUME StableIds, NEW d \in Docs, NEW v \in Version, NEW map,
         points \subseteq Point, NoNewer(points), Agreed(points), UpTo(d, v), v <= source[d]
  PROVE  /\ NoNewer(Store(d, v, map)) /\ Agreed(Store(d, v, map))
         /\ NoOlder(points, Store(d, v, map))
<1>. DEFINE New(p) == p.doc = d /\ p.sec \in Range(Toc[v]) /\ p.version = v
            Old(p) == p \in points /\ ~(p.doc = d /\ p.sec \in Range(Toc[v]))
<1>1. CASE Store(d, v, map) = points
  BY <1>1, NoOlderThanItself
<1>2. CASE Store(d, v, map) # points
  <2>1. ASSUME NEW p \in Store(d, v, map) PROVE New(p) \/ Old(p)
    BY <1>2, StoreVersions
  <2>2. NoNewer(Store(d, v, map))
    BY <2>1 DEF NoNewer
  <2>3. Agreed(Store(d, v, map))
    BY <2>1 DEF Agreed
  <2>4. ASSUME NEW q \in points, NEW p \in Store(d, v, map), q.doc = p.doc, q.sec = p.sec
        PROVE  q.version <= p.version
    <3>1. CASE New(p)
      BY <2>4, <3>1 DEF UpTo
    <3>2. CASE Old(p)
      BY <2>4, <3>2, NoOlderThanItself DEF NoOlder
    <3>. QED
      BY <2>1, <3>1, <3>2
  <2>. QED
    BY <2>2, <2>3, <2>4 DEF NoOlder
<1>. QED
  BY <1>1, <1>2

(* The versions in points, and the source, as a step leaves them.           *)
LEMMA IndexMoves ==
  ASSUME Alone, TypeOK, NEW w \in Workers, NEW k, worker' = [worker EXCEPT ![w] = k],
         \A p \in points' : p.version <= source'[p.doc],
         \A p, q \in points' : p.doc = q.doc /\ p.sec = q.sec => p.version = q.version,
         k.pc \in {"select", "write", "upsert"} =>
           /\ k.version <= source'[k.doc]
           /\ \A p \in points' : p.doc = k.doc => p.version <= k.version
  PROVE  IndexInv'
<1>1. \A u \in Workers : worker'[u] = k
  BY DEF Alone, TypeOK
<1>. QED
  BY <1>1 DEF IndexInv

(* Only upsert_chunks writes points.                                        *)
LEMMA PointsOf ==
  ASSUME NEW w \in Workers, StartRun(w) \/ Step(w) \/ Crash(w)
  PROVE  \/ points' = points
         \/ /\ worker[w].pc = "upsert"
            /\ points' = Store(worker[w].doc, worker[w].version, worker[w].section_map)
BY DEF StartRun, Step, Crash, NextItem, ParseFails, EndRun, Persist, FetchText, EmptyText,
       ItemFails, SelectSection, WriteSection, SectionsFail, Upsert, stores, Doc

LEMMA IndexPoints ==
  ASSUME Alone, StableIds, TypeOK, IndexInv, NEW w \in Workers,
         StartRun(w) \/ Step(w) \/ Crash(w)
  PROVE  NoNewer(points') /\ Agreed(points') /\ NoOlder(points, points')
<1>1. /\ points \subseteq Point
      /\ worker[w].doc \in Docs /\ worker[w].version \in Version
  BY DEF TypeOK, Worker
<1>2. NoNewer(points) /\ Agreed(points)
  BY DEF IndexInv, NoNewer, Agreed
<1>3. CASE points' = points
  BY <1>1, <1>2, <1>3, NoOlderThanItself
<1>4. CASE /\ worker[w].pc = "upsert"
           /\ points' = Store(worker[w].doc, worker[w].version, worker[w].section_map)
  <2>1. worker[w].version <= source[worker[w].doc] /\ UpTo(worker[w].doc, worker[w].version)
    BY <1>4 DEF IndexInv, UpTo
  <2>. QED
    BY <1>1, <1>2, <1>4, <2>1, IndexStored
<1>. QED
  BY <1>3, <1>4, PointsOf

LEMMA IndexStep ==
  ASSUME Alone, StableIds, TypeOK, IndexInv, NEW w \in Workers,
         StartRun(w) \/ Step(w) \/ Crash(w)
  PROVE  IndexInv'
<1>1. /\ worker[w] \in Worker /\ worker \in [Workers -> Worker]
      /\ source \in [Docs -> Version]
  BY DEF TypeOK
<1>2. /\ \A p \in points' : p.version <= source[p.doc]
      /\ \A p, q \in points' : p.doc = q.doc /\ p.sec = q.sec => p.version = q.version
  BY IndexPoints DEF NoNewer, Agreed
<1>3. worker[w].pc \in {"select", "write", "upsert"} =>
        /\ worker[w].version <= source[worker[w].doc]
        /\ \A p \in points : p.doc = worker[w].doc => p.version <= worker[w].version
  BY DEF IndexInv
<1>4. ASSUME NEW d \in Docs,
             \/ StartRun(w) \/ NextItem(w, d) \/ ParseFails(w, d) \/ EndRun(w) \/ Persist(w)
             \/ EmptyText(w) \/ ItemFails(w) \/ Upsert(w) \/ Crash(w)
      PROVE  IndexInv'
  <2>1. PICK k : /\ worker' = [worker EXCEPT ![w] = k]
                 /\ k.pc \in {"idle", "item", "persist", "content"}
    BY <1>4, Outside
  <2>2. source' = source
    BY <1>4, Outside
  <2>. QED
    BY <1>2, <2>1, <2>2, IndexMoves
<1>5. CASE FetchText(w)
  <2>. DEFINE v == source[worker[w].doc]
              k == [worker[w] EXCEPT !.version = v, !.queue = Toc[v], !.section_map = NoMap,
                      !.pc = IF WithDb /\ Toc[v] # <<>> THEN "select" ELSE "upsert"]
  <2>1. /\ worker' = [worker EXCEPT ![w] = k] /\ points' = points /\ source' = source
        /\ k.doc = worker[w].doc /\ k.version = v
    BY <1>1, <1>5 DEF FetchText, Worker, stores
  <2>. HIDE DEF k
  <2>2. v \in Version
    BY <1>1 DEF Worker
  <2>3. k.version <= source'[k.doc]
    BY <2>1, <2>2, VersionOrder
  <2>4. \A p \in points' : p.doc = k.doc => p.version <= k.version
    BY <2>1 DEF IndexInv
  <2>. QED
    BY <1>2, <2>1, <2>3, <2>4, IndexMoves
<1>6. CASE SelectSection(w) \/ WriteSection(w) \/ SectionsFail(w)
  <2>1. /\ worker[w].pc \in {"select", "write"} /\ points' = points /\ source' = source
    BY <1>6 DEF SelectSection, WriteSection, SectionsFail, stores
  <2>2. \E k : /\ worker' = [worker EXCEPT ![w] = k]
               /\ k.doc = worker[w].doc /\ k.version = worker[w].version
    <3>1. CASE SelectSection(w)
      <4>1. PICK id : worker' = [worker EXCEPT ![w].pc = "write", ![w].existing = id]
        BY <3>1 DEF SelectSection
      <4>. DEFINE k == [worker[w] EXCEPT !.pc = "write", !.existing = id]
      <4>2. /\ worker' = [worker EXCEPT ![w] = k]
            /\ k.doc = worker[w].doc /\ k.version = worker[w].version
        BY <1>1, <4>1 DEF Worker
      <4>. HIDE DEF k
      <4>. QED
        BY <4>2
    <3>2. CASE WriteSection(w)
      <4>. DEFINE k == [worker[w] EXCEPT
             !.queue = Tail(@), !.existing = NoId,
             !.section_map = [@ EXCEPT ![Section(w)] = WrittenId(w)],
             !.pc = IF Tail(worker[w].queue) = <<>> THEN "upsert" ELSE "select"]
      <4>1. /\ worker' = [worker EXCEPT ![w] = k]
            /\ k.doc = worker[w].doc /\ k.version = worker[w].version
        BY <1>1, <3>2 DEF WriteSection, Worker
      <4>. HIDE DEF k
      <4>. QED
        BY <4>1
    <3>3. CASE SectionsFail(w)
      <4>. DEFINE k == [worker[w] EXCEPT !.pc = "upsert", !.queue = <<>>, !.existing = NoId,
                                         !.section_map = NoMap]
      <4>1. /\ worker' = [worker EXCEPT ![w] = k]
            /\ k.doc = worker[w].doc /\ k.version = worker[w].version
        BY <1>1, <3>3 DEF SectionsFail, DropMap, Worker
      <4>. HIDE DEF k
      <4>. QED
        BY <4>1
    <3>. QED
      BY <1>6, <3>1, <3>2, <3>3
  <2>3. PICK k : /\ worker' = [worker EXCEPT ![w] = k]
                 /\ k.doc = worker[w].doc /\ k.version = worker[w].version
    BY <2>2
  <2>. QED
    BY <1>2, <1>3, <2>1, <2>3, IndexMoves
<1>7. \E d \in Docs : TRUE
  OBVIOUS
<1>. QED
  BY <1>4, <1>5, <1>6, <1>7 DEF Step

LEMMA IndexEnvironment ==
  ASSUME TypeOK, IndexInv, (\E d \in Docs : Amend(d)) \/ Heal \/ UNCHANGED vars
  PROVE  IndexInv' /\ points' = points
<1>1. points' = points /\ worker' = worker
  BY DEF Amend, Heal, vars, stores
<1>2. /\ source \in [Docs -> Version] /\ points \subseteq Point
      /\ worker \in [Workers -> Worker]
  BY DEF TypeOK
<1>3. \A d \in Docs, n \in Version : n <= source[d] => n <= source'[d]
  <2>1. CASE source' = source
    BY <2>1
  <2>2. ASSUME NEW c \in Docs, Amend(c)
        PROVE  \A d \in Docs, n \in Version : n <= source[d] => n <= source'[d]
    <3>1. \A d \in Docs : source'[d] = IF d = c THEN source[d] + 1 ELSE source[d]
      BY <1>2, <2>2 DEF Amend
    <3>2. \A n, m \in Version : n <= m => n <= m + 1
      BY DEF Version
    <3>. QED
      BY <1>2, <3>1, <3>2
  <2>. QED
    BY <2>1, <2>2 DEF Heal, vars
<1>4. \A p \in points : p.doc \in Docs /\ p.version \in Version
  BY <1>2 DEF Point
<1>5. \A w \in Workers : worker[w].doc \in Docs /\ worker[w].version \in Version
  BY <1>2 DEF Worker
<1>. QED
  BY <1>1, <1>3, <1>4, <1>5 DEF IndexInv

(* With chunk ids of their own and one ingest at a time, no step trades the *)
(* text of a section in the index for an older one.                         *)
THEOREM IndexNeverRegressesHolds ==
  ASSUME Alone, StableIds
  PROVE  Spec => IndexNeverRegresses
<1>1. Init => IndexInv
  BY DEF Init, IndexInv, Fresh
<1>2. IndInv /\ IndexInv /\ [Next]_vars => IndexInv' /\ NoOlder(points, points')
  <2>1. SUFFICES ASSUME IndInv, IndexInv, [Next]_vars
                 PROVE  IndexInv' /\ NoOlder(points, points')
    OBVIOUS
  <2>2. TypeOK
    BY <2>1 DEF IndInv
  <2>3. CASE \E w \in Workers : StartRun(w) \/ Step(w) \/ Crash(w)
    BY <2>1, <2>2, <2>3, IndexStep, IndexPoints
  <2>4. CASE (\E d \in Docs \ Malformed : Amend(d)) \/ Heal \/ UNCHANGED vars
    <3>1. IndexInv' /\ points' = points
      BY <2>1, <2>2, <2>4, IndexEnvironment
    <3>2. points \subseteq Point /\ Agreed(points)
      BY <2>1, <2>2 DEF IndexInv, TypeOK, Agreed
    <3>. QED
      BY <3>1, <3>2, NoOlderThanItself
  <2>. QED
    BY <2>1, <2>3, <2>4 DEF Next
<1>. QED
  BY <1>1, <1>2, Invariance, PTL DEF Spec, IndexNeverRegresses, NoOlder

-----------------------------------------------------------------------------
(* YandexVision: attempts and the troubles they had.                       *)

OcrPlaces == {"idle", "header", "page", "refresh", "failed"}

(* A coroutine is a record; which numbers stand for tokens does not matter. *)
OcrTyped(me) ==
  me \in [pc : OcrPlaces, page : {me.page}, attempt : 1..MaxRetries, first : {me.first},
          header : {me.header}, trouble : 0..(MaxRetries - 1), fatal : BOOLEAN]

(* Every attempt but one had a trouble of its own; every one, while the    *)
(* header is an expired token, and while a token is asked for.  So at most *)
(* one attempt is lost to the header a page begins with.                   *)
Paid(me, good) ==
  /\ OcrTyped(me)
  /\ me.pc = "page" /\ good => me.trouble + 2 >= me.attempt
  /\ me.pc = "page" /\ ~good => me.trouble + 1 >= me.attempt
  /\ me.pc \in {"header", "refresh"} => me.trouble + 1 >= me.attempt
  /\ me.pc = "failed" => me.fatal \/ me.trouble + 1 >= MaxRetries

OcrInv ==
  /\ DOMAIN scan = Scans
  /\ is_api_key \in BOOLEAN
  /\ \A s \in Scans : Paid(scan[s], Ocr!Accepted(s))

(* One coroutine moves: the tokens the others hold stay what they are.     *)
LEMMA OcrMoves ==
  ASSUME OcrInv, NEW s \in Scans, NEW me, Ocr!Goes(s, me), UNCHANGED is_api_key,
         NEW new, valid' = Ocr!Held' \cap (valid \cup new) \/ valid' = valid \cap Ocr!Held',
         \A good \in BOOLEAN : (is_api_key \/ me.header \in valid') = good => Paid(me, good)
  PROVE  OcrInv'
<1>1. /\ DOMAIN scan' = Scans /\ scan'[s] = me
      /\ \A t \in Scans : t # s => scan'[t] = scan[t]
  BY DEF OcrInv, Ocr!Goes
<1>2. Paid(scan'[s], Ocr!Accepted(s)')
  <2>1. Ocr!Accepted(s)' = (is_api_key \/ me.header \in valid')
    BY <1>1 DEF Ocr!Accepted
  <2>2. (is_api_key \/ me.header \in valid') \in BOOLEAN
    BY DEF OcrInv
  <2>. QED
    BY <1>1, <2>1, <2>2
<1>3. ASSUME NEW t \in Scans, t # s PROVE Paid(scan'[t], Ocr!Accepted(t)')
  <2>1. scan'[t] = scan[t] /\ Paid(scan[t], Ocr!Accepted(t))
    BY <1>1, <1>3 DEF OcrInv
  <2>2. scan[t].header \in Ocr!Held'
    BY <2>1 DEF Ocr!Held
  <2>3. Ocr!Accepted(t) => Ocr!Accepted(t)'
    BY <2>1, <2>2 DEF Ocr!Accepted
  <2>4. Paid(scan[t], FALSE) => Paid(scan[t], TRUE)
    BY DEF Paid, OcrTyped
  <2>5. Ocr!Accepted(t) \in BOOLEAN /\ Ocr!Accepted(t)' \in BOOLEAN
    BY DEF OcrInv, Ocr!Accepted
  <2>. QED
    BY <2>1, <2>3, <2>4, <2>5
<1>. QED
  BY <1>1, <1>2, <1>3 DEF OcrInv

(* Moves that pay whatever the header is worth.                            *)
LEMMA OcrMovesPaid ==
  ASSUME OcrInv, NEW s \in Scans, NEW me, Ocr!Goes(s, me), UNCHANGED is_api_key,
         valid' = valid \cap Ocr!Held', Paid(me, FALSE)
  PROVE  OcrInv'
<1>1. Paid(me, TRUE)
  BY DEF Paid, OcrTyped
<1>2. valid' = Ocr!Held' \cap (valid \cup {}) \/ valid' = valid \cap Ocr!Held'
  OBVIOUS
<1>3. \A good \in BOOLEAN : (is_api_key \/ me.header \in valid') = good => Paid(me, good)
  BY <1>1
<1>. QED
  BY <1>2, <1>3, OcrMoves

(* Moves that keep the header.                                             *)
LEMMA OcrMovesOn ==
  ASSUME OcrInv, NEW s \in Scans, NEW me, Ocr!Goes(s, me), UNCHANGED is_api_key,
         valid' = valid \cap Ocr!Held', Paid(me, Ocr!Accepted(s)),
         me.pc = "page" => me.header = scan[s].header
  PROVE  OcrInv'
<1>1. CASE me.pc = "page"
  <2>1. scan'[s] = me
    BY DEF OcrInv, Ocr!Goes
  <2>2. me.header \in Ocr!Held'
    BY <2>1 DEF Ocr!Held
  <2>3. (is_api_key \/ me.header \in valid') = Ocr!Accepted(s)
    BY <1>1, <2>2 DEF Ocr!Accepted, OcrInv
  <2>4. \A good \in BOOLEAN : (is_api_key \/ me.header \in valid') = good => Paid(me, good)
    BY <2>3
  <2>5. valid' = Ocr!Held' \cap (valid \cup {}) \/ valid' = valid \cap Ocr!Held'
    OBVIOUS
  <2>. QED
    BY <2>4, <2>5, OcrMoves
<1>2. CASE me.pc # "page"
  <2>1. Paid(me, FALSE)
    BY <1>2 DEF Paid
  <2>. QED
    BY <2>1, OcrMovesPaid
<1>. QED
  BY <1>1, <1>2

LEMMA OcrNumbers ==
  ASSUME Ocr!OcrAssumption
  PROVE  0 \in 0..(MaxRetries - 1) /\ 1 \in 1..MaxRetries /\ 0 + 1 >= 1
BY DEF Ocr!OcrAssumption

LEMMA OcrIdle ==
  ASSUME Ocr!OcrAssumption
  PROVE  /\ OcrTyped(Ocr!Idle) /\ Ocr!Idle.pc = "idle" /\ Ocr!Idle.attempt = 1
         /\ Ocr!Idle.trouble = 0 /\ Ocr!Idle.fatal = FALSE
BY OcrNumbers DEF Ocr!Idle, OcrTyped, OcrPlaces

(* The next attempt, or the end of the document.                           *)
LEMMA OcrRetried ==
  ASSUME Ocr!OcrAssumption, NEW me, OcrTyped(me), me.trouble + 1 >= me.attempt,
         NEW good \in BOOLEAN, ~good => me.trouble >= me.attempt \/ me.attempt = MaxRetries
  PROVE  /\ Paid(Ocr!Retried(me), good)
         /\ Ocr!Retried(me).pc = "page" => Ocr!Retried(me).header = me.header
<1>1. /\ MaxRetries \in Nat \ {0} /\ me.attempt \in 1..MaxRetries
      /\ me.trouble \in 0..(MaxRetries - 1)
  BY DEF Ocr!OcrAssumption, OcrTyped
<1>2. CASE me.attempt = MaxRetries
  <2> DEFINE end == [Ocr!Idle EXCEPT !.pc = "failed", !.trouble = me.trouble]
  <2>1. Ocr!Retried(me) = end
    BY <1>2 DEF Ocr!Retried
  <2>2. OcrTyped(end) /\ end.pc = "failed" /\ end.trouble = me.trouble
    BY <1>1, OcrIdle DEF OcrTyped, OcrPlaces
  <2>3. me.trouble + 1 >= MaxRetries
    BY <1>2
  <2> HIDE DEF end
  <2>. QED
    BY <2>1, <2>2, <2>3 DEF Paid
<1>3. CASE me.attempt # MaxRetries
  <2> DEFINE next == [me EXCEPT !.pc = "page", !.attempt = me.attempt + 1]
  <2>1. Ocr!Retried(me) = next
    BY <1>3 DEF Ocr!Retried
  <2>2. me.attempt + 1 \in 1..MaxRetries /\ me.trouble + 2 >= me.attempt + 1
    BY <1>1, <1>3
  <2>3. ~good => me.trouble + 1 >= me.attempt + 1
    BY <1>1, <1>3
  <2>4. /\ OcrTyped(next) /\ next.pc = "page" /\ next.trouble = me.trouble
        /\ next.attempt = me.attempt + 1 /\ next.header = me.header
    BY <2>2 DEF OcrTyped, OcrPlaces
  <2> HIDE DEF next
  <2>. QED
    BY <2>1, <2>2, <2>3, <2>4 DEF Paid
<1>. QED
  BY <1>2, <1>3

LEMMA OcrTroubled ==
  ASSUME Ocr!OcrAssumption, NEW me, OcrTyped(me)
  PROVE  LET lost == Ocr!Troubled(me) IN
         /\ OcrTyped(lost) /\ lost.attempt = me.attempt /\ lost.pc = me.pc
         /\ lost.header = me.header /\ lost.fatal = me.fatal
         /\ lost.trouble = me.trouble + 1 \/ lost.trouble + 1 = MaxRetries
         /\ lost.trouble >= me.trouble
<1> DEFINE n == IF me.trouble < MaxRetries - 1 THEN me.trouble + 1 ELSE me.trouble
           after == [me EXCEPT !.trouble = n]
<1>1. /\ n \in 0..(MaxRetries - 1) /\ (n = me.trouble + 1 \/ n + 1 = MaxRetries)
      /\ n >= me.trouble
  BY DEF Ocr!OcrAssumption, OcrTyped
<1>2. Ocr!Troubled(me) = after
  BY DEF Ocr!Troubled
<1> HIDE DEF n
<1>3. /\ OcrTyped(after) /\ after.attempt = me.attempt /\ after.pc = me.pc
      /\ after.header = me.header /\ after.fatal = me.fatal /\ after.trouble = n
  BY <1>1 DEF OcrTyped
<1> HIDE DEF after
<1>. QED
  BY <1>1, <1>2, <1>3

(* A document begins or ends.                                              *)
LEMMA OcrStarts ==
  ASSUME Ocr!OcrAssumption, OcrInv, NEW s \in Scans,
         \/ Ocr!Start(s) \/ Ocr!TokenFails(s) \/ Ocr!PageFailsHard(s) \/ Ocr!Raised(s)
  PROVE  OcrInv'
<1> DEFINE page == [Ocr!Idle EXCEPT !.pc = "page", !.first = iam_token, !.header = iam_token]
           header == [Ocr!Idle EXCEPT !.pc = "header"]
           fatal == [Ocr!Idle EXCEPT !.pc = "failed", !.fatal = TRUE]
<1>1. UNCHANGED is_api_key /\ valid' = valid \cap Ocr!Held'
  BY DEF Ocr!Start, Ocr!TokenFails, Ocr!PageFailsHard, Ocr!Raised
<1>2. Paid(page, FALSE) /\ Paid(header, FALSE) /\ Paid(fatal, FALSE) /\ Paid(Ocr!Idle, FALSE)
  <2>1. /\ OcrTyped(page) /\ page.pc = "page" /\ page.attempt = 1 /\ page.trouble = 0
    BY OcrIdle DEF OcrTyped, OcrPlaces
  <2>2. /\ OcrTyped(header) /\ header.pc = "header" /\ header.attempt = 1
        /\ header.trouble = 0
    BY OcrIdle DEF OcrTyped, OcrPlaces
  <2>3. /\ OcrTyped(fatal) /\ fatal.pc = "failed" /\ fatal.fatal = TRUE
    BY OcrIdle DEF OcrTyped, OcrPlaces
  <2> HIDE DEF page, header, fatal
  <2>. QED
    BY <2>1, <2>2, <2>3, OcrIdle, OcrNumbers DEF Paid
<1>3. \/ Ocr!Goes(s, page) \/ Ocr!Goes(s, header) \/ Ocr!Goes(s, fatal) \/ Ocr!Goes(s, Ocr!Idle)
  <2>1. CASE Ocr!Start(s)
    BY <2>1 DEF Ocr!Start
  <2>2. CASE Ocr!TokenFails(s) \/ Ocr!PageFailsHard(s) \/ Ocr!Raised(s)
    BY <2>2 DEF Ocr!TokenFails, Ocr!PageFailsHard, Ocr!Raised, Ocr!Fatal
  <2>. QED
    BY <2>1, <2>2
<1> HIDE DEF page, header, fatal
<1>. QED
  BY <1>1, <1>2, <1>3, OcrMovesPaid

LEMMA OcrTyping ==
  ASSUME OcrInv, NEW s \in Scans
  PROVE  /\ OcrTyped(scan[s]) /\ Ocr!Accepted(s) \in BOOLEAN
         /\ Paid(scan[s], Ocr!Accepted(s))
BY DEF OcrInv, Paid, Ocr!Accepted

(* The next page begins anew, maybe with an expired header.                *)
LEMMA OcrRecognized ==
  ASSUME Ocr!OcrAssumption, OcrInv, NEW s \in Scans, Ocr!Recognized(s)
  PROVE  OcrInv'
<1> DEFINE me == scan[s]
           next == [me EXCEPT !.page = me.page + 1, !.attempt = 1, !.header = me.first,
                              !.trouble = 0]
<1>1. UNCHANGED is_api_key /\ valid' = valid \cap Ocr!Held'
  BY DEF Ocr!Recognized
<1>2. me.pc = "page" /\ OcrTyped(me)
  BY OcrTyping DEF Ocr!Recognized
<1>3. Ocr!Goes(s, next) \/ Ocr!Goes(s, Ocr!Idle)
  BY DEF Ocr!Recognized
<1> HIDE DEF me
<1>4. OcrTyped(next) /\ next.pc = "page" /\ next.attempt = 1 /\ next.trouble = 0
  BY <1>2, OcrNumbers DEF OcrTyped
<1> HIDE DEF next
<1>5. Paid(next, FALSE) /\ Paid(Ocr!Idle, FALSE)
  BY <1>4, OcrIdle, OcrNumbers DEF Paid
<1>. QED
  BY <1>1, <1>3, <1>5, OcrMovesPaid

(* An attempt ends, with a trouble of its own.                             *)
LEMMA OcrPageFails ==
  ASSUME Ocr!OcrAssumption, OcrInv, NEW s \in Scans, Ocr!PageFails(s)
  PROVE  OcrInv'
<1> DEFINE me == scan[s]
           lost == Ocr!Troubled(me)
<1>1. /\ me.pc = "page" /\ Ocr!Goes(s, Ocr!Retried(lost)) /\ UNCHANGED is_api_key
      /\ valid' = valid \cap Ocr!Held'
  BY DEF Ocr!PageFails
<1>2. OcrTyped(me) /\ Paid(me, Ocr!Accepted(s)) /\ Ocr!Accepted(s) \in BOOLEAN
  BY OcrTyping
<1>3. /\ OcrTyped(lost) /\ lost.attempt = me.attempt /\ lost.header = me.header
      /\ lost.trouble = me.trouble + 1 \/ lost.trouble + 1 = MaxRetries
  BY <1>2, OcrTroubled
<1> HIDE DEF me, lost
<1>4. /\ MaxRetries \in Nat \ {0} /\ me.attempt \in 1..MaxRetries
      /\ me.trouble \in 0..(MaxRetries - 1)
  BY <1>2 DEF OcrTyped, Ocr!OcrAssumption
<1>5. me.trouble + 2 >= me.attempt /\ (~Ocr!Accepted(s) => me.trouble + 1 >= me.attempt)
  BY <1>1, <1>2, <1>4 DEF Paid
<1>6. lost.trouble + 1 >= lost.attempt
  BY <1>3, <1>4, <1>5
<1>7. ASSUME ~Ocr!Accepted(s) PROVE lost.trouble >= lost.attempt \/ lost.attempt = MaxRetries
  <2>1. lost.trouble \in 0..(MaxRetries - 1)
    BY <1>3 DEF OcrTyped
  <2>2. CASE lost.trouble = me.trouble + 1
    BY <1>3, <1>4, <1>5, <1>7, <2>2
  <2>3. CASE lost.trouble + 1 = MaxRetries
    BY <1>3, <1>4, <2>1, <2>3
  <2>. QED
    BY <1>3, <2>2, <2>3
<1>8. /\ Paid(Ocr!Retried(lost), Ocr!Accepted(s))
      /\ Ocr!Retried(lost).pc = "page" => Ocr!Retried(lost).header = lost.header
  BY <1>2, <1>3, <1>6, <1>7, OcrRetried
<1> DEFINE next == Ocr!Retried(lost)
<1>9. Ocr!Goes(s, next) /\ Paid(next, Ocr!Accepted(s))
      /\ (next.pc = "page" => next.header = scan[s].header)
  BY <1>1, <1>3, <1>8 DEF me
<1> HIDE DEF next
<1>. QED
  BY <1>1, <1>9, OcrMovesOn


(* A new token is good, whether the document begins with it or goes on.    *)
LEMMA OcrTokenGranted ==
  ASSUME Ocr!OcrAssumption, OcrInv, NEW s \in Scans, Ocr!TokenGranted(s)
  PROVE  OcrInv'
<1> DEFINE me == scan[s]
           token == Ocr!Fresh
           begun == [me EXCEPT !.pc = "page", !.first = token, !.header = token]
           renewed == [me EXCEPT !.header = token]
           next == IF me.pc = "header" THEN begun ELSE Ocr!Retried(renewed)
<1>1. /\ me.pc \in {"header", "refresh"} /\ Ocr!Goes(s, next) /\ UNCHANGED is_api_key
      /\ valid' = Ocr!Held' \cap (valid \cup {token})
  BY DEF Ocr!TokenGranted
<1>2. OcrTyped(me) /\ Paid(me, Ocr!Accepted(s))
  BY OcrTyping
<1>3. me.trouble + 1 >= me.attempt
  BY <1>1, <1>2 DEF Paid
<1>4. me.attempt \in 1..MaxRetries /\ me.trouble \in 0..(MaxRetries - 1)
  BY <1>2 DEF OcrTyped
<1> HIDE DEF me, token
<1>5. /\ OcrTyped(begun) /\ begun.pc = "page" /\ begun.attempt = me.attempt
      /\ begun.trouble = me.trouble
  BY <1>2 DEF OcrTyped, OcrPlaces
<1>6. /\ OcrTyped(renewed) /\ renewed.attempt = me.attempt /\ renewed.trouble = me.trouble
      /\ renewed.header = token
  BY <1>2 DEF OcrTyped
<1> HIDE DEF begun, renewed
<1>7. scan'[s] = next
  BY <1>1 DEF OcrInv, Ocr!Goes
<1>8. CASE me.pc = "header"
  <2>1. Paid(begun, TRUE) /\ Paid(begun, FALSE)
    BY <1>3, <1>4, <1>5 DEF Paid
  <2>2. next = begun
    BY <1>8
  <2> HIDE DEF next
  <2>3. \A good \in BOOLEAN : (is_api_key \/ next.header \in valid') = good => Paid(next, good)
    BY <2>1, <2>2
  <2>. QED
    BY <1>1, <2>3, OcrMoves
<1>9. CASE me.pc = "refresh"
  <2>1. next = Ocr!Retried(renewed)
    BY <1>9
  <2>2. Paid(next, TRUE) /\ (next.pc = "page" => next.header = token)
    BY <1>3, <1>6, <2>1, OcrRetried
  <2> HIDE DEF next
  <2>3. CASE next.pc = "page"
    <3>1. token \in Ocr!Held'
      BY <1>7, <2>2, <2>3 DEF Ocr!Held
    <3>2. \A good \in BOOLEAN :
             (is_api_key \/ next.header \in valid') = good => Paid(next, good)
      BY <1>1, <2>2, <2>3, <3>1
    <3>. QED
      BY <1>1, <3>2, OcrMoves
  <2>4. CASE next.pc # "page"
    <3>1. Paid(next, FALSE)
      BY <2>2, <2>4 DEF Paid
    <3>2. \A good \in BOOLEAN :
             (is_api_key \/ next.header \in valid') = good => Paid(next, good)
      BY <2>2, <3>1
    <3>. QED
      BY <1>1, <3>2, OcrMoves
  <2>. QED
    BY <2>3, <2>4
<1>. QED
  BY <1>1, <1>8, <1>9

(* A refusal of a good token is a trouble; that of an expired one was paid *)
(* for when it expired, but for the one a page begins with.                *)
LEMMA OcrRefused ==
  ASSUME Ocr!OcrAssumption, OcrInv, NEW s \in Scans, Ocr!Refused(s)
  PROVE  OcrInv'
<1> DEFINE me == scan[s]
           lost == IF Ocr!Accepted(s) THEN Ocr!Troubled(me) ELSE me
           next == [lost EXCEPT !.pc = "refresh"]
<1>1. /\ me.pc = "page" /\ Ocr!Goes(s, next) /\ UNCHANGED is_api_key
      /\ valid' = valid \cap Ocr!Held'
  BY DEF Ocr!Refused
<1>2. OcrTyped(me) /\ Paid(me, Ocr!Accepted(s)) /\ Ocr!Accepted(s) \in BOOLEAN
  BY OcrTyping
<1>3. /\ MaxRetries \in Nat \ {0} /\ me.attempt \in 1..MaxRetries
      /\ me.trouble \in 0..(MaxRetries - 1)
  BY <1>2 DEF OcrTyped, Ocr!OcrAssumption
<1> HIDE DEF me
<1>4. OcrTyped(lost) /\ lost.trouble + 1 >= lost.attempt
  <2>1. CASE Ocr!Accepted(s)
    <3>1. me.trouble + 2 >= me.attempt
      BY <1>1, <1>2, <2>1 DEF Paid
    <3>2. /\ OcrTyped(lost) /\ lost.attempt = me.attempt
          /\ lost.trouble = me.trouble + 1 \/ lost.trouble + 1 = MaxRetries
      BY <1>2, <2>1, OcrTroubled
    <3> HIDE DEF lost
    <3>. QED
      BY <1>3, <3>1, <3>2
  <2>2. CASE ~Ocr!Accepted(s)
    BY <1>1, <1>2, <2>2 DEF Paid
  <2>. QED
    BY <1>2, <2>1, <2>2
<1> HIDE DEF lost
<1>5. /\ OcrTyped(next) /\ next.pc = "refresh" /\ next.trouble = lost.trouble
      /\ next.attempt = lost.attempt
  BY <1>4 DEF OcrTyped, OcrPlaces
<1> HIDE DEF next
<1>6. Paid(next, FALSE)
  BY <1>4, <1>5 DEF Paid
<1>. QED
  BY <1>1, <1>6, OcrMovesPaid

(* An expiry is a trouble of every page that was using the token.          *)
LEMMA OcrExpires ==
  ASSUME Ocr!OcrAssumption, OcrInv, NEW t \in valid, Ocr!Expire(t)
  PROVE  OcrInv'
<1>1. /\ UNCHANGED is_api_key /\ valid' = valid \ {t} /\ DOMAIN scan' = Scans
      /\ \A s \in Scans :
           scan'[s] = IF scan[s].pc = "page" /\ scan[s].header = t
                      THEN Ocr!Troubled(scan[s]) ELSE scan[s]
  BY DEF Ocr!Expire
<1>2. ASSUME NEW s \in Scans PROVE Paid(scan'[s], Ocr!Accepted(s)')
  <2> DEFINE me == scan[s]
             lost == Ocr!Troubled(me)
  <2>1. OcrTyped(me) /\ Paid(me, Ocr!Accepted(s)) /\ Ocr!Accepted(s) \in BOOLEAN
    BY OcrTyping
  <2>2. /\ MaxRetries \in Nat \ {0} /\ me.attempt \in 1..MaxRetries
        /\ me.trouble \in 0..(MaxRetries - 1)
    BY <2>1 DEF OcrTyped, Ocr!OcrAssumption
  <2>3. /\ OcrTyped(lost) /\ lost.attempt = me.attempt /\ lost.pc = me.pc
        /\ lost.header = me.header /\ lost.fatal = me.fatal
        /\ lost.trouble = me.trouble + 1 \/ lost.trouble + 1 = MaxRetries
    BY <2>1, OcrTroubled
  <2>4. Ocr!Accepted(s)' = (is_api_key \/ scan'[s].header \in valid')
    BY <1>1 DEF Ocr!Accepted
  <2>5. Ocr!Accepted(s) = (is_api_key \/ me.header \in valid)
    BY DEF Ocr!Accepted
  <2>6. CASE me.pc = "page" /\ me.header = t
    <3>1. scan'[s] = lost
      BY <1>1, <2>6
    <3> HIDE DEF me, lost
    <3>2. me.trouble + 2 >= me.attempt
      BY <2>1, <2>2, <2>6 DEF Paid
    <3>3. lost.trouble \in 0..(MaxRetries - 1) /\ lost.attempt = me.attempt
      BY <2>3 DEF OcrTyped
    <3>4. lost.trouble + 1 >= lost.attempt
      <4>1. CASE lost.trouble = me.trouble + 1
        BY <2>2, <3>2, <3>3, <4>1
      <4>2. CASE lost.trouble + 1 = MaxRetries
        BY <2>2, <3>3, <4>2
      <4>. QED
        BY <2>3, <4>1, <4>2
    <3>5. lost.trouble + 2 >= lost.attempt
      BY <2>2, <3>3, <3>4
    <3>. QED
      BY <2>3, <2>6, <3>1, <3>4, <3>5 DEF Paid
  <2>7. CASE ~(me.pc = "page" /\ me.header = t)
    <3>1. scan'[s] = me
      BY <1>1, <2>7
    <3> HIDE DEF me
    <3>2. CASE me.pc = "page"
      <4>1. Ocr!Accepted(s)' = Ocr!Accepted(s)
        BY <1>1, <2>4, <2>5, <2>7, <3>1, <3>2
      <4>. QED
        BY <2>1, <3>1, <4>1
    <3>3. CASE me.pc # "page"
      BY <2>1, <3>1, <3>3 DEF Paid
    <3>. QED
      BY <3>2, <3>3
  <2>. QED
    BY <2>6, <2>7
<1>. QED
  BY <1>1, <1>2 DEF OcrInv

LEMMA OcrInit ==
  ASSUME Ocr!OcrAssumption, Ocr!Init
  PROVE  OcrInv
<1>1. /\ is_api_key \in BOOLEAN /\ DOMAIN scan = Scans
      /\ \A s \in Scans : scan[s] = Ocr!Idle
  BY DEF Ocr!Init
<1>2. Paid(Ocr!Idle, TRUE) /\ Paid(Ocr!Idle, FALSE)
  BY OcrIdle DEF Paid
<1>3. \A s \in Scans : Ocr!Accepted(s) \in BOOLEAN
  BY <1>1 DEF Ocr!Accepted
<1>. QED
  BY <1>1, <1>2, <1>3 DEF OcrInv

LEMMA OcrStep ==
  ASSUME Ocr!OcrAssumption, OcrInv, [Ocr!Next]_(Ocr!vars)
  PROVE  OcrInv'
<1>1. CASE UNCHANGED Ocr!vars
  BY <1>1 DEF Ocr!vars, OcrInv, Ocr!Accepted
<1>2. ASSUME NEW s \in Scans,
             Ocr!Start(s) \/ Ocr!TokenFails(s) \/ Ocr!PageFailsHard(s) \/ Ocr!Raised(s)
      PROVE  OcrInv'
  BY <1>2, OcrStarts
<1>3. ASSUME NEW s \in Scans, Ocr!TokenGranted(s) PROVE OcrInv'
  BY <1>3, OcrTokenGranted
<1>4. ASSUME NEW s \in Scans, Ocr!Recognized(s) PROVE OcrInv'
  BY <1>4, OcrRecognized
<1>5. ASSUME NEW s \in Scans, Ocr!Refused(s) PROVE OcrInv'
  BY <1>5, OcrRefused
<1>6. ASSUME NEW s \in Scans, Ocr!PageFails(s) PROVE OcrInv'
  BY <1>6, OcrPageFails
<1>7. ASSUME NEW t \in valid, Ocr!Expire(t) PROVE OcrInv'
  BY <1>7, OcrExpires
<1>. QED
  BY <1>1, <1>2, <1>3, <1>4, <1>5, <1>6, <1>7 DEF Ocr!Next

(* adapters/ocr/yandex_vision.py: a page is given up, without an error that*)
(* is not retried, only when all its attempts but one had a trouble other  *)
(* than a header that had expired before the page was begun.               *)
THEOREM ExpiryHarmlessHolds == Ocr!Spec => []ExpiryHarmless
<1>1. Ocr!Init => OcrInv
  BY OcrInit, OcrAssumed
<1>2. OcrInv /\ [Ocr!Next]_(Ocr!vars) => OcrInv'
  BY OcrStep, OcrAssumed
<1>3. OcrInv => ExpiryHarmless
  <2> SUFFICES ASSUME OcrInv, NEW s \in Scans, scan[s].pc = "failed", ~scan[s].fatal
               PROVE  scan[s].trouble >= MaxRetries - 1
    BY DEF ExpiryHarmless, Ocr!ExpiryHarmless
  <2>1. scan[s].trouble + 1 >= MaxRetries /\ scan[s].trouble \in 0..(MaxRetries - 1)
    BY OcrTyping DEF Paid, OcrTyped
  <2>2. MaxRetries \in Nat
    BY OcrAssumed DEF Ocr!OcrAssumption
  <2>. QED
    BY <2>1, <2>2
<1>. QED
  BY <1>1, <1>2, <1>3, PTL DEF Ocr!Spec
=============================================================================
