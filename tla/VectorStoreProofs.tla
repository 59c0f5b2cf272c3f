-------------------------- MODULE VectorStoreProofs --------------------------
(* Proofs about the two collections of Qdrant: VectorStore, for every number *)
(* of processes and points and every size of a page, and SectionTopics, for  *)
(* all topics, sections and similarities.                                    *)
EXTENDS MCVectorStore, FiniteSetTheorems, SequenceTheorems, TLAPS

-----------------------------------------------------------------------------
(* SectionTopics: what holds in each phase of the script.                    *)

TopicRun == {0, 1, 2}
ScriptPc == {"start", "clean topics", "list", "drop", "topic", "ensure", "create", "upsert",
             "documents", "section", "ensure for search", "create for search", "search", "link"}
Script == [pc : ScriptPc, run : {1, 2}, todo : SUBSET (Topics \cup Sections),
           item : Topics \cup Sections \cup {None}, found : SUBSET (Topics \X TopicRun)]

TopicsTyped ==
    /\ topic \in [Topics -> TopicRun]
    /\ vector \in [Topics -> TopicRun]
    /\ script \in Script
    /\ topic_collection \in BOOLEAN

Cleaning == {"start", "clean topics", "list", "drop"}
Creating == {"ensure", "create", "upsert"}

(* There are no vectors without a collection, and the script counts on the   *)
(* collection only where it made sure of it: nobody else deletes it.         *)
VectorsKept ==
    /\ ~topic_collection => \A t \in Topics : vector[t] = 0
    /\ script.pc \in {"upsert", "search", "drop"} => topic_collection

(* The rows are emptied before the vectors, ...                              *)
RowsEmptied == script.pc \in {"list", "drop"} => \A t \in Topics : topic[t] = 0

(* ... and once both are, every vector is that of a row.                     *)
VectorsResolve ==
    script.pc \notin Cleaning =>
        \A t \in Topics : vector[t] # 0 => topic[t] = vector[t]

(* Each row is created once, before its vector.                              *)
RowsFirst ==
    /\ script.pc \in {"topic"} \cup Creating =>
         script.todo \subseteq Topics /\ \A t \in script.todo : topic[t] = 0
    /\ script.pc \in Creating => script.item \in Topics /\ topic[script.item] = script.run

TopicInv ==
    TopicsTyped /\ VectorsKept /\ RowsEmptied /\ VectorsResolve /\ RowsFirst /\ T!MatchesResolve

LEMMA TopicInit ==
  ASSUME T!Init
  PROVE  TopicInv
<1>1. /\ topic = [t \in Topics |-> 0] /\ vector = [t \in Topics |-> 0]
      /\ topic_collection = FALSE /\ script = T!Asleep
  BY DEF T!Init, T!Gone
<1>2. T!Asleep \in Script /\ T!Asleep.pc = "start"
  BY DEF T!Asleep, Script, ScriptPc
<1>3. TopicsTyped
  BY <1>1, <1>2 DEF TopicsTyped, TopicRun
<1>4. VectorsKept /\ RowsEmptied /\ VectorsResolve /\ RowsFirst /\ T!MatchesResolve
  BY <1>1, <1>2 DEF VectorsKept, RowsEmptied, VectorsResolve, RowsFirst, Cleaning, Creating,
                    T!MatchesResolve, T!At
<1>. QED
  BY <1>3, <1>4 DEF TopicInv

(* The script goes on, and PostgreSQL and Qdrant stay as they are.           *)
LEMMA ScriptMoves ==
  ASSUME TopicInv, NEW me \in Script, script' = me, UNCHANGED <<topic, topic_collection, vector>>,
         me.pc \in {"upsert", "search", "drop"} => topic_collection,
         me.pc \in {"list", "drop"} => script.pc \in {"list", "drop"},
         me.pc \notin Cleaning => script.pc \notin Cleaning,
         me.pc \in {"topic"} \cup Creating =>
             /\ me.todo \subseteq script.todo
             /\ script.pc \in {"topic"} \cup Creating,
         me.pc \in Creating => /\ script.pc \in Creating
                               /\ me.item = script.item /\ me.run = script.run,
         me.pc = "link" => T!Resolved(me.found)
  PROVE  TopicInv'
<1>1. TopicsTyped'
  BY DEF TopicInv, TopicsTyped
<1>2. VectorsKept' /\ RowsEmptied' /\ VectorsResolve' /\ RowsFirst'
  BY DEF TopicInv, VectorsKept, RowsEmptied, VectorsResolve, RowsFirst
<1>3. T!MatchesResolve'
  BY DEF T!MatchesResolve, T!At, T!Resolved
<1>. QED
  BY <1>1, <1>2, <1>3 DEF TopicInv

(* The script starts over.                                                   *)
LEMMA RestartKeeps ==
  ASSUME TopicInv, T!Restart, UNCHANGED <<topic, topic_collection, vector>>
  PROVE  TopicInv'
<1> DEFINE me == [T!Asleep EXCEPT !.run = 3 - script.run]
<1>1. 3 - script.run \in {1, 2}
  BY DEF TopicInv, TopicsTyped, Script
<1>2. me \in Script /\ me.pc = "start"
  BY <1>1 DEF T!Asleep, Script, ScriptPc
<1>3. script' = me
  BY DEF T!Restart
<1> HIDE DEF me
<1>. QED
  BY <1>2, <1>3, ScriptMoves DEF Cleaning, Creating

LEMMA CleanKeeps ==
  ASSUME TopicInv, T!CleanSections \/ T!CleanTopics \/ T!DropCollection
  PROVE  TopicInv'
<1>1. script \in Script
  BY DEF TopicInv, TopicsTyped
<1>2. CASE T!CleanSections
  <2> DEFINE me == [script EXCEPT !.pc = "clean topics"]
  <2>1. me \in Script /\ me.pc = "clean topics"
    BY <1>1 DEF Script, ScriptPc
  <2>2. script' = me /\ UNCHANGED <<topic, topic_collection, vector>>
    BY <1>2 DEF T!CleanSections, T!Goes, T!qdrant
  <2> HIDE DEF me
  <2>. QED
    BY <2>1, <2>2, ScriptMoves DEF Cleaning, Creating
<1>3. CASE T!CleanTopics
  <2>1. /\ topic' = [t \in Topics |-> 0] /\ UNCHANGED <<topic_collection, vector>>
        /\ script' = [script EXCEPT !.pc = "list"]
    BY <1>3 DEF T!CleanTopics, T!Gone, T!Goes, T!qdrant
  <2>2. script' \in Script /\ script'.pc = "list"
    BY <1>1, <2>1 DEF Script, ScriptPc
  <2>. QED
    BY <2>1, <2>2 DEF TopicInv, TopicsTyped, TopicRun, VectorsKept, RowsEmptied, VectorsResolve,
                      RowsFirst, Cleaning, Creating, T!MatchesResolve, T!At
<1>4. CASE T!DropCollection
  <2>1. /\ script.pc = "drop" /\ vector' = [t \in Topics |-> 0]
        /\ topic_collection' = FALSE /\ UNCHANGED topic
        /\ script' = [script EXCEPT !.pc = "topic", !.todo = Topics]
    BY <1>4 DEF T!DropCollection, T!At, T!Gone, T!Seed, T!postgres
  <2>2. script' \in Script /\ script'.pc = "topic" /\ script'.todo = Topics
    BY <1>1, <2>1 DEF Script, ScriptPc
  <2>3. \A t \in Topics : topic[t] = 0
    BY <2>1 DEF TopicInv, RowsEmptied
  <2>. QED
    BY <2>1, <2>2, <2>3 DEF TopicInv, TopicsTyped, TopicRun, VectorsKept, RowsEmptied,
                      VectorsResolve, RowsFirst, Cleaning, Creating, T!MatchesResolve, T!At
<1>. QED
  BY <1>2, <1>3, <1>4

(* No collection is listed: then there are no vectors either.                *)
LEMMA ListKeeps ==
  ASSUME TopicInv, T!ListCollections
  PROVE  TopicInv'
<1>1. script \in Script /\ script.pc = "list" /\ UNCHANGED <<topic, topic_collection, vector>>
  BY DEF TopicInv, TopicsTyped, T!ListCollections, T!At, T!postgres, T!qdrant
<1>2. CASE topic_collection
  <2> DEFINE me == [script EXCEPT !.pc = "drop"]
  <2>1. me \in Script /\ me.pc = "drop"
    BY <1>1 DEF Script, ScriptPc
  <2>2. script' = me
    BY <1>2 DEF T!ListCollections, T!Goes
  <2> HIDE DEF me
  <2>. QED
    BY <1>1, <1>2, <2>1, <2>2, ScriptMoves DEF Cleaning, Creating
<1>3. CASE ~topic_collection
  <2>1. script' = [script EXCEPT !.pc = "topic", !.todo = Topics]
    BY <1>3 DEF T!ListCollections, T!Seed
  <2>2. script' \in Script /\ script'.pc = "topic" /\ script'.todo = Topics
    BY <1>1, <2>1 DEF Script, ScriptPc
  <2>3. \A t \in Topics : topic[t] = 0 /\ vector[t] = 0
    BY <1>1, <1>3 DEF TopicInv, RowsEmptied, VectorsKept
  <2>. QED
    BY <1>1, <2>2, <2>3 DEF TopicInv, TopicsTyped, VectorsKept, RowsEmptied,
                      VectorsResolve, RowsFirst, Cleaning, Creating, T!MatchesResolve, T!At
<1>. QED
  BY <1>2, <1>3

LEMMA InsertTopicKeeps ==
  ASSUME TopicInv, NEW t \in Topics, T!InsertTopic(t)
  PROVE  TopicInv'
<1>1. /\ script.pc = "topic" /\ t \in script.todo /\ topic' = [topic EXCEPT ![t] = script.run]
      /\ UNCHANGED <<topic_collection, vector>>
      /\ script' = [script EXCEPT !.pc = "ensure", !.todo = @ \ {t}, !.item = t]
  BY DEF T!InsertTopic, T!At, T!qdrant
<1>2. script \in Script /\ script.run \in {1, 2} /\ TopicsTyped
  BY DEF TopicInv, TopicsTyped, Script
<1>3. /\ script' \in Script /\ script'.pc = "ensure" /\ script'.todo = script.todo \ {t}
      /\ script'.item = t /\ script'.run = script.run
  BY <1>1, <1>2 DEF Script, ScriptPc
<1>4. /\ topic' \in [Topics -> TopicRun] /\ topic'[t] = script.run
      /\ \A u \in Topics : u # t => topic'[u] = topic[u]
  BY <1>1, <1>2 DEF TopicsTyped, TopicRun
<1>5. vector[t] = 0
  BY <1>1 DEF TopicInv, RowsFirst, VectorsResolve, Cleaning
<1>6. TopicsTyped' /\ VectorsKept' /\ RowsEmptied' /\ T!MatchesResolve'
  BY <1>1, <1>2, <1>3, <1>4 DEF TopicInv, TopicsTyped, VectorsKept, RowsEmptied,
                                T!MatchesResolve, T!At
<1>7. VectorsResolve' /\ RowsFirst'
  BY <1>1, <1>3, <1>4, <1>5 DEF TopicInv, VectorsResolve, RowsFirst, Cleaning, Creating
<1>. QED
  BY <1>6, <1>7 DEF TopicInv

LEMMA UpsertVectorKeeps ==
  ASSUME TopicInv, T!UpsertVector
  PROVE  TopicInv'
<1>1. /\ script.pc = "upsert" /\ vector' = [vector EXCEPT ![script.item] = script.run]
      /\ UNCHANGED <<topic, topic_collection>> /\ script' = [script EXCEPT !.pc = "topic"]
  BY DEF T!UpsertVector, T!At, T!Synced, T!postgres
<1>2. script \in Script /\ script.run \in {1, 2} /\ TopicsTyped
  BY DEF TopicInv, TopicsTyped, Script
<1>3. script' \in Script /\ script'.pc = "topic" /\ script'.todo = script.todo
  BY <1>1, <1>2 DEF Script, ScriptPc
<1>4. script.item \in Topics /\ topic[script.item] = script.run
  BY <1>1 DEF TopicInv, RowsFirst, Creating
<1>5. /\ vector' \in [Topics -> TopicRun] /\ vector'[script.item] = script.run
      /\ \A u \in Topics : u # script.item => vector'[u] = vector[u]
  BY <1>1, <1>2, <1>4 DEF TopicsTyped, TopicRun
<1>6. topic_collection
  BY <1>1 DEF TopicInv, VectorsKept
<1>7. TopicsTyped' /\ VectorsKept' /\ RowsEmptied' /\ T!MatchesResolve'
  BY <1>1, <1>2, <1>3, <1>5, <1>6 DEF TopicInv, TopicsTyped, VectorsKept, RowsEmptied,
                                T!MatchesResolve, T!At
<1>8. VectorsResolve' /\ RowsFirst'
  BY <1>1, <1>3, <1>4, <1>5 DEF TopicInv, VectorsResolve, RowsFirst, Cleaning, Creating
<1>. QED
  BY <1>7, <1>8 DEF TopicInv

(* Steps of the script that leave rows, vectors and the collection alone.    *)
LEMMA OnwardKeeps ==
  ASSUME TopicInv, NEW pc \in ScriptPc, script' = [script EXCEPT !.pc = pc],
         UNCHANGED <<topic, topic_collection, vector>>,
         pc \notin Cleaning, pc # "link", script.pc \notin Cleaning,
         pc \in {"upsert", "search"} => topic_collection,
         pc \in {"topic"} \cup Creating => script.pc \in {"topic"} \cup Creating,
         pc \in Creating => script.pc \in Creating
  PROVE  TopicInv'
<1> DEFINE me == [script EXCEPT !.pc = pc]
<1>1. script \in Script
  BY DEF TopicInv, TopicsTyped
<1>2. /\ me \in Script /\ me.pc = pc /\ me.todo = script.todo /\ me.item = script.item
      /\ me.run = script.run
  BY <1>1 DEF Script, ScriptPc
<1>3. script' = me
  OBVIOUS
<1> HIDE DEF me
<1>. QED
  BY <1>2, <1>3, ScriptMoves DEF Cleaning

LEMMA NextSectionKeeps ==
  ASSUME TopicInv, T!NextSection, UNCHANGED <<topic, topic_collection, vector>>,
         script.pc \notin Cleaning
  PROVE  TopicInv'
<1> DEFINE me == [script EXCEPT !.pc = "section", !.found = {}]
<1>1. script \in Script
  BY DEF TopicInv, TopicsTyped
<1>2. me \in Script /\ me.pc = "section"
  BY <1>1 DEF Script, ScriptPc
<1>3. script' = me
  BY DEF T!NextSection
<1> HIDE DEF me
<1>. QED
  BY <1>2, <1>3, ScriptMoves DEF Cleaning, Creating

LEMMA SyncFailsKeeps ==
  ASSUME TopicInv, T!SyncFails
  PROVE  TopicInv'
<1>1. /\ script' = [script EXCEPT !.pc = "topic"] /\ script.pc \in Creating
      /\ UNCHANGED <<topic, topic_collection, vector>>
  BY DEF T!SyncFails, T!Synced, T!postgres, T!qdrant, Creating
<1>. QED
  BY <1>1, OnwardKeeps DEF ScriptPc, Cleaning, Creating

LEMMA LoadReferencesKeeps ==
  ASSUME TopicInv, T!LoadReferences
  PROVE  TopicInv'
<1>1. script.pc = "topic" /\ UNCHANGED <<topic, topic_collection, vector>>
  BY DEF T!LoadReferences, T!At, T!postgres, T!qdrant
<1>2. T!Restart \/ script' = [script EXCEPT !.pc = "documents"]
  BY DEF T!LoadReferences, T!Goes
<1>. QED
  BY <1>1, <1>2, RestartKeeps, OnwardKeeps DEF ScriptPc, Cleaning, Creating

LEMMA IngestDocumentsKeeps ==
  ASSUME TopicInv, T!IngestDocuments
  PROVE  TopicInv'
<1>1. script.pc = "documents" /\ UNCHANGED <<topic, topic_collection, vector>> /\ script \in Script
  BY DEF TopicInv, TopicsTyped, T!IngestDocuments, T!At, T!qdrant
<1>2. PICK ingested \in SUBSET Sections :
        script' = [script EXCEPT !.pc = "section", !.todo = ingested]
  BY DEF T!IngestDocuments
<1> DEFINE me == [script EXCEPT !.pc = "section", !.todo = ingested]
<1>3. me \in Script /\ me.pc = "section"
  BY <1>1 DEF Script, ScriptPc
<1>4. script' = me
  BY <1>2
<1> HIDE DEF me
<1>. QED
  BY <1>1, <1>3, <1>4, ScriptMoves DEF Cleaning, Creating

LEMMA TakeSectionKeeps ==
  ASSUME TopicInv, NEW s \in Sections, T!TakeSection(s)
  PROVE  TopicInv'
<1>1. script.pc = "section" /\ UNCHANGED <<topic, topic_collection, vector>> /\ script \in Script
  BY DEF TopicInv, TopicsTyped, T!TakeSection, T!At, T!postgres, T!qdrant
<1> DEFINE me == [script EXCEPT !.pc = "ensure for search", !.todo = @ \ {s}, !.item = s]
<1>2. me \in Script /\ me.pc = "ensure for search"
  BY <1>1 DEF Script, ScriptPc
<1>3. script' = me
  BY DEF T!TakeSection
<1> HIDE DEF me
<1>. QED
  BY <1>1, <1>2, <1>3, ScriptMoves DEF Cleaning, Creating

(* Whatever the search finds is a topic with a vector, and so has a row.     *)
LEMMA SearchTopicsKeeps ==
  ASSUME TopicInv, T!SearchTopics
  PROVE  TopicInv'
<1> DEFINE best == T!Best(script.item, {t \in Topics : vector[t] # 0})
           found == {<<t, vector[t]>> : t \in best}
           me == [script EXCEPT !.pc = "link", !.found = found]
<1>1. script.pc = "search" /\ UNCHANGED <<topic, topic_collection, vector>> /\ TopicsTyped
  BY DEF TopicInv, T!SearchTopics, T!At, T!postgres, T!qdrant
<1>2. best \subseteq {t \in Topics : vector[t] # 0}
  BY DEF T!Best
<1>3. script' = me
  BY DEF T!SearchTopics
<1> HIDE DEF best
<1>4. found \in SUBSET (Topics \X TopicRun)
  BY <1>1, <1>2 DEF TopicsTyped
<1>5. T!Resolved(found)
  BY <1>1, <1>2 DEF TopicInv, VectorsResolve, Cleaning, T!Resolved
<1> HIDE DEF found
<1>6. me \in Script /\ me.pc = "link" /\ me.found = found
  BY <1>1, <1>4 DEF TopicsTyped, Script, ScriptPc
<1> HIDE DEF me
<1>. QED
  BY <1>1, <1>3, <1>5, <1>6, ScriptMoves DEF Cleaning, Creating

LEMMA LinkKeeps ==
  ASSUME TopicInv, T!BatchLink \/ T!LinkFails
  PROVE  TopicInv'
<1>1. T!NextSection /\ UNCHANGED <<topic, topic_collection, vector>>
  BY DEF T!BatchLink, T!LinkFails, T!postgres, T!qdrant
<1>2. script.pc \notin Cleaning
  BY DEF T!BatchLink, T!LinkFails, T!At, Cleaning
<1>. QED
  BY <1>1, <1>2, NextSectionKeeps

LEMMA EnsureKeeps ==
  ASSUME TopicInv, T!EnsureTopicCollection
  PROVE  TopicInv'
<1>1. UNCHANGED <<topic, topic_collection, vector>>
  BY DEF T!EnsureTopicCollection, T!postgres, T!qdrant
<1>2. CASE script.pc = "ensure"
  <2>1. PICK pc \in {"upsert", "create"} :
          script' = [script EXCEPT !.pc = pc] /\ (pc = "upsert" => topic_collection)
    BY <1>2 DEF T!EnsureTopicCollection, T!At, T!Goes
  <2>. QED
    BY <1>1, <1>2, <2>1, OnwardKeeps DEF ScriptPc, Cleaning, Creating
<1>3. CASE script.pc = "ensure for search"
  <2>1. PICK pc \in {"search", "create for search"} :
          script' = [script EXCEPT !.pc = pc] /\ (pc = "search" => topic_collection)
    BY <1>3 DEF T!EnsureTopicCollection, T!At, T!Goes
  <2>. QED
    BY <1>1, <1>3, <2>1, OnwardKeeps DEF ScriptPc, Cleaning, Creating
<1>. QED
  BY <1>2, <1>3 DEF T!EnsureTopicCollection, T!At

(* The collection comes to be, and nobody moves.                             *)
LEMMA CollectionCreated ==
  ASSUME TopicInv, topic_collection' = TRUE, UNCHANGED <<topic, vector, script>>
  PROVE  TopicInv'
BY DEF TopicInv, TopicsTyped, VectorsKept, RowsEmptied, VectorsResolve, RowsFirst,
   T!MatchesResolve, T!At, T!Resolved

LEMMA CreateKeeps ==
  ASSUME TopicInv, T!CreateTopicCollection
  PROVE  TopicInv'
<1>1. topic_collection' = TRUE /\ UNCHANGED <<topic, vector>> /\ script \in Script
  BY DEF T!CreateTopicCollection, T!postgres, TopicInv, TopicsTyped
<1>2. PICK me \in Script :
        /\ script' = me /\ me.todo = script.todo /\ me.item = script.item /\ me.run = script.run
        /\ \/ script.pc = "create" /\ me.pc \in {"topic", "upsert"}
           \/ script.pc = "create for search" /\ me.pc \in {"section", "search"}
  <2> DEFINE at(pc) == [script EXCEPT !.pc = pc]
             next == [script EXCEPT !.pc = "section", !.found = {}]
  <2>1. \A pc \in ScriptPc : /\ at(pc) \in Script /\ at(pc).pc = pc /\ at(pc).todo = script.todo
                             /\ at(pc).item = script.item /\ at(pc).run = script.run
    BY <1>1 DEF Script
  <2>2. /\ next \in Script /\ next.pc = "section" /\ next.todo = script.todo
        /\ next.item = script.item /\ next.run = script.run
    BY <1>1 DEF Script, ScriptPc
  <2>3. CASE script.pc = "create"
    <3>1. script' = at("topic") \/ script' = at("upsert")
      BY <2>3 DEF T!CreateTopicCollection, T!At, T!Goes, T!Synced
    <3> HIDE DEF at
    <3>. QED
      BY <2>1, <2>3, <3>1 DEF ScriptPc
  <2>4. CASE script.pc = "create for search"
    <3>1. script' = at("search") \/ script' = next
      BY <2>4 DEF T!CreateTopicCollection, T!At, T!Goes, T!NextSection
    <3> HIDE DEF at, next
    <3>. QED
      BY <2>1, <2>2, <2>4, <3>1 DEF ScriptPc
  <2>. QED
    BY <2>3, <2>4 DEF T!CreateTopicCollection, T!At
<1>3. TopicsTyped' /\ VectorsKept' /\ T!MatchesResolve'
  BY <1>1, <1>2 DEF TopicInv, TopicsTyped, VectorsKept, T!MatchesResolve, T!At
<1>4. RowsEmptied' /\ VectorsResolve' /\ RowsFirst'
  BY <1>1, <1>2 DEF TopicInv, RowsEmptied, VectorsResolve, RowsFirst, Cleaning, Creating
<1>. QED
  BY <1>3, <1>4 DEF TopicInv

(* The steps of others than the script.                                      *)
LEMMA OthersKeep ==
  ASSUME TopicInv, T!CountTopics \/ T!ServerCreates \/ T!Heal \/ UNCHANGED T!vars
  PROVE  TopicInv'
<1>1. CASE T!ServerCreates
  BY <1>1, CollectionCreated DEF T!ServerCreates, T!postgres
<1>2. CASE T!CountTopics \/ T!Heal \/ UNCHANGED T!vars
  <2>1. UNCHANGED <<topic, topic_collection, vector, script>>
    BY <1>2 DEF T!CountTopics, T!Heal, T!vars, T!postgres, T!qdrant
  <2>. QED
    BY <2>1 DEF TopicInv, TopicsTyped, VectorsKept, RowsEmptied, VectorsResolve, RowsFirst,
                T!MatchesResolve, T!At, T!Resolved
<1>. QED
  BY <1>1, <1>2

LEMMA TopicStep ==
  ASSUME TopicInv, [T!Next]_(T!vars)
  PROVE  TopicInv'
<1>1. ASSUME T!RunAgain \/ T!Crash PROVE TopicInv'
  BY <1>1, RestartKeeps DEF T!RunAgain, T!Crash, T!postgres, T!qdrant
<1>2. ASSUME T!Step PROVE TopicInv'
  BY <1>1, <1>2, CleanKeeps, ListKeeps, InsertTopicKeeps, EnsureKeeps, CreateKeeps,
     UpsertVectorKeeps, LoadReferencesKeeps, IngestDocumentsKeeps, TakeSectionKeeps,
     SearchTopicsKeeps, LinkKeeps DEF T!Step
<1>. QED
  BY <1>1, <1>2, SyncFailsKeeps, LinkKeeps, OthersKeep DEF T!Next

(* Whatever the search for a section finds has a row in PostgreSQL, wherever *)
(* earlier runs of the script broke off and whenever the server creates the  *)
(* collection.                                                               *)
THEOREM MatchesResolveHolds == T!Spec => []MatchesResolve
<1>1. T!Init => TopicInv
  BY TopicInit
<1>2. TopicInv /\ [T!Next]_(T!vars) => TopicInv'
  BY TopicStep
<1>3. TopicInv => MatchesResolve
  BY DEF TopicInv, MatchesResolve
<1>. QED
  BY <1>1, <1>2, <1>3, PTL DEF T!Spec

-----------------------------------------------------------------------------
(* Sorted(): the points of a scroll in the order of their ids.               *)

USE StoreAssumption

(* The place of a point among those of a set.                                *)
UpTo(S, x) == {y \in S : y <= x}
Rank(S) == [x \in S |-> Cardinality(UpTo(S, x))]

LEMMA RankRises ==
  ASSUME NEW S \in SUBSET Nat, IsFiniteSet(S)
  PROVE  /\ Rank(S) \in [S -> 1..Cardinality(S)]
         /\ \A x, y \in S : x < y => Rank(S)[x] < Rank(S)[y]
<1>1. ASSUME NEW x \in S
      PROVE  /\ IsFiniteSet(UpTo(S, x)) /\ Cardinality(UpTo(S, x)) \in 1..Cardinality(S)
  <2>1. UpTo(S, x) \in SUBSET S /\ x \in UpTo(S, x)
    BY DEF UpTo
  <2>2. IsFiniteSet(UpTo(S, x)) /\ Cardinality(UpTo(S, x)) <= Cardinality(S)
    BY <2>1, FS_Subset
  <2>3. Cardinality(UpTo(S, x)) \in Nat /\ Cardinality(S) \in Nat
    BY <2>2, FS_CardinalityType
  <2>4. Cardinality(UpTo(S, x)) # 0
    BY <2>1, <2>2, FS_EmptySet
  <2>. QED
    BY <2>2, <2>3, <2>4
<1>2. ASSUME NEW x \in S, NEW y \in S, x < y
      PROVE  Cardinality(UpTo(S, x)) < Cardinality(UpTo(S, y))
  <2>1. UpTo(S, x) \in SUBSET UpTo(S, y) /\ y \in UpTo(S, y) /\ y \notin UpTo(S, x)
    <3>1. x \in Nat /\ y \in Nat /\ \A z \in S : z \in Nat
      OBVIOUS
    <3>2. \A z \in S : z <= x => z <= y
      BY <1>2, <3>1
    <3>3. y <= y /\ ~(y <= x)
      BY <1>2, <3>1
    <3>. QED
      BY <3>2, <3>3 DEF UpTo
  <2>2. /\ Cardinality(UpTo(S, x)) <= Cardinality(UpTo(S, y))
        /\ Cardinality(UpTo(S, x)) # Cardinality(UpTo(S, y))
    BY <1>1, <2>1, FS_Subset
  <2>. QED
    BY <1>1, <2>2
<1>. QED
  BY <1>1, <1>2 DEF Rank

(* It is a sequence of all of them, each once, that rises.                   *)
LEMMA SortedRises ==
  ASSUME NEW S \in SUBSET Nat, IsFiniteSet(S)
  PROVE  /\ Cardinality(S) \in Nat
         /\ Sorted(S) \in [1..Cardinality(S) -> S]
         /\ Ascending(Sorted(S))
         /\ \A x \in S : \E i \in 1..Cardinality(S) : Sorted(S)[i] = x
<1> DEFINE n == Cardinality(S)
           rank == Rank(S)
<1>1. n \in Nat
  BY FS_CardinalityType
<1>2. rank \in [S -> 1..n] /\ \A x, y \in S : x < y => rank[x] < rank[y]
  BY RankRises
<1>3. IsFiniteSet(1..n) /\ Cardinality(1..n) = n
  BY <1>1, FS_Interval
<1> HIDE DEF n, rank
<1>4. \A x, y \in S : rank[x] = rank[y] => x = y
  <2>1. ASSUME NEW x \in S, NEW y \in S, rank[x] = rank[y] PROVE x = y
    <3>1. x \in Nat /\ y \in Nat /\ rank[x] \in Nat /\ rank[y] \in Nat
      BY <1>1, <1>2
    <3>2. ~(x < y) /\ ~(y < x)
      BY <1>2, <2>1, <3>1
    <3>. QED
      BY <3>1, <3>2
  <2>. QED
    BY <2>1
<1>5. rank \in Injection(S, 1..n)
  BY <1>2, <1>4 DEF Injection, IsInjective
<1>6. rank \in Surjection(S, 1..n)
  BY <1>3, <1>5, FS_Injection DEF n
<1>7. \A i \in 1..n : \E x \in S : rank[x] = i
  BY <1>6 DEF Surjection
<1> DEFINE s == [i \in 1..n |-> CHOOSE x \in S : rank[x] = i]
<1>8. s \in [1..n -> S] /\ \A i \in 1..n : rank[s[i]] = i
  BY <1>7
<1> HIDE DEF s
<1>9. Ascending(s)
  <2>1. ASSUME NEW i \in 1..n, NEW j \in 1..n, i < j PROVE s[i] < s[j]
    <3>1. s[i] \in S /\ s[j] \in S /\ rank[s[i]] = i /\ rank[s[j]] = j
      BY <1>8
    <3>2. s[i] \in Nat /\ s[j] \in Nat /\ i \in Nat /\ j \in Nat
      <4>1. s[i] \in Nat /\ s[j] \in Nat
        BY <3>1
      <4>2. i \in Nat /\ j \in Nat
        BY <1>1
      <4>. QED
        BY <4>1, <4>2
    <3>3. s[i] # s[j]
      BY <2>1, <3>1, <3>2
    <3>4. ~(s[j] < s[i])
      <4>1. s[j] < s[i] => j < i
        BY <1>2, <3>1
      <4>. QED
        BY <2>1, <3>2, <4>1
    <3>. QED
      BY <3>2, <3>3, <3>4
  <2>2. DOMAIN s = 1..n
    BY <1>8
  <2>. QED
    BY <2>1, <2>2 DEF Ascending
<1>10. Sorted(S) \in [1..n -> S] /\ Ascending(Sorted(S))
  BY <1>8, <1>9 DEF Sorted, n
<1>11. \A i, j \in 1..n : Sorted(S)[i] = Sorted(S)[j] => i = j
  <2>1. ASSUME NEW i \in 1..n, NEW j \in 1..n, i < j PROVE Sorted(S)[i] # Sorted(S)[j]
    <3>1. Sorted(S)[i] < Sorted(S)[j]
      BY <1>10, <2>1 DEF Ascending
    <3>2. Sorted(S)[i] \in Nat /\ Sorted(S)[j] \in Nat
      BY <1>10
    <3>. QED
      BY <3>1, <3>2
  <2>. QED
    BY <1>1, <2>1
<1>12. Sorted(S) \in Injection(1..n, S)
  BY <1>10, <1>11 DEF Injection, IsInjective
<1>13. Sorted(S) \in Surjection(1..n, S)
  BY <1>3, <1>12, FS_Injection DEF n
<1>. QED
  BY <1>1, <1>10, <1>13 DEF Surjection, n

-----------------------------------------------------------------------------
(* A page: the points up to the offset of the next one.                      *)

LEMMA PagesCut ==
  ASSUME NEW S \in SUBSET Points
  PROVE  LET s == Sorted(S) n == Len(s) IN
         /\ s \in Seq(Points) /\ n \in Nat
         /\ ToSet(SubSeq(s, 1, n)) = S /\ IsInjective(SubSeq(s, 1, n))
            /\ SubSeq(s, 1, n) \in Seq(Points)
         /\ n > PageSize =>
              /\ s[PageSize + 1] \in S
              /\ ToSet(SubSeq(s, 1, PageSize)) = {i \in S : i < s[PageSize + 1]}
              /\ IsInjective(SubSeq(s, 1, PageSize))
              /\ SubSeq(s, 1, PageSize) \in Seq(Points)
<1> DEFINE s == Sorted(S)
           n == Cardinality(S)
<1>1. S \in SUBSET Nat /\ IsFiniteSet(S)
  BY FS_Subset DEF StoreAssumption
<1>2. /\ n \in Nat /\ s \in [1..n -> S] /\ Ascending(s)
      /\ \A x \in S : \E i \in 1..n : s[i] = x
  BY <1>1, SortedRises
<1> HIDE DEF s, n
<1>3. s \in Seq(Points) /\ Len(s) = n /\ DOMAIN s = 1..n
  <2>1. s \in [1..n -> Points]
    BY <1>2
  <2>2. s \in Seq(Points)
    BY <1>2, <2>1, SeqDef
  <2>. QED
    BY <1>2, <2>1, <2>2, LenProperties
<1>4. ASSUME NEW k \in 0..n
      PROVE  /\ SubSeq(s, 1, k) \in Seq(Points) /\ DOMAIN SubSeq(s, 1, k) = 1..k
             /\ \A i \in 1..k : SubSeq(s, 1, k)[i] = s[i]
  BY <1>2, <1>3, SubSeqProperties
<1>5. \A i, j \in 1..n : i < j => s[i] < s[j]
  BY <1>2, <1>3 DEF Ascending
<1>6. \A i \in 1..n : s[i] \in Nat /\ s[i] \in S
  BY <1>1, <1>2
<1>7. ASSUME NEW k \in 0..n
      PROVE  IsInjective(SubSeq(s, 1, k)) /\ ToSet(SubSeq(s, 1, k)) = {s[i] : i \in 1..k}
  <2>1. ASSUME NEW i \in 1..k, NEW j \in 1..k, s[i] = s[j] PROVE i = j
    <3>1. i \in 1..n /\ j \in 1..n /\ i \in Nat /\ j \in Nat
      BY <1>2
    <3>2. ~(i < j) /\ ~(j < i)
      BY <1>5, <1>6, <2>1, <3>1
    <3>. QED
      BY <3>1, <3>2
  <2> DEFINE t == SubSeq(s, 1, k)
  <2>2. DOMAIN t = 1..k /\ \A i \in 1..k : t[i] = s[i]
    BY <1>4
  <2> HIDE DEF t
  <2>3. IsInjective(t)
    BY <2>1, <2>2 DEF IsInjective
  <2>4. ToSet(t) = {s[i] : i \in 1..k}
    BY <2>2 DEF ToSet
  <2>. QED
    BY <2>3, <2>4 DEF t
<1>8. ToSet(SubSeq(s, 1, n)) = S
  <2>1. n \in 0..n
    BY <1>2
  <2>2. ToSet(SubSeq(s, 1, n)) = {s[i] : i \in 1..n}
    BY <1>7, <2>1
  <2>3. \A x \in S : x \in {s[i] : i \in 1..n}
    BY <1>2
  <2>4. \A x \in {s[i] : i \in 1..n} : x \in S
    BY <1>6
  <2>. QED
    BY <2>2, <2>3, <2>4
<1>9. ASSUME n > PageSize
      PROVE  /\ PageSize \in 0..n /\ s[PageSize + 1] \in S
             /\ {s[i] : i \in 1..PageSize} = {i \in S : i < s[PageSize + 1]}
  <2>1. PageSize \in Nat \ {0}
    BY DEF StoreAssumption
  <2>2. PageSize \in 0..n /\ PageSize + 1 \in 1..n
    BY <1>2, <1>9, <2>1
  <2>3. \A i \in 1..PageSize : i \in 1..n /\ i < PageSize + 1
    <3>1. \A i \in 1..PageSize : i \in Nat /\ i <= PageSize /\ 1 <= i
      BY <2>1
    <3>. QED
      BY <1>2, <2>1, <2>2, <3>1
  <2>4. \A i \in 1..PageSize : s[i] \in S /\ s[i] < s[PageSize + 1]
    BY <1>5, <1>6, <2>2, <2>3
  <2>5. ASSUME NEW i \in 1..n, s[i] < s[PageSize + 1] PROVE i \in 1..PageSize
    <3>1. i # PageSize + 1
      BY <1>6, <2>2, <2>5
    <3>2. ~(PageSize + 1 < i)
      BY <1>5, <1>6, <2>2, <2>5
    <3>. QED
      BY <1>2, <2>1, <3>1, <3>2
  <2>6. s[PageSize + 1] \in S
    BY <1>6, <2>2
  <2>7. ASSUME NEW x \in S, x < s[PageSize + 1] PROVE \E i \in 1..PageSize : s[i] = x
    <3>1. PICK i \in 1..n : s[i] = x
      BY <1>2
    <3>. QED
      BY <2>5, <2>7, <3>1
  <2> DEFINE page == {s[i] : i \in 1..PageSize}
  <2>8. page = {x \in S : x < s[PageSize + 1]}
    <3>1. \A x \in page : x \in S /\ x < s[PageSize + 1]
      BY <2>4
    <3>2. \A x \in S : x < s[PageSize + 1] => x \in page
      BY <2>7
    <3> HIDE DEF page
    <3>. QED
      BY <3>1, <3>2
  <2>. QED
    BY <2>2, <2>6, <2>8
<1>10. n \in 0..n
  BY <1>2
<1>11. n > PageSize =>
              /\ s[PageSize + 1] \in S
              /\ ToSet(SubSeq(s, 1, PageSize)) = {i \in S : i < s[PageSize + 1]}
              /\ IsInjective(SubSeq(s, 1, PageSize))
              /\ SubSeq(s, 1, PageSize) \in Seq(Points)
  BY <1>4, <1>7, <1>9
<1>. QED
  BY <1>2, <1>3, <1>4, <1>7, <1>8, <1>10, <1>11 DEF s

(* What was read are points, ...                                             *)
LEMMA ReadOf ==
  ASSUME NEW read \in Seq(Points)
  PROVE  ToSet(read) \subseteq Nat /\ ToSet(read) \subseteq Points
<1>1. ToSet(read) \subseteq Points
  BY LenProperties DEF ToSet
<1>. QED
  BY <1>1 DEF StoreAssumption

(* ... and a page is read after others.                                      *)
LEMMA Joined ==
  ASSUME NEW r \in Seq(Points), NEW s \in Seq(Points), IsInjective(r), IsInjective(s),
         ToSet(r) \cap ToSet(s) = {}
  PROVE  r \o s \in Seq(Points) /\ IsInjective(r \o s) /\ ToSet(r \o s) = ToSet(r) \cup ToSet(s)
<1> DEFINE m == Len(r)
           n == Len(s)
           t == r \o s
<1>1. m \in Nat /\ n \in Nat /\ DOMAIN r = 1..m /\ DOMAIN s = 1..n
  BY LenProperties
<1>2. /\ t \in Seq(Points) /\ Len(t) = m + n
      /\ \A i \in 1..(m + n) : t[i] = IF i <= m THEN r[i] ELSE s[i - m]
  BY ConcatProperties
<1>3. DOMAIN t = 1..(m + n)
  BY <1>2, LenProperties
<1> HIDE DEF m, n, t
<1>4. ASSUME NEW i \in 1..(m + n)
      PROVE  \/ i \in 1..m /\ t[i] = r[i] /\ t[i] \in ToSet(r)
             \/ i - m \in 1..n /\ t[i] = s[i - m] /\ t[i] \in ToSet(s)
  <2>1. CASE i <= m
    <3>1. i \in 1..m
      BY <1>1, <2>1
    <3>. QED
      BY <1>1, <1>2, <2>1, <3>1 DEF ToSet
  <2>2. CASE ~(i <= m)
    <3>1. i - m \in 1..n
      BY <1>1, <2>2
    <3>. QED
      BY <1>1, <1>2, <2>2, <3>1 DEF ToSet
  <2>. QED
    BY <2>1, <2>2
<1>5. ASSUME NEW i \in 1..(m + n), NEW j \in 1..(m + n), t[i] = t[j] PROVE i = j
  <2>1. CASE i \in 1..m /\ t[i] = r[i] /\ t[i] \in ToSet(r)
    <3>1. j \in 1..m /\ t[j] = r[j]
      BY <1>4, <1>5, <2>1
    <3>. QED
      BY <1>1, <1>5, <2>1, <3>1 DEF IsInjective
  <2>2. CASE i - m \in 1..n /\ t[i] = s[i - m] /\ t[i] \in ToSet(s)
    <3>1. j - m \in 1..n /\ t[j] = s[j - m]
      BY <1>4, <1>5, <2>2
    <3>2. i - m = j - m
      BY <1>1, <1>5, <2>2, <3>1 DEF IsInjective
    <3>. QED
      BY <1>1, <3>2
  <2>. QED
    BY <1>4, <2>1, <2>2
<1>6. IsInjective(t)
  BY <1>3, <1>5 DEF IsInjective
<1>7. \A x \in ToSet(t) : x \in ToSet(r) \cup ToSet(s)
  BY <1>3, <1>4 DEF ToSet
<1>8. ASSUME NEW x \in ToSet(r) PROVE x \in ToSet(t)
  <2>1. PICK i \in 1..m : r[i] = x
    BY <1>1 DEF ToSet
  <2>2. i \in 1..(m + n) /\ i <= m
    BY <1>1
  <2>. QED
    BY <1>2, <1>3, <2>1, <2>2 DEF ToSet
<1>9. ASSUME NEW x \in ToSet(s) PROVE x \in ToSet(t)
  <2>1. PICK i \in 1..n : s[i] = x
    BY <1>1 DEF ToSet
  <2>2. i + m \in 1..(m + n) /\ ~(i + m <= m) /\ (i + m) - m = i
    BY <1>1
  <2>3. t[i + m] = x
    BY <1>2, <2>1, <2>2
  <2>. QED
    BY <1>3, <2>2, <2>3 DEF ToSet
<1>. QED
  BY <1>2, <1>6, <1>7, <1>8, <1>9 DEF t

-----------------------------------------------------------------------------
(* VectorStore: the inductive invariant.                                     *)

Scrolls == {"deactivate", "get chunks"}
Scrolled == {"set payload", "done"}
Places == {"idle", "list", "info", "drop", "create", "index", "upsert"} \cup Scrolls \cup Scrolled
Operation == [at : Places, doc : Documents, offset : Nat, chunks : SUBSET Points,
              read : Seq(Points), stable : SUBSET Points]

(* A scroll is at its offset: it has read what was there all along of the    *)
(* points before it, and nothing behind it.                                  *)
AtOffset(me, there) ==
    /\ me.stable \subseteq there \cap Of(me.doc)
    /\ \A i \in ToSet(me.read) : i < me.offset
    /\ \A i \in me.stable : i \in ToSet(me.read) \/ i >= me.offset

OnTrack(me, there) ==
    /\ me.at \in Scrolls => AtOffset(me, there)
    /\ me.at \in Scrolled => me.stable \subseteq ToSet(me.read)
    /\ me.at \notin Scrolls \cup Scrolled => me.read = <<>>
    /\ me.at = "index" => me.offset \in 1..IndexFields
    /\ IsInjective(me.read)

(* A collection is dropped only because it is of another size.               *)
NoStrayDrop ==
    ~switching => collection # OldSize /\ \A p \in Processes : process[p].at # "drop"

StoreInv ==
    TypeOK /\ (\A p \in Processes : OnTrack(process[p], points)) /\ NoStrayDrop

LEMMA OperationIs ==
  Operation = [at : {"idle", "list", "info", "drop", "create", "index", "upsert", "deactivate",
                     "get chunks", "set payload", "done"},
               doc : Documents, offset : Nat, chunks : SUBSET Points, read : Seq(Points),
               stable : SUBSET Points]
<1>1. Places = {"idle", "list", "info", "drop", "create", "index", "upsert", "deactivate",
                "get chunks", "set payload", "done"}
  BY DEF Places, Scrolls, Scrolled
<1>. QED
  BY <1>1 DEF Operation

LEMMA StoreTypeIs ==
  TypeOK <=> /\ collection \in {0, Size, OldSize} /\ indexes \in 0..IndexFields
             /\ points \subseteq Points /\ inactive \subseteq points /\ text \subseteq Points
             /\ collection = 0 => points = {} /\ indexes = 0
             /\ process \in [Processes -> Operation] /\ switching \in BOOLEAN
             /\ failures \in Nat /\ deletes \in Nat /\ failures + deletes <= MaxFailures
BY OperationIs DEF TypeOK

LEMMA StoreTypeIsNext ==
  TypeOK' <=> /\ collection' \in {0, Size, OldSize} /\ indexes' \in 0..IndexFields
              /\ points' \subseteq Points /\ inactive' \subseteq points' /\ text' \subseteq Points
              /\ collection' = 0 => points' = {} /\ indexes' = 0
              /\ process' \in [Processes -> Operation] /\ switching' \in BOOLEAN
              /\ failures' \in Nat /\ deletes' \in Nat /\ failures' + deletes' <= MaxFailures
BY OperationIs DEF TypeOK

(* A process that scrolls nothing.                                           *)
LEMMA NothingRead ==
  ASSUME NEW me \in Operation, me.at \notin Scrolls \cup Scrolled, me.read = <<>>,
         me.at = "index" => me.offset \in 1..IndexFields
  PROVE  \A there : OnTrack(me, there)
<1>1. IsInjective(<<>>)
  BY DEF IsInjective
<1>. QED
  BY <1>1 DEF OnTrack

LEMMA IdleOnTrack ==
         /\ Idle \in Operation /\ Idle.at = "idle" /\ Idle.read = <<>> /\ Idle.offset = 0
         /\ \A there : OnTrack(Idle, there)
<1>1. (CHOOSE d \in Documents : TRUE) \in Documents
  BY DEF StoreAssumption
<1>2. /\ Idle \in Operation /\ Idle.at = "idle" /\ Idle.read = <<>> /\ Idle.offset = 0
  BY <1>1 DEF Idle, Operation, Places
<1>3. \A there : OnTrack(Idle, there)
  BY <1>2, NothingRead DEF Scrolls, Scrolled
<1>. QED
  BY <1>2, <1>3

(* A scroll keeps only what has been there all along.                        *)
LEMMA StableShrinks ==
  ASSUME NEW o \in Operation, NEW there, OnTrack(o, there), NEW after \in SUBSET Points
  PROVE  LET kept == [o EXCEPT !.stable = @ \cap after] IN
         kept \in Operation /\ kept.at = o.at /\ OnTrack(kept, after)
<1> DEFINE kept == [o EXCEPT !.stable = @ \cap after]
<1>1. /\ kept \in Operation /\ kept.at = o.at /\ kept.doc = o.doc /\ kept.offset = o.offset
      /\ kept.read = o.read /\ kept.stable = o.stable \cap after
  BY DEF Operation
<1> HIDE DEF kept
<1>2. AtOffset(o, there) => AtOffset(kept, after)
  BY <1>1 DEF AtOffset
<1>3. OnTrack(kept, after)
  BY <1>1, <1>2 DEF OnTrack
<1>. QED
  BY <1>1, <1>3 DEF kept

(* One process acts, and points come or go.                                  *)
LEMMA OneActs ==
  ASSUME StoreInv, NEW p \in Processes, NEW me \in Operation, NEW after \in SUBSET Points,
         Keeps(after, p, me), points' = after, OnTrack(me, after)
  PROVE  /\ process' \in [Processes -> Operation]
         /\ \A q \in Processes : OnTrack(process'[q], points')
         /\ \A q \in Processes : process'[q].at = IF q = p THEN me.at ELSE process[q].at
<1>1. process \in [Processes -> Operation] /\ \A q \in Processes : OnTrack(process[q], points)
  BY StoreTypeIs DEF StoreInv
<1> DEFINE kept(q) == [process[q] EXCEPT !.stable = @ \cap after]
<1>2. \A q \in Processes : /\ kept(q) \in Operation /\ kept(q).at = process[q].at
                           /\ OnTrack(kept(q), after)
  BY <1>1, StableShrinks
<1>3. process' = [q \in Processes |-> IF q = p THEN me ELSE kept(q)]
  BY DEF Keeps
<1> HIDE DEF kept
<1>. QED
  BY <1>2, <1>3

LEMMA StoreSizes ==
  Size # 0 /\ OldSize # 0 /\ Size # OldSize
BY DEF StoreAssumption

(* One process acts, and points come to be: those that were there stay.      *)
LEMMA PointsAdded ==
  ASSUME StoreInv, NEW p \in Processes, NEW me \in Operation, NEW after \in SUBSET Points,
         Keeps(points, p, me), points \subseteq after, OnTrack(me, after)
  PROVE  /\ process' \in [Processes -> Operation]
         /\ \A q \in Processes : OnTrack(process'[q], after)
         /\ \A q \in Processes : process'[q].at = IF q = p THEN me.at ELSE process[q].at
<1>1. process \in [Processes -> Operation] /\ \A q \in Processes : OnTrack(process[q], points)
  BY StoreTypeIs DEF StoreInv
<1>2. points \in SUBSET Points
  BY StoreTypeIs DEF StoreInv
<1> DEFINE kept(q) == [process[q] EXCEPT !.stable = @ \cap points]
<1>3. \A q \in Processes : /\ kept(q) \in Operation /\ kept(q).at = process[q].at
                           /\ OnTrack(kept(q), points)
  BY <1>1, <1>2, StableShrinks
<1>4. process' = [q \in Processes |-> IF q = p THEN me ELSE kept(q)]
  BY DEF Keeps
<1> HIDE DEF kept
<1>5. ASSUME NEW o \in Operation, OnTrack(o, points) PROVE OnTrack(o, after)
  BY <1>5 DEF OnTrack, AtOffset
<1>. QED
  BY <1>3, <1>4, <1>5

-----------------------------------------------------------------------------
(* The steps of an operation.                                                *)

(* A process goes on, and the collection stays as it is.                     *)
LEMMA GoesOn ==
  ASSUME StoreInv, NEW p \in Processes, NEW me \in Operation, Goes(p, me), Stays,
         UNCHANGED text, failures' \in Nat, deletes' = deletes, failures' + deletes <= MaxFailures,
         OnTrack(me, points), me.at = "drop" => switching \/ process[p].at = "drop"
  PROVE  StoreInv'
<1>1. points \in SUBSET Points /\ points' = points
  BY StoreTypeIs DEF StoreInv, Stays
<1>2. /\ process' \in [Processes -> Operation]
      /\ \A q \in Processes : OnTrack(process'[q], points')
      /\ \A q \in Processes : process'[q].at = IF q = p THEN me.at ELSE process[q].at
  BY <1>1, OneActs DEF Goes
<1>3. TypeOK'
  BY <1>2, StoreTypeIs, StoreTypeIsNext DEF StoreInv, Stays
<1>4. NoStrayDrop'
  BY <1>2 DEF StoreInv, NoStrayDrop, Stays
<1>. QED
  BY <1>2, <1>3, <1>4 DEF StoreInv

LEMMA RaisesKeeps ==
  ASSUME StoreInv, NEW p \in Processes, Raises(p),
         UNCHANGED text, failures' \in Nat, deletes' = deletes, failures' + deletes <= MaxFailures
  PROVE  StoreInv'
BY IdleOnTrack, GoesOn DEF Raises

(* What an operation is, and what it has read.                               *)
LEMMA Acting ==
  ASSUME StoreInv, NEW p \in Processes
  PROVE  /\ process[p] \in Operation /\ OnTrack(process[p], points)
         /\ failures \in Nat /\ failures + deletes <= MaxFailures
         /\ points \in SUBSET Points
BY StoreTypeIs DEF StoreInv

LEMMA UpsertKeeps ==
  ASSUME StoreInv, NEW p \in Processes, NEW d \in Documents, Upsert(p, d)
  PROVE  StoreInv'
<1> DEFINE me == [Idle EXCEPT !.at = "list", !.doc = d, !.chunks = text \cap Of(d)]
<1>1. text \cap Of(d) \in SUBSET Points
  BY DEF Of
<1>2. me \in Operation /\ me.at = "list" /\ me.read = <<>>
  BY <1>1, IdleOnTrack DEF Operation, Places
<1>3. Goes(p, me) /\ Stays /\ UNCHANGED <<text, failures, deletes>>
  BY DEF Upsert
<1> HIDE DEF me
<1>4. OnTrack(me, points)
  BY <1>2, NothingRead DEF Scrolls, Scrolled
<1>. QED
  BY <1>2, <1>3, <1>4, Acting, GoesOn

LEMMA ScrollKeeps ==
  ASSUME StoreInv, NEW p \in Processes, NEW d \in Documents,
         NEW purpose \in Scrolls, Scroll(p, d, purpose)
  PROVE  StoreInv'
<1> DEFINE me == [Idle EXCEPT !.at = purpose, !.doc = d, !.stable = points \cap Of(d)]
<1>1. points \cap Of(d) \in SUBSET Points
  BY DEF Of
<1>2. purpose \in Places
  BY DEF Places
<1>3. /\ me \in Operation /\ me.at = purpose /\ me.doc = d /\ me.read = <<>> /\ me.offset = 0
      /\ me.stable = points \cap Of(d)
  BY <1>1, <1>2, IdleOnTrack DEF Operation
<1>4. Goes(p, me) /\ Stays /\ UNCHANGED <<text, failures, deletes>>
  BY DEF Scroll
<1> HIDE DEF me
<1>5. IsInjective(<<>>) /\ ToSet(<<>>) = {}
  BY DEF IsInjective, ToSet
<1>6. \A i \in me.stable : i >= 0
  <2>1. \A i \in points : i \in Nat
    BY Acting DEF StoreAssumption
  <2>. QED
    BY <1>3, <2>1
<1>7. AtOffset(me, points)
  BY <1>3, <1>5, <1>6 DEF AtOffset
<1>8. OnTrack(me, points) /\ me.at # "drop"
  BY <1>3, <1>5, <1>7 DEF OnTrack, Scrolls, Scrolled
<1>. QED
  BY <1>3, <1>4, <1>8, Acting, GoesOn

(* The steps that only move on to the next request.                          *)
LEMMA MovesKeep ==
  ASSUME StoreInv, NEW p \in Processes, NEW at \in Places,
         Goes(p, [process[p] EXCEPT !.at = at]), Stays, UNCHANGED <<text, failures, deletes>>,
         process[p].at \notin Scrolls \cup Scrolled, at \notin Scrolls \cup Scrolled,
         at # "index", at = "drop" => switching
  PROVE  StoreInv'
<1> DEFINE me == [process[p] EXCEPT !.at = at]
<1>1. me \in Operation /\ me.at = at /\ me.read = process[p].read
  BY Acting DEF Operation
<1>2. Goes(p, me)
  OBVIOUS
<1> HIDE DEF me
<1>3. process[p].read = <<>>
  BY Acting DEF OnTrack
<1>4. OnTrack(me, points)
  BY <1>1, <1>3, NothingRead
<1>. QED
  BY <1>1, <1>2, <1>4, Acting, GoesOn

LEMMA GetCollectionsKeeps ==
  ASSUME StoreInv, NEW p \in Processes, GetCollections(p) \/ GetCollection(p)
  PROVE  StoreInv'
<1>1. CASE GetCollections(p)
  <2>1. PICK at \in {"create", "info"} : Goes(p, [process[p] EXCEPT !.at = at])
    BY <1>1 DEF GetCollections
  <2>2. /\ process[p].at = "list" /\ Stays /\ UNCHANGED <<text, failures, deletes>>
    BY <1>1 DEF GetCollections
  <2>3. at \in Places /\ at \notin Scrolls \cup Scrolled /\ at # "index" /\ at # "drop"
        /\ process[p].at \notin Scrolls \cup Scrolled
    BY <2>2 DEF Places, Scrolls, Scrolled
  <2>. QED
    BY <2>1, <2>2, <2>3, MovesKeep
<1>2. CASE GetCollection(p)
  <2>1. UNCHANGED <<text, failures, deletes>> /\ process[p].at = "info"
    BY <1>2 DEF GetCollection
  <2>2. CASE collection = 0
    BY <1>2, <2>1, <2>2, Acting, RaisesKeeps DEF GetCollection
  <2>3. CASE collection # 0
    <3>1. PICK at \in {"upsert", "drop"} :
            /\ Goes(p, [process[p] EXCEPT !.at = at]) /\ Stays
            /\ at = "drop" => collection # Size
      BY <1>2, <2>3 DEF GetCollection
    <3>2. at = "drop" => switching
      BY <2>3, <3>1, StoreTypeIs DEF StoreInv, NoStrayDrop
    <3>3. at \in Places /\ at \notin Scrolls \cup Scrolled /\ at # "index"
          /\ process[p].at \notin Scrolls \cup Scrolled
      BY <2>1 DEF Places, Scrolls, Scrolled
    <3>. QED
      BY <2>1, <3>1, <3>2, <3>3, MovesKeep
  <2>. QED
    BY <2>2, <2>3
<1>. QED
  BY <1>1, <1>2

LEMMA DeleteCollectionKeeps ==
  ASSUME StoreInv, NEW p \in Processes, DeleteCollection(p)
  PROVE  StoreInv'
<1> DEFINE me == [process[p] EXCEPT !.at = "create"]
<1>1. /\ process[p].at = "drop" /\ collection' = 0 /\ indexes' = 0 /\ points' = {}
      /\ inactive' = {} /\ Keeps({}, p, me) /\ UNCHANGED <<text, switching, failures, deletes>>
  BY DEF DeleteCollection, Holds
<1>2. me \in Operation /\ me.at = "create" /\ me.read = process[p].read
  BY Acting DEF Operation, Places
<1> HIDE DEF me
<1>3. OnTrack(me, {})
  BY <1>1, <1>2, Acting, NothingRead DEF OnTrack, Scrolls, Scrolled
<1>4. /\ process' \in [Processes -> Operation]
      /\ \A q \in Processes : OnTrack(process'[q], points')
      /\ \A q \in Processes : process'[q].at = IF q = p THEN me.at ELSE process[q].at
  BY <1>1, <1>2, <1>3, OneActs
<1>5. 0 \in 0..IndexFields
  BY DEF StoreAssumption
<1>6. TypeOK'
  BY <1>1, <1>4, <1>5, StoreTypeIs, StoreTypeIsNext DEF StoreInv
<1>7. NoStrayDrop'
  BY <1>1, <1>2, <1>4 DEF StoreInv, NoStrayDrop
<1>. QED
  BY <1>4, <1>6, <1>7 DEF StoreInv

(* What an operation does that leaves the points where they are.             *)
LEMMA PointsStay ==
  ASSUME StoreInv, NEW p \in Processes, NEW me \in Operation, Goes(p, me), OnTrack(me, points),
         collection' \in {collection, Size}, collection' # 0, indexes' \in 0..IndexFields,
         points' = points, inactive' \subseteq points,
         UNCHANGED <<text, switching, failures, deletes>>, me.at # "drop"
  PROVE  StoreInv'
<1>1. /\ process' \in [Processes -> Operation]
      /\ \A q \in Processes : OnTrack(process'[q], points')
      /\ \A q \in Processes : process'[q].at = IF q = p THEN me.at ELSE process[q].at
  BY Acting, OneActs DEF Goes
<1>2. TypeOK'
  BY <1>1, StoreTypeIs, StoreTypeIsNext DEF StoreInv
<1>3. NoStrayDrop'
  <2>1. CASE collection' = collection
    BY <1>1, <2>1 DEF StoreInv, NoStrayDrop
  <2>2. CASE collection' = Size
    BY <1>1, <2>2, StoreSizes DEF StoreInv, NoStrayDrop
  <2>. QED
    BY <2>1, <2>2
<1>. QED
  BY <1>1, <1>2, <1>3 DEF StoreInv

LEMMA CreateCollectionKeeps ==
  ASSUME StoreInv, NEW p \in Processes, CreateCollection(p)
  PROVE  StoreInv'
<1>1. process[p].at = "create" /\ UNCHANGED <<text, failures, deletes>>
  BY DEF CreateCollection
<1>2. CASE collection # 0
  BY <1>1, <1>2, Acting, RaisesKeeps DEF CreateCollection
<1>3. CASE collection = 0
  <2> DEFINE me == [process[p] EXCEPT !.at = "index", !.offset = 1]
  <2>1. /\ collection' = Size /\ indexes' = 0 /\ Goes(p, me)
        /\ UNCHANGED <<points, inactive, switching>>
    BY <1>3 DEF CreateCollection
  <2>2. me \in Operation /\ me.at = "index" /\ me.read = process[p].read /\ me.offset = 1
    BY Acting DEF Operation, Places
  <2> HIDE DEF me
  <2>3. 1 \in 1..IndexFields /\ 0 \in 0..IndexFields
    BY DEF StoreAssumption
  <2>4. OnTrack(me, points) /\ me.at # "drop"
    BY <1>1, <2>2, <2>3, Acting, NothingRead DEF OnTrack, Scrolls, Scrolled
  <2>5. inactive \subseteq points
    BY StoreTypeIs DEF StoreInv
  <2>. QED
    BY <1>1, <2>1, <2>2, <2>3, <2>4, <2>5, StoreSizes, PointsStay
<1>. QED
  BY <1>2, <1>3

LEMMA CreatePayloadIndexKeeps ==
  ASSUME StoreInv, NEW p \in Processes, CreatePayloadIndex(p)
  PROVE  StoreInv'
<1>1. process[p].at = "index" /\ UNCHANGED <<text, failures, deletes>>
  BY DEF CreatePayloadIndex
<1>2. CASE collection = 0
  BY <1>1, <1>2, Acting, RaisesKeeps DEF CreatePayloadIndex
<1>3. CASE collection # 0
  <2> DEFINE n == process[p].offset
             done == [process[p] EXCEPT !.at = "upsert", !.offset = 0]
             more == [process[p] EXCEPT !.offset = n + 1]
  <2>1. n \in 1..IndexFields /\ process[p].read = <<>> /\ IndexFields \in Nat
    BY <1>1, Acting DEF OnTrack, Scrolls, Scrolled, StoreAssumption
  <2>2. /\ indexes' = IF indexes < n THEN n ELSE indexes
        /\ Goes(p, IF n = IndexFields THEN done ELSE more)
        /\ UNCHANGED <<collection, points, inactive, switching>>
    BY <1>3 DEF CreatePayloadIndex
  <2>3. indexes \in 0..IndexFields /\ inactive \subseteq points
    BY StoreTypeIs DEF StoreInv
  <2>4. indexes' \in 0..IndexFields
    BY <2>1, <2>2, <2>3
  <2>5. done \in Operation /\ done.at = "upsert" /\ done.read = <<>>
    BY <2>1, Acting DEF Operation, Places
  <2>6. more \in Operation /\ more.at = "index" /\ more.read = <<>> /\ more.offset = n + 1
    <3>1. n + 1 \in Nat
      BY <2>1
    <3>. QED
      BY <1>1, <2>1, <3>1, Acting DEF Operation
  <2> HIDE DEF n, done, more
  <2>7. CASE n = IndexFields
    BY <1>1, <1>3, <2>2, <2>3, <2>4, <2>5, <2>7, NothingRead, PointsStay DEF Scrolls, Scrolled
  <2>8. CASE n # IndexFields
    <3>1. n + 1 \in 1..IndexFields
      BY <2>1, <2>8
    <3>. QED
      BY <1>1, <1>3, <2>2, <2>3, <2>4, <2>6, <2>8, <3>1, NothingRead, PointsStay
      DEF Scrolls, Scrolled
  <2>. QED
    BY <2>7, <2>8
<1>. QED
  BY <1>2, <1>3

LEMMA StoreChunksKeeps ==
  ASSUME StoreInv, NEW p \in Processes, StoreChunks(p)
  PROVE  StoreInv'
<1>1. process[p].at = "upsert" /\ UNCHANGED <<text, failures, deletes>>
  BY DEF StoreChunks
<1>2. CASE collection # Size
  BY <1>1, <1>2, Acting, RaisesKeeps DEF StoreChunks
<1>3. CASE collection = Size
  <2> DEFINE after == points \cup process[p].chunks
  <2>1. /\ points' = after /\ inactive' = (inactive \ process[p].chunks) \cap after
        /\ Goes(p, Idle) /\ UNCHANGED <<collection, indexes, switching>>
    BY <1>3 DEF StoreChunks, Holds
  <2>2. after \in SUBSET Points
    BY Acting DEF Operation
  <2>3. Keeps(points, p, Idle) /\ points \subseteq after
    BY <2>1 DEF Goes
  <2>4. inactive' \subseteq after
    BY <2>1
  <2> HIDE DEF after
  <2>5. /\ process' \in [Processes -> Operation]
        /\ \A q \in Processes : OnTrack(process'[q], after)
        /\ \A q \in Processes : process'[q].at = IF q = p THEN "idle" ELSE process[q].at
    BY <2>2, <2>3, IdleOnTrack, PointsAdded
  <2>6. TypeOK'
    BY <1>1, <1>3, <2>1, <2>2, <2>4, <2>5, StoreTypeIs, StoreTypeIsNext, StoreSizes DEF StoreInv
  <2>7. NoStrayDrop'
    BY <2>1, <2>5 DEF StoreInv, NoStrayDrop
  <2>. QED
    BY <2>1, <2>5, <2>6, <2>7 DEF StoreInv
<1>. QED
  BY <1>2, <1>3

(* A page is read.                                                           *)
LEMMA PageKeeps ==
  ASSUME StoreInv, NEW p \in Processes, Page(p)
  PROVE  StoreInv'
<1>1. process[p].at \in Scrolls /\ UNCHANGED <<text, failures, deletes>>
  BY DEF Page, Scrolls
<1>2. CASE collection = 0
  BY <1>1, <1>2, Acting, RaisesKeeps DEF Page
<1>3. CASE collection # 0
  <2> DEFINE o == process[p]
             S == {i \in points \cap Of(o.doc) : i >= o.offset}
             rest == Sorted(S)
             last == Len(rest) <= PageSize
             page == SubSeq(rest, 1, IF last THEN Len(rest) ELSE PageSize)
             next == [o EXCEPT !.read = o.read \o page, !.offset = rest[PageSize + 1]]
             done == [o EXCEPT !.read = o.read \o page, !.offset = 0,
                        !.at = IF o.at = "deactivate" THEN "set payload" ELSE "done"]
  <2>1. Goes(p, IF ~last THEN next ELSE done) /\ Stays
    BY <1>3 DEF Page, Matching
  <2>2. o \in Operation /\ AtOffset(o, points) /\ IsInjective(o.read) /\ points \in SUBSET Points
    BY <1>1, Acting DEF OnTrack
  <2>3. S \in SUBSET Points /\ S \in SUBSET Nat /\ o.offset \in Nat /\ o.read \in Seq(Points)
    BY <2>2 DEF Operation, StoreAssumption
  <2>4. /\ Len(rest) \in Nat /\ page \in Seq(Points) /\ IsInjective(page) /\ ToSet(page) \subseteq S
        /\ last => ToSet(page) = S
        /\ ~last => rest[PageSize + 1] \in S /\ ToSet(page) = {i \in S : i < rest[PageSize + 1]}
    <3> DEFINE n == Len(rest)
               all == SubSeq(rest, 1, n)
               first == SubSeq(rest, 1, PageSize)
    <3>1. /\ n \in Nat /\ ToSet(all) = S /\ IsInjective(all) /\ all \in Seq(Points)
          /\ n > PageSize =>
               /\ rest[PageSize + 1] \in S
               /\ ToSet(first) = {i \in S : i < rest[PageSize + 1]}
               /\ IsInjective(first) /\ first \in Seq(Points)
      <4> HIDE DEF S
      <4>. QED
        BY <2>3, PagesCut
    <3>2. page = IF last THEN all ELSE first
      OBVIOUS
    <3>3. ~last => n > PageSize
      <4>1. n \in Nat /\ PageSize \in Nat
        BY <3>1 DEF StoreAssumption
      <4> HIDE DEF n
      <4>2. ~(n <= PageSize) => n > PageSize
        BY <4>1
      <4>. QED
        BY <4>2 DEF n
    <3> HIDE DEF S, rest, last, page, all, first
    <3>. QED
      BY <3>1, <3>2, <3>3
  <2>5. \A i \in S : i >= o.offset /\ i \in Nat
    BY <2>3
  <2> HIDE DEF S, rest, last, page
  <2>6. /\ o.read \o page \in Seq(Points) /\ IsInjective(o.read \o page)
        /\ ToSet(o.read \o page) = ToSet(o.read) \cup ToSet(page)
    <3>1. \A i \in ToSet(o.read) : i < o.offset /\ i \in Nat
      BY <2>2, <2>3, ReadOf DEF AtOffset
    <3>2. ToSet(o.read) \cap ToSet(page) = {}
      BY <2>3, <2>4, <2>5, <3>1
    <3>. QED
      BY <2>2, <2>3, <2>4, <3>2, Joined
  <2>7. CASE last
    <3>1. /\ done \in Operation /\ done.at \in Scrolled /\ done.stable = o.stable
          /\ done.read = o.read \o page
      BY <2>2, <2>6 DEF Operation, Places, Scrolled
    <3>2. \A i \in o.stable : i \in ToSet(o.read) \/ i \in S
      BY <2>2 DEF AtOffset, S
    <3>3. o.stable \subseteq ToSet(done.read)
      BY <2>4, <2>6, <2>7, <3>1, <3>2
    <3> HIDE DEF done
    <3>4. OnTrack(done, points) /\ done.at # "drop"
      BY <2>6, <3>1, <3>3 DEF OnTrack, Scrolls, Scrolled
    <3>. QED
      BY <1>1, <2>1, <2>7, <3>1, <3>4, Acting, GoesOn
  <2>8. CASE ~last
    <3> DEFINE k == rest[PageSize + 1]
    <3>1. k \in Nat /\ k >= o.offset
      BY <2>4, <2>5, <2>8
    <3>2. /\ next \in Operation /\ next.at = o.at /\ next.stable = o.stable /\ next.doc = o.doc
          /\ next.read = o.read \o page /\ next.offset = k
      BY <2>2, <2>6, <3>1 DEF Operation
    <3>3. ToSet(page) = {i \in S : i < k}
      BY <2>4, <2>8
    <3> HIDE DEF next, k
    <3>4. \A i \in ToSet(next.read) : i < next.offset
      <4>1. \A i \in ToSet(o.read) : i < o.offset /\ i \in Nat
        BY <2>2, <2>3, ReadOf DEF AtOffset
      <4>2. \A i \in ToSet(o.read) : i < k
        BY <2>3, <3>1, <4>1
      <4>. QED
        BY <2>6, <3>2, <3>3, <4>2
    <3>5. \A i \in next.stable : i \in ToSet(next.read) \/ i >= next.offset
      <4>1. \A i \in o.stable : i \in ToSet(o.read) \/ i \in S
        BY <2>2 DEF AtOffset, S
      <4>2. \A i \in S : i < k \/ i >= k
        BY <2>5, <3>1
      <4>. QED
        BY <2>6, <3>2, <3>3, <4>1, <4>2
    <3>6. AtOffset(next, points)
      BY <2>2, <3>2, <3>4, <3>5 DEF AtOffset
    <3>7. OnTrack(next, points) /\ next.at # "drop"
      BY <1>1, <2>6, <3>2, <3>6 DEF OnTrack, Scrolls, Scrolled
    <3>. QED
      BY <1>1, <2>1, <2>8, <3>2, <3>7, Acting, GoesOn
  <2>. QED
    BY <2>7, <2>8
<1>. QED
  BY <1>2, <1>3

LEMMA SetPayloadKeeps ==
  ASSUME StoreInv, NEW p \in Processes, SetPayload(p)
  PROVE  StoreInv'
<1>1. process[p].at = "set payload" /\ UNCHANGED <<text, failures, deletes>>
  BY DEF SetPayload
<1>2. CASE collection = 0
  BY <1>1, <1>2, Acting, RaisesKeeps DEF SetPayload
<1>3. CASE collection # 0
  <2>1. /\ inactive' = inactive \cup (points \cap ToSet(process[p].read)) /\ Goes(p, Idle)
        /\ UNCHANGED <<collection, indexes, points, switching>>
    BY <1>3 DEF SetPayload
  <2>2. inactive' \subseteq points /\ indexes' \in 0..IndexFields
    BY <2>1, StoreTypeIs DEF StoreInv
  <2>. QED
    BY <1>1, <1>3, <2>1, <2>2, IdleOnTrack, PointsStay
<1>. QED
  BY <1>2, <1>3

LEMMA ReturnsKeeps ==
  ASSUME StoreInv, NEW p \in Processes, Returns(p) \/ Fails(p)
  PROVE  StoreInv'
<1>1. Raises(p) /\ UNCHANGED <<text, deletes>>
  BY DEF Returns, Fails, Raises
<1>2. failures' \in Nat /\ failures' + deletes <= MaxFailures
  <2>1. failures \in Nat /\ deletes \in Nat /\ MaxFailures \in Nat
        /\ failures + deletes <= MaxFailures
    BY StoreTypeIs DEF StoreInv, StoreAssumption
  <2>2. failures' = failures \/ (failures' = failures + 1 /\ failures + deletes < MaxFailures)
    BY DEF Returns, Fails
  <2>3. failures + deletes < MaxFailures => failures + 1 + deletes <= MaxFailures
    BY <2>1
  <2>. QED
    BY <2>1, <2>2, <2>3
<1>. QED
  BY <1>1, <1>2, RaisesKeeps

LEMMA DeleteKeeps ==
  ASSUME StoreInv, NEW p \in Processes, NEW d \in Documents, DeleteDocumentChunks(p, d)
  PROVE  StoreInv' /\ deletes' > deletes
<1> DEFINE after == points \ Of(d)
<1>1. /\ process[p].at = "idle" /\ collection # 0 /\ failures + deletes < MaxFailures
      /\ deletes' = deletes + 1 /\ points' = after /\ inactive' = inactive \cap after
      /\ Keeps(after, p, process[p]) /\ UNCHANGED <<collection, indexes, text, switching, failures>>
  BY DEF DeleteDocumentChunks, Holds
<1>2. after \in SUBSET Points /\ inactive' \subseteq after
  BY <1>1, Acting
<1> HIDE DEF after
<1>3. OnTrack(process[p], after)
  BY <1>1, Acting, NothingRead DEF OnTrack, Scrolls, Scrolled
<1>4. /\ process' \in [Processes -> Operation]
      /\ \A q \in Processes : OnTrack(process'[q], points')
      /\ \A q \in Processes : process'[q].at = process[q].at
  BY <1>1, <1>2, <1>3, Acting, OneActs
<1>5. deletes' \in Nat /\ deletes' > deletes /\ failures + deletes' <= MaxFailures
  <2>1. failures \in Nat /\ deletes \in Nat /\ MaxFailures \in Nat
    BY StoreTypeIs DEF StoreInv, StoreAssumption
  <2>. QED
    BY <1>1, <2>1
<1>6. TypeOK'
  BY <1>1, <1>2, <1>4, <1>5, StoreTypeIs, StoreTypeIsNext DEF StoreInv
<1>7. NoStrayDrop'
  BY <1>1, <1>4 DEF StoreInv, NoStrayDrop
<1>. QED
  BY <1>4, <1>5, <1>6, <1>7 DEF StoreInv

LEMMA AmendKeeps ==
  ASSUME StoreInv, Amend \/ UNCHANGED vars
  PROVE  StoreInv'
<1>1. UNCHANGED <<collection, indexes, points, inactive, process, switching, failures, deletes>>
      /\ text' \subseteq Points
  BY StoreTypeIs DEF Amend, vars, StoreInv
<1>2. TypeOK'
  BY <1>1, StoreTypeIs, StoreTypeIsNext DEF StoreInv
<1>. QED
  BY <1>1, <1>2 DEF StoreInv, NoStrayDrop

LEMMA StoreInit ==
  ASSUME Init
  PROVE  StoreInv
<1>1. /\ collection \in {0, Size, OldSize} /\ (switching <=> collection = OldSize)
      /\ switching \in BOOLEAN
      /\ points = (IF collection = 0 THEN {} ELSE Original)
      /\ indexes = (IF collection = 0 THEN 0 ELSE IndexFields)
      /\ inactive = {} /\ text = Original /\ failures = 0 /\ deletes = 0
      /\ process = [p \in Processes |-> Idle]
  BY DEF Init
<1>2. /\ 0 \in 0..IndexFields /\ IndexFields \in 0..IndexFields /\ Original \subseteq Points
      /\ 0 + 0 <= MaxFailures
  BY DEF StoreAssumption
<1>3. TypeOK
  BY <1>1, <1>2, IdleOnTrack, StoreTypeIs
<1>4. \A p \in Processes : OnTrack(process[p], points) /\ process[p].at # "drop"
  BY <1>1, IdleOnTrack
<1>. QED
  BY <1>1, <1>3, <1>4 DEF StoreInv, NoStrayDrop

LEMMA StoreStep ==
  ASSUME StoreInv, [Next]_vars
  PROVE  StoreInv'
<1>1. ASSUME NEW p \in Processes, Step(p) PROVE StoreInv'
  BY <1>1, GetCollectionsKeeps, DeleteCollectionKeeps, CreateCollectionKeeps,
     CreatePayloadIndexKeeps, StoreChunksKeeps, PageKeeps, SetPayloadKeeps, ReturnsKeeps DEF Step
<1>2. Ingests \subseteq Processes /\ Servers \subseteq Processes
  BY DEF Processes
<1>3. "deactivate" \in Scrolls /\ "get chunks" \in Scrolls
  BY DEF Scrolls
<1>. QED
  BY <1>1, <1>2, <1>3, ReturnsKeeps, UpsertKeeps, ScrollKeeps, DeleteKeeps, AmendKeeps DEF Next

(* The inductive invariant holds in every reachable state.                   *)
THEOREM StoreInvariance == Spec => []StoreInv
<1>1. Init => StoreInv
  BY StoreInit
<1>2. StoreInv /\ [Next]_vars => StoreInv'
  BY StoreStep
<1>. QED
  BY <1>1, <1>2, PTL DEF Spec

(* Every variable keeps its type.                                            *)
THEOREM StoreTypeCorrect == Spec => []TypeOK
<1>1. StoreInv => TypeOK
  BY DEF StoreInv
<1>. QED
  BY <1>1, StoreInvariance, PTL

(* A scroll reads every chunk that is there all along, and none twice, for   *)
(* every size of a page and whatever is stored or deleted between pages.     *)
THEOREM ScrollCompleteHolds == Spec => []ScrollComplete
<1>1. StoreInv => ScrollComplete
  BY DEF StoreInv, OnTrack, ScrollComplete, Scrolled
<1>. QED
  BY <1>1, StoreInvariance, PTL

(* While all processes use one embedding model, points leave the collection  *)
(* only by delete_document_chunks().                                         *)
LEMMA OnlyDeleteRemoves ==
  ASSUME StoreInv, [Next]_vars, ~switching, ~(points \subseteq points')
  PROVE  deletes' > deletes
<1>1. ASSUME NEW p \in Processes, Step(p) PROVE FALSE
  <2>1. ~DeleteCollection(p)
    BY DEF StoreInv, NoStrayDrop, DeleteCollection
  <2>2. CASE \/ GetCollections(p) \/ GetCollection(p) \/ CreateCollection(p)
             \/ CreatePayloadIndex(p) \/ Page(p) \/ SetPayload(p) \/ Returns(p)
    BY <2>2 DEF GetCollections, GetCollection, CreateCollection, CreatePayloadIndex, Page,
                SetPayload, Returns, Raises, Stays
  <2>3. CASE StoreChunks(p)
    BY <2>3 DEF StoreChunks, Holds, Raises, Stays
  <2>. QED
    BY <1>1, <2>1, <2>2, <2>3 DEF Step
<1>2. ASSUME NEW p \in Processes, Fails(p) PROVE FALSE
  BY <1>2 DEF Fails, Raises, Stays
<1>3. ASSUME NEW p \in Processes, NEW d \in Documents, NEW purpose,
             Upsert(p, d) \/ Scroll(p, d, purpose) PROVE FALSE
  BY <1>3 DEF Upsert, Scroll, Stays
<1>4. ~(Amend \/ UNCHANGED vars)
  BY DEF Amend, vars
<1>5. Ingests \subseteq Processes /\ Servers \subseteq Processes
  BY DEF Processes
<1>. QED
  BY <1>1, <1>2, <1>3, <1>4, <1>5, DeleteKeeps DEF Next

(* While no process is configured with another vector size, nothing leaves   *)
(* the collection in a step that is not a deletion, however the check and    *)
(* the creation of several processes interleave.                             *)
THEOREM OnlyDeletesRemoveHolds == Spec => OnlyDeletesRemove
<1>1. StoreInv /\ [Next]_vars => [~switching /\ ~(points \subseteq points') => deletes' > deletes]_vars
  BY OnlyDeleteRemoves
<1>. QED
  BY <1>1, StoreInvariance, PTL DEF Spec, OnlyDeletesRemove
=============================================================================
