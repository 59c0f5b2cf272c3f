---------------------------- MODULE SectionTopics ----------------------------
(* Topics and the sections they are linked to.  The fixtures script empties *)
(* PostgreSQL and Qdrant, creates the topics, each with a vector in the     *)
(* collection "topics", ingests the documents and links every section to    *)
(* the topics most like it.  Each statement and each request is one step;   *)
(* between them the server may count the topics for its admin tool, which   *)
(* creates the collection when it is missing, as the script itself does.    *)
EXTENDS Naturals, FiniteSets

CONSTANTS
    Topics,         \* external ids of the topics in the fixtures
    Sections,       \* sections of the documents in the fixtures
    Score,          \* [Sections -> [Topics -> Nat]], similarity
    Threshold,      \* score_threshold
    MaxTopics,      \* max_topics_per_section
    RegionsFile,    \* are there regions among the fixtures?
    MaxCounts,      \* bound: how often the admin tool counts
    None

(* A topic row is named by the run of the script that created it: two       *)
(* names, as nothing of the run before last is left.  0: no row, no vector. *)
Runs == {1, 2}
Gone == [t \in Topics |-> 0]

VARIABLES
    topic,          \* [Topics -> run], the rows of the table
    section,        \* the sections with a row
    link,           \* rows of section_topic, <<section, topic>>
    collection,     \* does Qdrant have the collection "topics"?
    vector,         \* [Topics -> run], the topic_id in the payload of the points
    script, server, \* the script, and the admin request
    counts, faulty

vars == <<topic, section, link, collection, vector, script, server, counts, faulty>>
postgres == <<topic, section, link>>
qdrant == <<collection, vector>>

(* todo      topics to create, or sections to link                          *)
(* item      the one in hand                                                *)
(* found     what search_topics() returned: topics with their topic_id      *)
Asleep == [pc |-> "start", run |-> 1, todo |-> {}, item |-> None, found |-> {}]

Init ==
    /\ topic = Gone /\ section = {} /\ link = {}
    /\ collection = FALSE /\ vector = Gone
    /\ script = Asleep
    /\ server = "idle"
    /\ counts = 0
    /\ faulty = TRUE

At(pc) == script.pc = pc
Goes(pc) == script' = [script EXCEPT !.pc = pc]
Restart == script' = [Asleep EXCEPT !.run = 3 - script.run]

-----------------------------------------------------------------------------
(* Step 1 of the script: the tables are emptied, then Qdrant is.  Links go  *)
(* with the sections, and with the topics.                                  *)
CleanSections ==
    /\ At("start")
    /\ section' = {} /\ link' = {}
    /\ Goes("clean topics")
    /\ UNCHANGED <<topic, qdrant, server, counts, faulty>>

CleanTopics ==
    /\ At("clean topics")
    /\ topic' = Gone
    /\ Goes("list")
    /\ UNCHANGED <<section, link, qdrant, server, counts, faulty>>

Seed == script' = [script EXCEPT !.pc = "topic", !.todo = Topics]

(* Mutant: what is in Qdrant is left there. *)
KeepsCollection ==
    /\ At("list")
    /\ Seed
    /\ UNCHANGED <<postgres, qdrant, server, counts, faulty>>

(* delete_all_collections() deletes what it finds listed.                   *)
ListCollections ==
    /\ At("list")
    /\ IF collection THEN Goes("drop") ELSE Seed
    /\ UNCHANGED <<postgres, qdrant, server, counts, faulty>>

DropCollection ==
    /\ At("drop")
    /\ collection' = FALSE /\ vector' = Gone
    /\ Seed
    /\ UNCHANGED <<postgres, server, counts, faulty>>

-----------------------------------------------------------------------------
(* get_or_create_topic(), and the synchronization of the new topic: its     *)
(* failure leaves the topic without a vector.                               *)
Synced == script' = [script EXCEPT !.pc = "topic"]

InsertTopic(t) ==
    /\ At("topic") /\ t \in script.todo
    /\ topic' = [topic EXCEPT ![t] = script.run]
    /\ script' = [script EXCEPT !.pc = "ensure", !.todo = @ \ {t}, !.item = t]
    /\ UNCHANGED <<section, link, qdrant, server, counts, faulty>>

UpsertVector ==
    /\ At("upsert")
    /\ vector' = [vector EXCEPT ![script.item] = script.run]
    /\ Synced
    /\ UNCHANGED <<postgres, collection, server, counts, faulty>>

SyncFails ==
    /\ faulty
    /\ script.pc \in {"ensure", "create", "upsert"}
    /\ Synced
    /\ UNCHANGED <<postgres, qdrant, server, counts, faulty>>

(* The other references are created.  The table of regions has lost the     *)
(* source_id that get_or_create_region() asks for, so a fixture of regions  *)
(* ends the script, however often it is run.                                *)
LoadReferences ==
    /\ At("topic") /\ script.todo = {}
    /\ IF RegionsFile THEN Restart ELSE Goes("documents")
    /\ UNCHANGED <<postgres, qdrant, server, counts, faulty>>

(* Step 2: the documents are ingested.  One that fails is left out.         *)
IngestDocuments ==
    /\ At("documents")
    /\ \E ingested \in (IF faulty THEN SUBSET Sections ELSE {Sections}) :
          /\ section' = ingested
          /\ script' = [script EXCEPT !.pc = "section", !.todo = ingested]
    /\ UNCHANGED <<topic, link, qdrant, server, counts, faulty>>

-----------------------------------------------------------------------------
(* link_sections_to_topics(), one section after the other.                  *)
NextSection == script' = [script EXCEPT !.pc = "section", !.found = {}]

TakeSection(s) ==
    /\ At("section") /\ s \in script.todo
    /\ script' = [script EXCEPT !.pc = "ensure for search", !.todo = @ \ {s}, !.item = s]
    /\ UNCHANGED <<postgres, qdrant, server, counts, faulty>>

(* The best topics for a section among some: as many as are over the        *)
(* threshold, up to the limit (their scores differ).                        *)
Best(s, among) ==
    LET similar == {t \in among : Score[s][t] >= Threshold} IN
    {t \in similar : Cardinality({u \in similar : Score[s][u] > Score[s][t]}) < MaxTopics}

(* Mutant: the id of the point is taken for the id of the topic. *)
FindsPoints ==
    /\ At("search")
    /\ script' = [script EXCEPT !.pc = "link",
                    !.found = {<<t, 0>> : t \in Best(script.item, {t \in Topics : vector[t] # 0})}]
    /\ UNCHANGED <<postgres, qdrant, server, counts, faulty>>

SearchTopics ==
    /\ At("search")
    /\ script' = [script EXCEPT !.pc = "link",
                    !.found = {<<t, vector[t]>> :
                                 t \in Best(script.item, {t \in Topics : vector[t] # 0})}]
    /\ UNCHANGED <<postgres, qdrant, server, counts, faulty>>

(* One INSERT for all: it fails if one of them has no row.                  *)
Resolved(found) == \A pair \in found : topic[pair[1]] = pair[2]

BatchLink ==
    /\ At("link")
    /\ IF Resolved(script.found)
       THEN link' = link \cup {<<script.item, pair[1]>> : pair \in script.found}
       ELSE link' = link
    /\ NextSection
    /\ UNCHANGED <<topic, section, qdrant, server, counts, faulty>>

LinkFails ==
    /\ faulty
    /\ script.pc \in {"ensure for search", "create for search", "search", "link"}
    /\ NextSection
    /\ UNCHANGED <<postgres, qdrant, server, counts, faulty>>

-----------------------------------------------------------------------------
(* ensure_topic_collection(), of the script and of the server's             *)
(* count_topics(): the collection is looked for, and created in a request   *)
(* of its own, which fails if it is there by then.                          *)
EnsureTopicCollection ==
    /\ \/ At("ensure") /\ Goes(IF collection THEN "upsert" ELSE "create")
       \/ At("ensure for search") /\ Goes(IF collection THEN "search" ELSE "create for search")
    /\ UNCHANGED <<postgres, qdrant, server, counts, faulty>>

CreateTopicCollection ==
    /\ collection' = TRUE
    /\ \/ At("create") /\ IF collection THEN Synced ELSE Goes("upsert")
       \/ At("create for search") /\ IF collection THEN NextSection ELSE Goes("search")
    /\ UNCHANGED <<postgres, vector, server, counts, faulty>>

CountTopics ==
    /\ server = "idle" /\ counts < MaxCounts
    /\ counts' = counts + 1
    /\ server' = IF collection THEN "idle" ELSE "create"
    /\ UNCHANGED <<postgres, qdrant, script, faulty>>

ServerCreates ==
    /\ server = "create"
    /\ collection' = TRUE
    /\ server' = "idle"
    /\ UNCHANGED <<postgres, vector, script, counts, faulty>>

-----------------------------------------------------------------------------
Done == At("section") /\ script.todo = {}

(* The script is run again, also after an exception ended it.               *)
RunAgain ==
    /\ Done
    /\ Restart
    /\ UNCHANGED <<postgres, qdrant, server, counts, faulty>>

Crash ==
    /\ faulty
    /\ Restart
    /\ UNCHANGED <<postgres, qdrant, server, counts, faulty>>

Heal ==
    /\ faulty
    /\ faulty' = FALSE
    /\ UNCHANGED <<postgres, qdrant, script, server, counts>>

Step ==
    \/ CleanSections \/ CleanTopics \/ ListCollections \/ DropCollection
    \/ \E t \in Topics : InsertTopic(t)
    \/ EnsureTopicCollection \/ CreateTopicCollection \/ UpsertVector
    \/ LoadReferences \/ IngestDocuments \/ \E s \in Sections : TakeSection(s)
    \/ SearchTopics \/ BatchLink \/ RunAgain

Next ==
    \/ Step \/ SyncFails \/ LinkFails \/ Crash
    \/ CountTopics \/ ServerCreates
    \/ Heal

(* The script is run again and again, and requests are answered.            *)
Fairness == WF_vars(Step) /\ WF_vars(ServerCreates)

Spec == Init /\ [][Next]_vars /\ Fairness

-----------------------------------------------------------------------------
(* What the search for a section finds has a row in PostgreSQL, although    *)
(* rows and vectors are emptied and filled by separate requests that fail   *)
(* one by one and runs of the script break off anywhere: else the one       *)
(* INSERT of batch_link() would lose all links of the section.              *)
MatchesResolve == At("link") => Resolved(script.found)

(* Once failures end and the admin tool rests, a run of the script (without *)
(* a fixture of regions) links every section to the topics most like it: no *)
(* topic stays without its vector because the collection was being created  *)
(* twice, or a sync failed.                                                 *)
EventuallyLinked ==
    []<>(faulty \/ (Done /\ link = UNION {{s} \X Best(s, Topics) : s \in Sections}))
=============================================================================
