--------------------------- MODULE MCVectorStore ---------------------------
(* Model checking of VectorStore and SectionTopics, the two collections of  *)
(* Qdrant, which share no state: a behaviour is a session of one of them.   *)
(* Two ingests and a server; one document, listed in pages of one, of two   *)
(* chunks and then of a third that sorts before them.  Two sections are     *)
(* linked: three topics are like the first, of which it may have two, and   *)
(* one is like the second.                                                  *)
EXTENDS VectorStore

CONSTANTS d1, Topics, Sections, Threshold, MaxTopics, RegionsFile, MaxCounts, None
VARIABLES topic, section, link, topic_collection, vector, script, server, counts, faulty

MCDocuments == {d1}
MCDocumentOf == [i \in Points |-> d1]

TheScore == [s \in Sections |-> [t \in Topics |-> IF s = 1 THEN t ELSE 3 * t - 5]]

T == INSTANCE SectionTopics WITH Score <- TheScore, collection <- topic_collection
topics == <<topic, section, link, topic_collection, vector, script, server, counts, faulty>>

(* A module rests in a state where none of its fair steps is enabled and    *)
(* which its liveness property does not mind.                               *)
ChunksRest ==
    /\ collection = Size /\ indexes = IndexFields
    /\ points = Original /\ text = Original /\ inactive = {}
    /\ process = [p \in Processes |-> [Idle EXCEPT !.at = "resting"]]
    /\ switching = FALSE /\ failures = 0 /\ deletes = 0
TopicsRest ==
    /\ topic = T!Gone /\ section = {} /\ link = {}
    /\ topic_collection = FALSE /\ vector = T!Gone
    /\ script = [T!Asleep EXCEPT !.pc = "resting"]
    /\ server = "idle" /\ counts = 0 /\ faulty = TRUE

SessionInit == (Init /\ TopicsRest) \/ (ChunksRest /\ T!Init)
SessionNext ==
    \/ script.pc = "resting" /\ Next /\ UNCHANGED topics
    \/ script.pc # "resting" /\ T!Next /\ UNCHANGED vars
SessionSpec ==
    SessionInit /\ [][SessionNext]_<<vars, topics>> /\ Fairness /\ T!Fairness

(* The properties of SectionTopics: what the search for a section finds has *)
(* a row, and its sections come to be linked.                               *)
MatchesResolve == T!MatchesResolve
SectionsLinked == T!EventuallyLinked
=============================================================================
