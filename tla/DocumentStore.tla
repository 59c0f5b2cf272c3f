--------------------------- MODULE DocumentStore ---------------------------
(* What the relational store promises to whoever persists and reads         *)
(* documents: one entry per reference, entered once and never taken back;   *)
(* a document that refers to entered references only, forgets none it has   *)
(* had, and keeps its topics.  References are their natural keys here: that *)
(* the tables deal in surrogate UUIDs, ask before they insert and are       *)
(* written by several coroutines at once is DocumentRepository's business.  *)
EXTENDS Naturals

CONSTANTS
    Keys,           \* natural keys of reference rows: table and external id
    None,           \* SQL NULL
    Publications    \* publish_ids

Columns == 1..4     \* the references of a document

VARIABLES
    entered,        \* the references that have a row
    document,       \* [Publications -> NoRow or the references of the row]
    topics          \* [Publications -> the topics linked to the document]

vars == <<entered, document, topics>>

NoRow == [c \in Columns |-> None]

Init ==
    /\ entered = {}
    /\ document = [p \in Publications |-> NoRow]
    /\ topics = [p \in Publications |-> {}]

Enter(k) ==
    /\ entered' = entered \cup {k}
    /\ UNCHANGED <<document, topics>>

(* A document comes to refer to other references; where it had one it still *)
(* has one.                                                                 *)
Write(p) ==
    /\ \A c \in Columns : /\ document'[p][c] \in entered \cup {None}
                         /\ document[p][c] # None => document'[p][c] # None
    /\ \A q \in Publications \ {p} : document'[q] = document[q]
    /\ UNCHANGED <<entered, topics>>

Link(p, k) ==
    /\ k \in entered
    /\ document[p] # NoRow
    /\ topics' = [topics EXCEPT ![p] = @ \cup {k}]
    /\ UNCHANGED <<entered, document>>

Next ==
    \/ \E k \in Keys : Enter(k)
    \/ \E p \in Publications : Write(p)
    \/ \E p \in Publications, k \in Keys : Link(p, k)

Spec == Init /\ [][Next]_vars
=============================================================================
