--------------------------- MODULE MCLegalStatus ---------------------------
(* An act with two sections and a later act that revokes it from day 2; from *)
(* day 1 the act counts as modified by it.                                  *)
EXTENDS LegalStatus

CONSTANTS act, amending, s1, s2

MCDocuments == {act, amending}
MCSections == {s1, s2}
MCSectionDoc == [s \in MCSections |-> act]
MCFactsOf == [d \in MCDocuments |->
    IF d = act THEN <<[kind |-> "modify", target |-> amending, date |-> 1]>>
    ELSE <<[kind |-> "revoke", target |-> act, date |-> 2]>>]
MCValidFrom == [d \in MCDocuments |-> IF d = act THEN 1 ELSE 0]
MCMarkDate == [s \in MCSections |-> IF s = s1 THEN 1 ELSE 0]
=============================================================================
