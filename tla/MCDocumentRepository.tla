------------------------ MODULE MCDocumentRepository ------------------------
(* Two writers, one seeder and one reader over one document, which the      *)
(* source once edits: its organization goes unreported and a topic is added.*)
EXTENDS DocumentRepository

CONSTANTS src, org1, org2, t1

OneContent == [reference |-> <<src, None, None, org1>>, topic |-> <<>>]
Edited == [reference |-> <<src, None, None, None>>, topic |-> <<t1>>]
Moved == [reference |-> <<src, None, None, org2>>, topic |-> <<>>]

MCContents == {OneContent, Edited, Moved}
MCKeys == {src, org1, org2, t1}
MCTopics == {t1}
=============================================================================
