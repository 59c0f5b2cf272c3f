-------------------------- MODULE MCIngestPipeline --------------------------
(* Model checking of IngestPipeline.  Section "1" has the child "1.1"; the *)
(* amendment of a document drops "1.1" and adds "2".                       *)
EXTENDS IngestPipeline, TLC

CONSTANTS s1, s11, s2

MCSections == {s1, s11, s2}
MCParent == s1 :> NoParent @@ s11 :> s1 @@ s2 :> NoParent
MCToc == [v \in 1 .. MaxVersion |-> IF v = 1 THEN <<s1, s11>> ELSE <<s1, s2>>]

Symmetry == Permutations(Workers)

=============================================================================
