--------------------------- MODULE MCPravoAdapter ---------------------------
(* Model checking of PravoAdapter: a document of the second of two blocks,  *)
(* asked for by its publication number.                                     *)
EXTENDS PravoAdapter, TLC

CONSTANT d1

TheBlocks == <<"regional", "federal">>
TheBlockOf == d1 :> 2
TheAsked == {KeyOf("eo", d1)}
=============================================================================
