--------------------------- MODULE MCGraphBuilder ---------------------------
(* Two shapes that multiply both ways; for the dynamic API one of them, one   *)
(* longer than MAX_RANK = 2 and one whose element count overflows four bits.  *)
(* Builders and names are only compared.                                      *)
EXTENDS GraphBuilder

MCShapes     == {<<1, 2>>, <<2, 1>>}
MCEditShapes == {<<1, 2>>, <<1, 1, 1>>, <<15, 2>>}
MCSymmetry   == Permutations(Builders) \cup Permutations(Names)
=============================================================================
