--------------------------- MODULE MCBoardRotation ---------------------------
(***************************************************************************)
(* A small instance of BoardRotation: one platform of three boards, enough  *)
(* for an outage to be suspected, and one board of a platform whose fetcher *)
(* tries two engines.                                                       *)
(***************************************************************************)
EXTENDS BoardRotation, TLC

CONSTANTS a1, a2, a3, b1, greenhouse, darwinbox

SmallAtsOf == [b \in Boards |-> IF b = b1 THEN darwinbox ELSE greenhouse]

Symmetry == Permutations(Boards \ {b1})
=============================================================================
