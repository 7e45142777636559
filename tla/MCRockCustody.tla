--------------------------- MODULE MCRockCustody ---------------------------
(* Model checking of RockCustody: a heap of one rock, and a harvest of one  *)
(* rock followed by another.                                                *)
EXTENDS RockCustody

CONSTANTS s1, h1, h2

OneByOne == [c \in 0..1 |-> IF c = 0 THEN {h1} ELSE {h2}]
=============================================================================
