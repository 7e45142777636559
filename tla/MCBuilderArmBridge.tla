------------------------- MODULE MCBuilderArmBridge -------------------------
(* Model checking of BuilderArmBridge.  Rocks are interchangeable, and so    *)
(* are Wide rocks, but not one for the other.                                *)
EXTENDS BuilderArmBridge, TLC

RockSymmetry == {p \in Permutations(Rocks) : \A r \in Wide : p[r] \in Wide}
=============================================================================
