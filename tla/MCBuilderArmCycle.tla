-------------------------- MODULE MCBuilderArmCycle -------------------------
(* Model checking of BuilderArmCycle. *)
EXTENDS BuilderArmCycle, TLC

RockSymmetry == Permutations(Rocks)
=============================================================================
