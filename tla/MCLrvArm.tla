------------------------------ MODULE MCLrvArm ------------------------------
(* Model checking of LrvArm: symmetry over the rock bodies.                 *)
EXTENDS LrvArm, TLC

RockSymmetry == Permutations(Rocks)
=============================================================================
