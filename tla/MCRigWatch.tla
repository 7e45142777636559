----------------------------- MODULE MCRigWatch -----------------------------
(***************************************************************************)
(* A rank for TLC.  The dynamics, the drive and the hull go wrong together;*)
(* the knuckles are disturbed by themselves.                               *)
(***************************************************************************)
EXTENDS RigWatch

MCKnuckles == [axle : 1..2, side : {"L", "R"}]
MCTroubles == {{"physics", "drive", "hull"}, {"knuckles"}}

=============================================================================
