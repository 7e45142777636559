----------------------------- MODULE MCObservers -----------------------------
(***************************************************************************)
(* A rank for TLC: two bodies that share a name, a seed heap of one rock,  *)
(* a first harvest cycle of one rock and two of two, the last of which     *)
(* overruns the pool.  The step does not divide either period, and seven   *)
(* steps see four pose frames, five soil frames and two keyframes.         *)
(***************************************************************************)
EXTENDS Observers

MCNameOf(body) == body[1]
MCMachines == <<<<"lca", 1>>, <<"lca", 2>>>>
MCLabels == [m \in {<<"lca", 1>>, <<"lca", 2>>} |-> "collector"]
MCBuilderRocks == <<<<"seed_rock", 1>>>>
MCStaticUses == [n \in {<<"world", "pad">>} |-> 1]
MCHarvest(c) ==
    IF c = 0 THEN <<<<"harvest_rock", c>>>>
    ELSE <<<<"harvest_rock", c>>, <<"harvest_rock_2", c>>>>

=============================================================================
