----------------------------- MODULE HaulCycle -----------------------------
(***************************************************************************)
(* What a collector promises: it collects, comes home, tips its load, and  *)
(* only then counts a harvest and goes out again.                          *)
(***************************************************************************)
EXTENDS Integers

VARIABLES phase, loads

Init == phase = "collect" /\ loads = 0

GoHome == phase = "collect" /\ phase' = "return" /\ UNCHANGED loads

Tip == phase = "return" /\ phase' = "tip" /\ UNCHANGED loads

GoOut == phase = "tip" /\ phase' = "collect" /\ loads' = loads + 1

Next == GoHome \/ Tip \/ GoOut

Spec == Init /\ [][Next]_<<phase, loads>>

=============================================================================
