----------------------------- MODULE WallCourse -----------------------------
(***************************************************************************)
(* What the builder's bridge promises of the wall (DESIGN.md, "Course      *)
(* state ... it does not reset"): the slots of the course are decided in   *)
(* order, each of them once and for all, by one stone or by a gap, and no  *)
(* stone is used twice.  BuilderArmBridge.tla implements it.               *)
(***************************************************************************)
EXTENDS Integers

CONSTANTS Rocks, NoRock, Slots

VARIABLES
    next,   \* first slot that is still undecided
    wall    \* the stone booked on each slot, NoRock for a gap or an open slot

vars == <<next, wall>>

Init == next = 0 /\ wall = [k \in Slots |-> NoRock]

\* A stone goes into the first open slot.
Lay(r) ==
    /\ next \in Slots
    /\ \A k \in Slots : wall[k] # r
    /\ wall' = [wall EXCEPT ![next] = r]
    /\ next' = next + 1

\* The slots before n are given up.
LeaveGaps(n) ==
    /\ n > next
    /\ n - 1 \in Slots
    /\ next' = n
    /\ UNCHANGED wall

Next ==
    \/ \E r \in Rocks : Lay(r)
    \/ \E k \in Slots : LeaveGaps(k + 1)

Spec == Init /\ [][Next]_vars

\* No stone is booked on two slots, and no slot is booked before its turn.
StonesAreDistinct ==
    /\ \A j, k \in Slots : wall[j] = wall[k] /\ wall[j] # NoRock => j = k
    /\ \A k \in Slots : k >= next => wall[k] = NoRock

\* A slot once decided keeps its stone or its gap.
DecidedForGood == [][\A k \in Slots : k < next => wall'[k] = wall[k]]_vars

=============================================================================
