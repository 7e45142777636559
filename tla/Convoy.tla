------------------------------- MODULE Convoy -------------------------------
(***************************************************************************)
(* What the builders' conveyor promises (the notes over                    *)
(* BuilderWallSlotCount in src/RobotLayout.h and over SetStationAngle in   *)
(* src/BuilderRig.cpp): machines on one circular lane move forward only,   *)
(* none comes closer than Apart to the one in front, and none goes past    *)
(* the station it was last given by more than Past, for that would cost it *)
(* a lap.  Conveyor.tla implements it.                                     *)
(***************************************************************************)
EXTENDS Integers

CONSTANTS
    Count,  \* machines on the lane, numbered 1..Count in the direction of travel
    Ring,   \* length of the lane
    Apart,  \* arc that stays free in front of a machine
    Past    \* arc a machine may run past its station

VARIABLES
    pos,    \* arc travelled by each machine, from a common origin
    goal    \* station of each machine, on the same scale

vars == <<pos, goal>>

Machines == 1..Count

\* Arc from machine b to the one in front of it, of the positions p.
Room(p, b) == IF b = Count THEN p[1] + Ring - p[b] ELSE p[b + 1] - p[b]

Init ==
    /\ pos \in [Machines -> Int] /\ goal = pos
    /\ \A b \in Machines : Room(pos, b) >= Apart

\* One machine moves up.
Advance(b) ==
    /\ pos' = [pos EXCEPT ![b] = @ + 1]
    /\ Room(pos', b) >= Apart
    /\ pos'[b] <= goal[b] + Past
    /\ UNCHANGED goal

\* One machine gets a new station, ahead of the one it had.
Assign(b) ==
    /\ goal'[b] > goal[b]
    /\ goal' = [goal EXCEPT ![b] = goal'[b]]
    /\ UNCHANGED pos

Next == \E b \in Machines : Advance(b) \/ Assign(b)

Spec == Init /\ [][Next]_vars

=============================================================================
