------------------------------ MODULE ArmCycle ------------------------------
(***************************************************************************)
(* What an LrvArm promises to the bridge that commands it (LrvArm.h, the   *)
(* coarse m_status.state 0 idle / 1 busy / 2 done / 3 failed): one         *)
(* pick/place cycle at a time, a failure only while the rock has not been  *)
(* gripped, and success only after the rock has been let go.               *)
(* LrvArm.tla is the detailed phase machine that implements it.            *)
(***************************************************************************)
EXTENDS Naturals

CONSTANTS Rocks,    \* rock bodies the arm may be sent for
          NoRock    \* "no rock in the gripper"

VARIABLES stage,    \* where the cycle stands
          held      \* the rock the gripper holds, or NoRock

vars == <<stage, held>>

Stages == {"idle", "reaching", "carrying", "released", "done", "failed"}

TypeOK == stage \in Stages /\ held \in Rocks \cup {NoRock}

Init == stage = "idle" /\ held = NoRock

\* A cycle starts only when none is running.
Begin ==
    /\ stage \in {"idle", "done", "failed"}
    /\ stage' \in {"reaching", "failed"}
    /\ held' = NoRock

Grip ==
    /\ stage = "reaching"
    /\ stage' = "carrying"
    /\ held' \in Rocks

\* Only a cycle that has not gripped its rock yet may fail.
Fail ==
    /\ stage = "reaching"
    /\ stage' = "failed"
    /\ UNCHANGED held

Release ==
    /\ stage = "carrying"
    /\ stage' = "released"
    /\ held' = NoRock

Finish ==
    /\ stage = "released"
    /\ stage' = "done"
    /\ UNCHANGED held

Next == Begin \/ Grip \/ Fail \/ Release \/ Finish

Spec == Init /\ [][Next]_vars

\* With this fairness a cycle that has begun always ends.
FairSpec == Spec /\ WF_vars(Grip \/ Fail) /\ WF_vars(Release) /\ WF_vars(Finish)

=============================================================================
