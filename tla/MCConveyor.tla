----------------------------- MODULE MCConveyor -----------------------------
(* Model checking of Conveyor: the builders stand evenly on the lane.       *)
EXTENDS Conveyor

EvenHome == [b \in Builders |-> (b - 1) * (Ring \div Count)]

\* The first builder has the longer course.
LongAndShort == [b \in Builders |-> IF b = 1 THEN 2 ELSE 1]
=============================================================================
