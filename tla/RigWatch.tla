------------------------------ MODULE RigWatch ------------------------------
(***************************************************************************)
(* The watchers of one rank.  Every rank runs in lockstep with the others, *)
(* so a rank that is dead must end the job and one that merely waits must  *)
(* not.  One step of the main loop runs, in this order: the divergence     *)
(* scan, the stuck detector, the kingpin stops, the driver with the        *)
(* traction guard and the differential lock (RobotRig::Synchronize), the   *)
(* builder's hull detector, the dynamics, and the checks that abort.       *)
(*                                                                         *)
(* Speeds, loads and angles are the ranges the code tells apart.  A clock  *)
(* is the number of steps since its time stamp, counted up to the          *)
(* threshold it is compared with, so a run has no end.  The wheel          *)
(* diagnostics (sinkage, trailer anomalies) only print and are left out.   *)
(***************************************************************************)
EXTENDS Integers, FiniteSets, Functions

CONSTANTS
    ScanPeriod,     \* divergence_scan_period, in steps
    MaxReports,     \* divergence_max_reports
    Dwell,          \* stuck_dwell
    ReportPeriod,   \* stuck_report_period
    HullTimeout,    \* hull_stuck_timeout
    Knuckles,       \* the uprights, records [axle, side]
    StopTorqueMax,  \* bound on a stop's torque
    Troubles        \* bound: the sets of readings that vary together in one run

ASSUME WatchAssumption ==
    /\ {ScanPeriod, Dwell, ReportPeriod, HullTimeout, StopTorqueMax} \subseteq Nat \ {0}
    /\ MaxReports \in Nat
    /\ Knuckles \subseteq [axle : Nat, side : {"L", "R"}] /\ IsFiniteSet(Knuckles)

VARIABLES
    pc,        \* the call of the loop's step that runs next, or "aborted"
    trouble,   \* which readings vary in this run
    health, deadFor,               \* the bodies; steps since one of them is not finite, or -1
    diverged, scanAge, warnings,   \* m_diverged, m_last_divergence_scan, m_divergence_reports
    speed, guarded,                \* the rover's; m_last_guarded_inputs, the throttle of it
    stuckFor, reportAge,           \* m_stuck_since, m_last_stuck_report
    stalledFor,                    \* steps the rover has stood still under throttle, or -1
    stop, angle, torque, reaction, \* m_steering_stops: its upright, and the torques they apply
    locked,                        \* m_axle_diff_locked
    parked, hullAge, hullStuck, waitedFor  \* m_hull_*; steps driven without moving

scan == <<diverged, scanAge, warnings>>
stuck == <<stuckFor, reportAge, stalledFor>>
stops == <<stop, angle, torque, reaction>>
inputs == <<guarded, locked>>
hull == <<parked, hullAge, hullStuck, waitedFor>>
world == <<trouble, health, deadFor, speed>>
vars == <<pc, world, scan, stuck, stops, inputs, hull>>

NotBound == [k \in {} |-> k]
None == -1
Varies(reading) == reading \in trouble
Until(cap, age) == IF age = None \/ age = cap THEN age ELSE age + 1

Init ==
    /\ pc = "scan" /\ trouble \in Troubles
    /\ health = "calm" /\ deadFor = None /\ speed = "still"
    /\ diverged = FALSE /\ scanAge = ScanPeriod /\ warnings = 0
    /\ guarded = "off" /\ locked = TRUE
    /\ stuckFor = None /\ reportAge = ReportPeriod /\ stalledFor = None
    /\ stop = NotBound /\ reaction = 0
    /\ angle = [k \in Knuckles |-> "inside"] /\ torque = [k \in Knuckles |-> 0]
    /\ parked = FALSE /\ hullAge = 0 /\ hullStuck = FALSE /\ waitedFor = 0

----------------------------------------------------------------------------
(* RobotRig::Synchronize *)

\* Mutated: the scan ends with the quota of reports.
ScanDueWithinQuota == ~diverged /\ scanAge = ScanPeriod /\ warnings < MaxReports

ScanDue == ~diverged /\ scanAge = ScanPeriod

\* Only the printing of warnings is capped; the latch is set first.
CheckDivergence ==
    /\ pc = "scan" /\ pc' = "stuck"
    /\ \/ /\ ScanDue /\ scanAge' = 0
          /\ diverged' = (health = "nan")
          /\ warnings' = IF health = "nan" \/ (health = "wild" /\ warnings < MaxReports)
                         THEN warnings + 1 ELSE warnings
       \/ ~ScanDue /\ UNCHANGED scan
    /\ UNCHANGED <<world, stuck, stops, inputs, hull>>

Trying == guarded = "on"
Blind == speed = "nan" \/ guarded = "nan"

\* Mutated: the clock is started whenever the rover is found stuck.
StuckClockRestarted == 0

StuckClock == IF stuckFor = None THEN 0 ELSE stuckFor

\* Started when the rover first stands still under throttle, ended by any sign of motion.
CheckStuck ==
    /\ pc = "stuck" /\ pc' = "stops"
    /\ stuckFor' = IF Blind THEN stuckFor
                   ELSE IF ~Trying \/ speed # "still" THEN None ELSE StuckClock
    /\ reportAge' = IF ~Blind /\ Trying /\ speed = "still" /\ stuckFor = Dwell
                       /\ reportAge = ReportPeriod
                    THEN 0 ELSE reportAge
    /\ stalledFor' = IF speed = "still" /\ guarded = "on"
                     THEN (IF stalledFor = None THEN 0 ELSE stalledFor) ELSE None
    /\ UNCHANGED <<world, scan, stops, inputs, hull>>

\* Mutated: the first upright of the name, whatever its axle.
FirstUpright(k) ==
    CHOOSE u \in Knuckles : u.side = k.side /\ \A v \in Knuckles : v.side = k.side => u.axle <= v.axle

\* The uprights of a side share their name: the one nearest to the spindle is its own.
Upright(k) ==
    LET Distance(u) == IF u.axle < k.axle THEN k.axle - u.axle ELSE u.axle - k.axle
        named == {u \in Knuckles : u.side = k.side}
    IN CHOOSE u \in named : \A v \in named : Distance(u) <= Distance(v)

\* The spring's push against the damper's drag: the two may cancel.
Torques == -StopTorqueMax..StopTorqueMax

\* Mutated: an upright that comes back keeps the torque of the last step.
ReleasedKeeps(k) == torque[k]

Released(k) == 0

\* Bound at the first call.  A stop pushes while its upright is outside and is emptied
\* when it is back; the chassis carries the sum of the reactions.
ApplySteeringStops ==
    /\ pc = "stops" /\ pc' = "drive"
    /\ stop' = IF stop = NotBound THEN [k \in Knuckles |-> Upright(k)] ELSE stop
    /\ angle' \in IF Varies("knuckles") THEN [Knuckles -> {"inside", "outside"}] ELSE {angle}
    /\ \E push \in [Knuckles -> Torques] :
          LET Outside(k) == angle'[stop'[k]] = "outside"
          IN /\ torque' = [k \in Knuckles |-> IF Outside(k) THEN push[k] ELSE Released(k)]
             /\ reaction' = -SumFunction([k \in {s \in Knuckles : Outside(s)} |-> push[k]])
    /\ UNCHANGED <<world, scan, stuck, inputs, hull>>

\* ApplyTractionGuard: without load on the front axle, over its lateral limit, or so near
\* to it that the cap of the friction circle leaves less than what CheckStuck calls
\* trying, the throttle is cut; a load that is not finite cuts it too.
Guard(throttle, front) ==
    CASE front \in {"airborne", "slipping"} -> "off"
      [] front = "unreadable" -> IF throttle = "nan" THEN "nan" ELSE "off"
      [] OTHER -> throttle

Readings(finite, other) == finite \cup (IF health = "nan" THEN {other} ELSE {})

\* The lateral limit shrinks with the load: a front that barely carries passes it creeping.
Fronts == Readings({"loaded", "airborne", "slipping"}, "unreadable")

\* UpdateAxleDifferentialLock: released to turn at speed, with hysteresis on the steering.
WantsLock(steering) ==
    \/ speed \in {"still", "slow"}
    \/ steering = "straight"
    \/ locked /\ steering = "between"

\* The driver's throttle is what the controller last sent, 0 before it has sent anything.
Drive ==
    /\ pc = "drive" /\ pc' = "hull"
    /\ IF Varies("drive")
       THEN \E front \in Fronts, steering \in {"straight", "between", "hard"} :
               /\ \E throttle \in Readings({"off", "on"}, "nan") :
                     guarded' = Guard(throttle, front)
               /\ locked' = WantsLock(steering)
       ELSE UNCHANGED inputs
    /\ UNCHANGED <<world, scan, stuck, stops, hull>>

----------------------------------------------------------------------------
(* The builder's hull, the dynamics, the end of the step *)

\* Mutated: the clock runs while the hull is parked.
AnchoredNever == FALSE

Anchored == parked'

\* PublishBuild: the clock runs only while the hull is driven, from the last time it moved
\* hull_stuck_move_m.
WatchHull ==
    /\ pc = "hull" /\ pc' = "advance"
    /\ parked' \in IF Varies("hull") THEN BOOLEAN ELSE {TRUE}
    /\ \E moved \in IF Varies("hull") THEN BOOLEAN ELSE {FALSE} :
          /\ hullAge' = IF moved \/ Anchored THEN 0 ELSE hullAge
          /\ hullStuck' = (hullStuck \/ (~Anchored /\ hullAge' = HullTimeout))
          /\ waitedFor' = IF moved \/ parked' THEN 0 ELSE waitedFor
    /\ UNCHANGED <<world, scan, stuck, stops, inputs>>

\* A body that is not finite stays so; a chassis that is not finite is a body.
Advance ==
    /\ pc = "advance" /\ pc' = "check"
    /\ health' \in IF health = "nan" THEN {"nan"}
                   ELSE IF Varies("physics") THEN {"calm", "wild", "nan"} ELSE {"calm"}
    /\ speed' \in IF ~Varies("drive") THEN {speed}
                  ELSE {"still", "slow", "fast"} \cup (IF health' = "nan" THEN {"nan"} ELSE {})
    /\ speed = "nan" => speed' = "nan"
    /\ deadFor' = IF health' # "nan" THEN None
                  ELSE IF deadFor = None THEN 0 ELSE Until(ScanPeriod, deadFor)
    /\ scanAge' = Until(ScanPeriod, scanAge)
    /\ stuckFor' = Until(Dwell, stuckFor) /\ reportAge' = Until(ReportPeriod, reportAge)
    /\ stalledFor' = Until(Dwell, stalledFor)
    /\ hullAge' = Until(HullTimeout, hullAge) /\ waitedFor' = Until(HullTimeout, waitedFor)
    /\ UNCHANGED <<trouble, diverged, warnings, stops, inputs, parked, hullStuck>>

\* HasDiverged and HullStuck end the job: MPI_Abort.
CheckAbort ==
    /\ pc = "check"
    /\ pc' = IF diverged \/ hullStuck THEN "aborted" ELSE "scan"
    /\ UNCHANGED <<world, scan, stuck, stops, inputs, hull>>

Next ==
    \/ CheckDivergence \/ CheckStuck \/ ApplySteeringStops \/ Drive
    \/ WatchHull \/ Advance \/ CheckAbort

Spec == Init /\ [][Next]_vars

----------------------------------------------------------------------------
(* Properties *)

\* "Letting it run wastes the whole job": no step begins with a body that has not been
\* finite for a scan period, however many warnings came before, and none follows the one
\* in which a hull has been driven for its timeout without moving.
DeadRankEndsRun ==
    /\ pc = "scan" => deadFor < ScanPeriod /\ ~diverged /\ ~hullStuck
    /\ pc = "advance" /\ waitedFor = HullTimeout => hullStuck

\* Nothing else ends it: "parked at a station waiting on feedstock ... must never trip
\* this, however long it lasts".
AbortIsWarranted ==
    pc = "aborted" => health = "nan" \/ waitedFor = HullTimeout

\* A rover that has stood still under throttle for the dwell has been reported, and not
\* longer ago than the report period.
StallIsReported ==
    pc = "stops" /\ stalledFor = Dwell => reportAge < ReportPeriod

\* Once bound, each upright has one stop; a stop pushes none but an upright that is outside,
\* and the torques on the uprights and the chassis cancel: "not a torque out of nowhere".
KnucklesAreHeld ==
    /\ stop = NotBound \/ stop \in Bijection(Knuckles, Knuckles)
    /\ \A s \in DOMAIN stop : torque[s] # 0 => angle[stop[s]] = "outside"
    /\ reaction + SumFunction(torque) = 0

=============================================================================
