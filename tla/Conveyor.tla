------------------------------ MODULE Conveyor ------------------------------
(***************************************************************************)
(* The builders on their common lane: the simulation loop gives each one   *)
(* the station of the slot it has to fill (src/main.cpp,                   *)
(* BuilderRig::SetStationAngle), its vehicle bridge publishes position and *)
(* station and applies the last command (src/BuilderVehicleRosBridge.cpp), *)
(* its orbit controller (builder_orbit_controller.py) drives it there, and *)
(* stops for its own arm and for the machine in front.                     *)
(*                                                                         *)
(* Lengths are arcs of the lane in one unit; positions and stations count  *)
(* from a common origin and are never reduced, the controller sees them as *)
(* bearings.  The constant lead of the hull over its arm base cancels.     *)
(* What a controller knows of the machine in front may be arbitrarily old. *)
(* Of its own machine it knows what was published a moment ago: Lag bounds *)
(* how far the hull gets before a new command reaches it.                  *)
(***************************************************************************)
EXTENDS Integers

CONSTANTS
    Count,      \* builders on the lane, num_builders
    Ring,       \* length of the lane
    Home,       \* RankRayAngleRad of each builder, as an arc
    Course,     \* number of slots of each builder, m_wall_slots.size()
    Pitch,      \* wall_slot_pitch
    MaxSlide,   \* station_fetch_max_arc_m
    Slides,     \* the fetch slides that occur
    Reach,      \* arc over which the arm serves a slot
    MinGap,     \* min_builder_gap_m
    Tol,        \* arrival band, station_tolerance
    Deadband,   \* station_keep_deadband
    Lag,        \* arc a hull covers at most past the position it was told to go at:
                \* topic delays, control period and braking distance together
    Silent      \* builders whose vehicle_state never reaches the one behind

Builders == 1..Count
Half == Ring \div 2

ASSUME ConveyorAssumption ==
    /\ Count \in Nat \ {0, 1} /\ Ring \in Nat
    /\ Course \in [Builders -> Nat \ {0}] /\ Pitch \in Nat \ {0} /\ MaxSlide \in Nat
    /\ Slides \subseteq -MaxSlide..MaxSlide \ {0}
    /\ Reach \in Nat /\ MinGap \in Nat /\ Tol \in Nat /\ Deadband \in 0..Tol
    /\ Lag \in 1..(Tol + 1) /\ Lag <= MinGap
    /\ Silent \subseteq Builders
    /\ Home \in [Builders -> 0..Ring]
    /\ \A b \in Builders \ {Count} : Home[b + 1] - Home[b] >= MinGap
    /\ Home[1] + Ring - Home[Count] >= MinGap
    \* A course spans less than half the lane: a station never reads as behind.
    /\ \A b \in Builders : Course[b] * Pitch + MaxSlide + Lag < Half

NoNews == -1
Brake == -1

VARIABLES
    enabled,     \* past m_command_enable_time
    pos,         \* arc position of each arm base
    goFrom,      \* where the driving command in force was computed, Brake for full
                 \* brake and no throttle
    placed,      \* m_placed_count
    slide,       \* m_station_fetch_offset
    slid,        \* m_fetch_offset_slot is the current slot
    station,     \* m_last_station_angle
    busy,        \* LrvArm::IsBusy
    seenAhead,   \* ahead_state
    mode         \* driving, holding (holding_station) or gaveUp (creep_gave_up too)

courses    == <<placed, slide, slid>>
controller == <<seenAhead, mode>>
vars == <<enabled, pos, goFrom, courses, station, busy, controller>>

\* (builder_id % n) + 1
AheadOf(b) == IF b = Count THEN 1 ELSE b + 1

Init ==
    /\ enabled = FALSE
    /\ pos = Home /\ station = Home
    /\ goFrom = [b \in Builders |-> Brake]
    /\ placed = [b \in Builders |-> 0] /\ slide = [b \in Builders |-> 0]
    /\ slid = [b \in Builders |-> FALSE] /\ busy = [b \in Builders |-> FALSE]
    /\ seenAhead = [b \in Builders |-> NoNews]
    /\ mode = [b \in Builders |-> "driving"]

----------------------------------------------------------------------------
(* The station.                                                            *)

SlotArc(b, k) == Home[b] + k * Pitch

\* What main.cpp asks for, the fetch slide of the arm bridge added.
Wanted(b) == SlotArc(b, placed[b]) + slide[b]

\* Mutated forms, here and below, are faults the properties must expose: this
\* station follows whatever is computed, backwards too.
SetStationAnyhow(b) ==
    /\ Wanted(b) # station[b]
    /\ station' = [station EXCEPT ![b] = Wanted(b)]
    /\ mode' = [mode EXCEPT ![b] = "driving"]
    /\ UNCHANGED <<enabled, pos, goFrom, courses, busy, seenAhead>>

\* SetStationAngle holds the last station against a retreat.  The controller hears
\* of the new one (on_station_angle).
SetStation(b) ==
    /\ Wanted(b) > station[b]
    /\ station' = [station EXCEPT ![b] = Wanted(b)]
    /\ mode' = [mode EXCEPT ![b] = "driving"]
    /\ UNCHANGED <<enabled, pos, goFrom, courses, busy, seenAhead>>

----------------------------------------------------------------------------
(* The arm bridge, as far as it moves the station (BuilderArmBridge.tla    *)
(* has the whole of it).  All of it waits for a parked hull.               *)

\* The anchor the brake engages keeps a parked hull where it stands.
Parked(b) == enabled /\ goFrom[b] = Brake

AtWork(b) == Parked(b) /\ ~busy[b] /\ placed[b] < Course[b]

Away(b) == pos[b] - SlotArc(b, placed[b])
Servable(b) == Away(b) \in -Reach..Reach

ArmStarts(b) ==
    /\ AtWork(b)
    /\ Servable(b)
    /\ busy' = [busy EXCEPT ![b] = TRUE]
    /\ UNCHANGED <<enabled, pos, goFrom, courses, station, controller>>

\* The slot is settled, by a stone or after the last failed attempt, and the slide
\* that served it is dropped: the wanted station may fall back.
ArmSettles(b) ==
    /\ busy[b]
    /\ busy' = [busy EXCEPT ![b] = FALSE]
    /\ placed' = [placed EXCEPT ![b] = @ + 1]
    /\ slide' = [slide EXCEPT ![b] = 0]
    /\ slid' = [slid EXCEPT ![b] = FALSE]
    /\ UNCHANGED <<enabled, pos, goFrom, station, controller>>

\* The attempt failed and will be repeated.
ArmMisses(b) ==
    /\ busy[b]
    /\ busy' = [busy EXCEPT ![b] = FALSE]
    /\ UNCHANGED <<enabled, pos, goFrom, courses, station, controller>>

\* A starved builder slides its station towards a rock just out of reach, once a slot.
Fetch(b, arc) ==
    /\ AtWork(b) /\ ~slid[b]
    /\ slide' = [slide EXCEPT ![b] = arc]
    /\ slid' = [slid EXCEPT ![b] = TRUE]
    /\ UNCHANGED <<enabled, pos, goFrom, placed, station, busy, controller>>

\* A slot nothing was delivered for is given up.  (The resync of a hull pushed past
\* its slot is in BuilderArmBridge.tla: here a hull only moves as it is driven.)
Abandon(b) ==
    /\ AtWork(b)
    /\ placed' = [placed EXCEPT ![b] = @ + 1]
    /\ slide' = [slide EXCEPT ![b] = 0]
    /\ slid' = [slid EXCEPT ![b] = FALSE]
    /\ UNCHANGED <<enabled, pos, goFrom, station, busy, controller>>

\* A slot out of reach is skipped after a while; its slide stays.
SkipUnservable(b) ==
    /\ AtWork(b) /\ ~Servable(b)
    /\ placed' = [placed EXCEPT ![b] = @ + 1]
    /\ slid' = [slid EXCEPT ![b] = FALSE]
    /\ UNCHANGED <<enabled, pos, goFrom, slide, station, busy, controller>>

CourseMoves(b) == Abandon(b) \/ SkipUnservable(b)

----------------------------------------------------------------------------
(* What the controller hears.                                              *)

\* on_ahead_state
HearAhead(b) ==
    /\ AheadOf(b) \notin Silent
    /\ seenAhead' = [seenAhead EXCEPT ![b] = pos[AheadOf(b)]]
    /\ UNCHANGED <<enabled, pos, goFrom, courses, station, busy, mode>>

----------------------------------------------------------------------------
(* on_timer.                                                               *)

\* Mutated: the gap is taken as a signed difference.
SignedForward(d) == d

\* delta %= 2 * pi, of a difference of bearings.
Forward(d) == IF d < 0 THEN d + Ring ELSE d

\* wrap_to_pi, of a difference of bearings.
Turn(d) == IF d > Half THEN d - Ring ELSE IF d < -Half THEN d + Ring ELSE d

\* Mutated: a builder with no room keeps going.
HeldNever(b) == FALSE

\* gap_to_ahead: no news is no constraint, and news is kept for ever.
Held(b) == seenAhead[b] # NoNews /\ Forward(seenAhead[b] - pos[b]) < MinGap

\* Mutated: arrival is judged on the travel that remains, which is a lap just past
\* the station.
RemainingTravel(b) == Forward(station[b] - pos[b])

\* station_error
Error(b) == Turn(station[b] - pos[b])

Arrives(b) == Error(b) \in -Tol..Tol

\* The command reaches the hull unless the settle window discards it.
Command(b, drives) ==
    goFrom' = [goFrom EXCEPT ![b] = IF drives /\ enabled THEN pos[b] ELSE Brake]

\* No room in front, or the arm at work: brake, and nothing else is looked at.  The arm is
\* read as it is: the delay of arm_status, like that of the hull's own state, counts as Lag.
Frozen(b) == Held(b) \/ busy[b]

TimerBrakes(b) ==
    /\ Frozen(b)
    /\ Command(b, FALSE)
    /\ UNCHANGED <<enabled, pos, courses, station, busy, controller>>

\* Short of the mark the builder creeps on.  The creep may stall, and is then given
\* up until the station moves.
TimerHolds(b, stalls) ==
    /\ ~Frozen(b)
    /\ mode[b] # "driving" \/ Arrives(b)
    /\ stalls => Error(b) > Deadband
    /\ mode' = [mode EXCEPT ![b] = IF stalls \/ @ = "gaveUp" THEN "gaveUp" ELSE "holding"]
    /\ Command(b, Error(b) > Deadband /\ mode'[b] = "holding")
    /\ UNCHANGED <<enabled, pos, courses, station, busy, seenAhead>>

\* On the way, whatever the sign of the error: the builder only drives one way.
TimerDrives(b) ==
    /\ ~Frozen(b)
    /\ mode[b] = "driving" /\ ~Arrives(b)
    /\ Command(b, TRUE)
    /\ UNCHANGED <<enabled, pos, courses, station, busy, controller>>

Timer(b) == TimerBrakes(b) \/ TimerDrives(b) \/ \E stalls \in BOOLEAN : TimerHolds(b, stalls)

----------------------------------------------------------------------------
(* The hull.                                                               *)

Move(b) ==
    /\ goFrom[b] # Brake
    /\ pos[b] < goFrom[b] + Lag
    /\ pos' = [pos EXCEPT ![b] = @ + 1]
    /\ UNCHANGED <<enabled, goFrom, courses, station, busy, controller>>

\* The settle window ends; the topics that exist were heard by then.
Enable ==
    /\ ~enabled
    /\ \A b \in Builders : seenAhead[b] # NoNews \/ AheadOf(b) \in Silent
    /\ enabled' = TRUE
    /\ UNCHANGED <<pos, goFrom, courses, station, busy, controller>>

Arm(b) ==
    \/ ArmStarts(b) \/ ArmSettles(b) \/ ArmMisses(b)
    \/ \E arc \in Slides : Fetch(b, arc)
    \/ CourseMoves(b)

Next ==
    \/ Enable
    \/ \E b \in Builders : SetStation(b) \/ Arm(b) \/ HearAhead(b) \/ Timer(b) \/ Move(b)

\* The loop and the hulls never rest, every topic is heard again and again, a
\* starved or unservable slot is given up in the end, and so is an attempt: the
\* bridge counts them.
Fairness ==
    /\ WF_vars(Enable)
    /\ \A b \in Builders :
        /\ WF_vars(SetStation(b)) /\ WF_vars(Move(b))
        /\ WF_vars(HearAhead(b)) /\ WF_vars(Timer(b))
        /\ SF_vars(CourseMoves(b) \/ ArmStarts(b)) /\ SF_vars(ArmSettles(b))

Spec == Init /\ [][Next]_vars
FairSpec == Spec /\ Fairness

----------------------------------------------------------------------------
(* Properties *)

\* The arc that is free in front of a builder.
Gap(b) == IF b = Count THEN pos[1] + Ring - pos[b] ELSE pos[b + 1] - pos[b]

\* Types, and the course: no builder settles a slot past its last one.  The station of a
\* complete course is one pitch past it (main.cpp), where nothing is left to lay.
TypeOK ==
    /\ enabled \in BOOLEAN
    /\ pos \in [Builders -> Nat] /\ station \in [Builders -> Nat]
    /\ goFrom \in [Builders -> Nat \cup {Brake}]
    /\ placed \in [Builders -> Nat] /\ \A b \in Builders : placed[b] <= Course[b]
    /\ slide \in [Builders -> -MaxSlide..MaxSlide] /\ slid \in [Builders -> BOOLEAN]
    /\ busy \in [Builders -> BOOLEAN]
    /\ seenAhead \in [Builders -> Nat \cup {NoNews}]
    /\ mode \in [Builders -> {"driving", "holding", "gaveUp"}]

\* Two builders stay the required gap apart, short of what a hull covers before the
\* brake command takes effect, although what the one behind knows of the one in front
\* may be long out of date (gap_to_ahead).
SeparationKept == \A b \in Builders : Gap(b) >= MinGap - Lag

\* No builder runs past its station by more than Lag allows.  One that did by more
\* than the arrival band would read as not arrived and drive a whole lap (on_timer).
NoLap == \A b \in Builders : pos[b] < station[b] + Lag

Lane == INSTANCE Convoy WITH goal <- station, Apart <- MinGap - Lag, Past <- Lag - 1

\* Stations only move forward, whatever the fetch slides do, and hulls only move
\* forward, up to them and no closer to each other than allowed.
ImplementsConvoy == Lane!Spec

\* The conveyor never jams: every course is finished, and every builder ends at its
\* last station, when all of them are heard and the courses leave room for it.
EveryoneArrives ==
    <>[](\A b \in Builders : placed[b] = Course[b] /\ pos[b] >= station[b] - Tol)

=============================================================================
