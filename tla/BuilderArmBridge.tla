-------------------------- MODULE BuilderArmBridge --------------------------
(***************************************************************************)
(* The builder's arm bridge (src/BuilderArmRosBridge.cpp) with the arm it  *)
(* drives and the hull it stands on: which rock is offered, which command  *)
(* is accepted, how a finished cycle is booked, and every way the course   *)
(* advances without a stone.                                               *)
(*                                                                         *)
(* One iteration of the simulation loop runs the handler                   *)
(* BuilderArmRosBridge::Synchronize and then LrvArm::Update and the        *)
(* physics.  pc is where that single thread stands:                        *)
(*   feed -> command -> book -> publish -> advance -> feed ...             *)
(* Nothing else runs in between: the ROS callback is served inside         *)
(* Synchronize (spin_some), so the command taken at "command" is a         *)
(* parameter of that stage and any command may be waiting there.           *)
(*                                                                         *)
(* Geometry is the arc of the orbit in slot pitches: slot k lies at        *)
(* bearing k, a rock at bearing at[r], the arm base at bearing hull, which *)
(* only ever grows (the orbit is one-way).  Rocks in Wide lie too far out  *)
(* radially: no station brings them into reach.                            *)
(***************************************************************************)
EXTENDS Integers, FiniteSets

CONSTANTS
    Rocks, NoRock,  \* feedstock bodies of this rank; NoRock is the null pointer
    Wide,           \* rocks dropped radially out of reach
    Bearings,       \* bearings at which feedstock may lie
    NSlots,         \* length of the course, m_wall_slots.size()
    ReachMin,       \* arc the arm reaches over, pitches: what lies nearer is under
    Reach,          \* feedstock_reach_min, what lies further over feedstock_reach_max
    FetchMargin,    \* fetch_reach_margin
    MaxSlide,       \* station_fetch_max_arc_m
    Overshoot,      \* station_overshoot_pitches, rounded up
    Strand,         \* stranded_clear_rad
    MaxAttempts,    \* max_grab_attempts
    LateCommands    \* TRUE: a new command may come in the step between the arm's
                    \* finishing and the booking of that completion

ASSUME BridgeAssumption ==
    /\ NoRock \notin Rocks /\ IsFiniteSet(Rocks)
    /\ Wide \subseteq Rocks
    /\ Bearings \subseteq Nat
    /\ NSlots \in Nat \ {0}
    /\ Reach \in Nat /\ ReachMin \in 0..Reach /\ FetchMargin \in Nat /\ MaxSlide \in Nat
    /\ Overshoot \in Nat \ {0}
    /\ Strand \in Nat /\ Strand > Reach
    /\ MaxAttempts \in Nat \ {0}
    /\ LateCommands \in BOOLEAN

VARIABLES
    pc,             \* where the loop iteration stands
    enabled,        \* past m_command_enable_time: commands are applied
    hull,           \* bearing of the arm base
    parked,         \* m_hull_parked
    station,        \* m_last_station_angle, as a bearing
    at,             \* bearing of each rock
    feedstock,      \* m_feedstock
    consumed,       \* m_consumed
    attempts,       \* m_grab_attempts
    selected,       \* m_selected
    placed,         \* m_placed_count
    activeSlot,     \* m_active_slot, -1 when none
    activeRock,     \* m_active_rock
    lastSeq,        \* m_last_started_seq; 0, below every command's, stands for the
    settledSeq,     \* m_settled_seq       initial -1 and -2 of the two
    offset,         \* m_station_fetch_offset, pitches
    offsetSlot,     \* m_fetch_offset_slot
    starved,        \* m_starved_since >= 0
    starvedSlot,    \* m_starved_slot
    spareAtStarve,  \* m_spare_at_starve
    unservable,     \* m_unservable_since >= 0
    gate,           \* the keep-out: off, held (arm gated) or released (timed out)
    arm,            \* stage of the arm's cycle, as in ArmCycle
    target,         \* the arm's m_target_rock
    fixed,          \* ChBody::IsFixed of each rock
    laid            \* the slot a rock was released over, -1 if none

world     == <<hull, parked, station, at>>
supply    == <<feedstock, selected>>
course    == <<placed, offset, offsetSlot, starved, starvedSlot, spareAtStarve, unservable>>
cycle     == <<activeSlot, activeRock, lastSeq, settledSeq>>
armBodies == <<arm, target, fixed, laid>>
vars == <<pc, enabled, world, supply, consumed, attempts, course, cycle, gate, armBodies>>

Slots == 0..(NSlots - 1)
NoOffer == [ready |-> FALSE, slot |-> -1, rock |-> NoRock]
NoCommand == [seq |-> 0, slot |-> -1, rock |-> NoRock]

\* A 12-element arm_cmd; rock is the body its x/y identify (FindFeedstockNear),
\* NoRock when no body lies within command_rock_match_tol.
Commands == [seq : Nat, slot : Slots, rock : Rocks \cup {NoRock}]

\* std::min and std::max.  The names Min and Max belong to the community modules.
Lesser(a, b)  == IF a <= b THEN a ELSE b
Greater(a, b) == IF a <= b THEN b ELSE a
Clamp(x, lo, hi) == Greater(lo, Lesser(x, hi))

Busy == arm \in {"reaching", "carrying", "released"}
BuildComplete == placed >= NSlots

\* Distance from the arm base, the radial miss of a Wide rock included.
Arc(a, b) == IF a <= b THEN b - a ELSE a - b
Dist(r) == Arc(hull, at[r]) + (IF r \in Wide THEN Reach + 1 ELSE 0)
Spare == feedstock \ consumed

Init ==
    /\ pc = "feed" /\ enabled = FALSE
    /\ hull = 0 /\ parked = TRUE /\ station = 0
    /\ at \in [Rocks -> Bearings]
    /\ feedstock \in SUBSET Rocks      \* the seed heap
    /\ consumed = {} /\ attempts = [r \in Rocks |-> 0] /\ selected = NoRock
    /\ placed = 0 /\ activeSlot = -1 /\ activeRock = NoRock
    /\ lastSeq = 0 /\ settledSeq = 0
    /\ offset = 0 /\ offsetSlot = -1
    /\ starved = FALSE /\ starvedSlot = -1 /\ spareAtStarve = 0 /\ unservable = FALSE
    /\ gate = "off"
    /\ arm = "idle" /\ target = NoRock
    /\ fixed = [r \in Rocks |-> TRUE] /\ laid = [r \in Rocks |-> -1]

----------------------------------------------------------------------------
(* feed: UpdateFeedstock while the arm is not busy, then                   *)
(* ClearStrandedFeedstock.                                                 *)

\* The furthest rock in reach, among those no arm was sent for yet.
InReach(pool) == {r \in pool \ consumed : Dist(r) \in ReachMin..Reach}
Furthest(S) == {r \in S : \A q \in S : Dist(q) <= Dist(r)}

Stranded(pool) == {r \in pool \ consumed : hull - at[r] >= Strand}

\* delivered: what the throttled poll of the collector's delivered rocks adds.
\* clear: stranded_clear_grace is over.
Feed(delivered, clear) ==
    /\ pc = "feed"
    /\ pc' = IF enabled THEN "command" ELSE "publish"
    /\ Busy => delivered = {}
    /\ feedstock' = feedstock \cup delivered
    /\ IF Busy THEN UNCHANGED selected
       ELSE selected' \in IF InReach(feedstock') = {} THEN {NoRock}
                          ELSE Furthest(InReach(feedstock'))
    /\ LET gone == IF clear /\ NSlots > 1 THEN Stranded(feedstock') ELSE {} IN
       /\ consumed' = consumed \cup gone
       /\ fixed' = [r \in Rocks |-> r \in gone \/ fixed[r]]
    /\ UNCHANGED <<enabled, world, attempts, course, cycle, gate, arm, target, laid>>

----------------------------------------------------------------------------
(* command: the pending pick/place, accepted or ignored.                   *)

ReadySlot ==
    IF parked /\ ~Busy /\ placed < NSlots /\ selected # NoRock THEN placed ELSE -1

\* Mutated forms, here and below, are faults the properties must expose: this one
\* takes a command for any slot.
AcceptsAnySlot(c) ==
    ~Busy /\ c.seq > lastSeq /\ ReadySlot >= 0 /\ c.slot \in Slots /\ c.rock \in Spare

\* Mutated: rocks already used are matched as well.
AcceptsUsedRock(c) ==
    ~Busy /\ c.seq > lastSeq /\ ReadySlot >= 0 /\ c.slot = ReadySlot /\ c.rock \in feedstock

\* Mutated: a repeated command is taken again.
AcceptsRepeat(c) ==
    ~Busy /\ c.seq > 0 /\ ReadySlot >= 0 /\ c.slot = ReadySlot /\ c.rock \in Spare

Accepts(c) ==
    /\ ~Busy
    /\ c.seq > lastSeq
    /\ ReadySlot >= 0
    /\ c.slot = ReadySlot
    /\ c.rock \in Spare

\* The arm has finished but its completion is not booked yet.
Unbooked == activeSlot >= 0 /\ ~Busy

Ignore(c) ==
    /\ pc = "command"
    /\ ~Accepts(c)
    /\ pc' = "book"
    /\ UNCHANGED <<enabled, world, supply, consumed, attempts, course, cycle, gate, armBodies>>

\* StartPickPlace: the previous target, if the arm still remembers one, is set
\* free; the new one is frozen, unless the command fails at once (an envelope
\* refusal), which sets it free as well.
Accept(c, starts) ==
    /\ pc = "command"
    /\ Accepts(c)
    /\ pc' = "book"
    /\ lastSeq' = c.seq /\ activeSlot' = c.slot /\ activeRock' = c.rock
    /\ consumed' = consumed \cup {c.rock}
    /\ target' = c.rock
    /\ arm' = IF starts THEN "reaching" ELSE "failed"
    /\ fixed' = [r \in Rocks |-> IF r = c.rock THEN starts
                                 ELSE r # target /\ fixed[r]]
    /\ UNCHANGED <<enabled, world, supply, attempts, course, settledSeq, gate, laid>>

----------------------------------------------------------------------------
(* book: the completion is booked once, on the transition.                 *)

Settling == activeSlot >= 0 /\ settledSeq # lastSeq /\ arm \in {"done", "failed"}

\* Mutated: the rock of the finished cycle is left a free body.
HandBackFree ==
    /\ pc = "book" /\ pc' = "publish"
    /\ settledSeq' = lastSeq
    /\ activeSlot' = -1 /\ activeRock' = NoRock /\ target' = NoRock
    /\ UNCHANGED <<enabled, world, supply, lastSeq, offsetSlot, starved, starvedSlot,
                   spareAtStarve, unservable, gate, arm, fixed, laid>>

\* On either outcome the rock is fixed again and the arm forgets it.
HandBack ==
    /\ pc = "book" /\ pc' = "publish"
    /\ settledSeq' = lastSeq
    /\ activeSlot' = -1 /\ activeRock' = NoRock /\ target' = NoRock
    /\ fixed' = [fixed EXCEPT ![activeRock] = TRUE]
    /\ UNCHANGED <<enabled, world, supply, lastSeq, offsetSlot, starved, starvedSlot,
                   spareAtStarve, unservable, gate, arm, laid>>

\* Mutated: the course stays where it was.
NextSlotLost == placed' = activeSlot /\ offset' = 0

\* The fetch slide belonged to the slot just settled.
NextSlot == placed' = activeSlot + 1 /\ offset' = 0

BookLaid ==
    /\ Settling /\ arm = "done"
    /\ HandBack /\ NextSlot
    /\ UNCHANGED <<consumed, attempts>>

\* Bounded retry: the rock goes back to the pool and the slot is still owed one.
BookRetry ==
    /\ Settling /\ arm = "failed"
    /\ attempts[activeRock] + 1 < MaxAttempts
    /\ HandBack
    /\ attempts' = [attempts EXCEPT ![activeRock] = @ + 1]
    /\ consumed' = consumed \ {activeRock}
    /\ UNCHANGED <<placed, offset>>

BookWriteOff ==
    /\ Settling /\ arm = "failed"
    /\ attempts[activeRock] + 1 >= MaxAttempts
    /\ HandBack /\ NextSlot
    /\ attempts' = [attempts EXCEPT ![activeRock] = @ + 1]
    /\ UNCHANGED consumed

NothingToBook ==
    /\ pc = "book" /\ ~Settling
    /\ pc' = "publish"
    /\ UNCHANGED <<enabled, world, supply, consumed, attempts, course, cycle, gate, armBodies>>

----------------------------------------------------------------------------
(* publish: PublishBuildTopics, throttled to build_publish_period.         *)

Throttled ==
    /\ pc = "publish" /\ pc' = "advance"
    /\ UNCHANGED <<enabled, world, supply, consumed, attempts, course, cycle, gate, armBodies>>

\* m_arm_gate_since and collector_keepout_max_s: held until it has lasted long
\* enough, then released until the collector leaves.
NextGate(beside, keepoutOver) ==
    IF ~beside THEN "off"
    ELSE IF gate = "released" \/ (gate = "held" /\ keepoutOver) THEN "released"
    ELSE "held"

\* The pick_target message, as the gate g leaves it: ready only while a rock is on
\* offer for the slot being worked.  It is built before any slot is skipped below.
PickTarget(g) ==
    IF selected = NoRock THEN NoOffer
    ELSE [ready |-> ReadySlot >= 0 /\ g # "held",
          slot |-> Lesser(placed, NSlots - 1), rock |-> selected]

\* The part of the course PublishBuildTopics works on, as one value.
Course == [placed |-> placed, offset |-> offset, offsetSlot |-> offsetSlot,
           starved |-> starved, open |-> TRUE]

\* Mutated: the course may be skipped under a working arm.
IdlingAnyArm == parked

Idling == parked /\ ~Busy
Servable(k) == Arc(hull, k) \in ReachMin..Reach

\* Parked but unable to reach the slot for unservable_slot_timeout.
SkipUnservable(c, over) ==
    IF Idling /\ c.placed < NSlots /\ ~Servable(c.placed) /\ unservable /\ over
    THEN [c EXCEPT !.placed = @ + 1] ELSE c

\* Starvation belongs to the slot: a new slot or a rock in reach stops its clock.
ResetStarved(c) ==
    [c EXCEPT !.starved = @ /\ starvedSlot = c.placed /\ ~Busy /\ selected = NoRock]

Starving(c) == Idling /\ selected = NoRock /\ c.placed < NSlots

\* The nearest rock just out of reach, and the slide that cancels its arc.
NearMiss == {r \in Spare : Dist(r) > Reach /\ Dist(r) <= Reach + FetchMargin}
Nearest(S) == {r \in S : \A q \in S : Dist(r) <= Dist(q)}
Slide(r) == Clamp(at[r] - hull, -MaxSlide, MaxSlide)

\* Taken once per slot; a slide of nothing does not count as the slot's fetch.
Fetch(c, r) ==
    IF Starving(c) /\ c.offsetSlot # c.placed /\ r # NoRock /\ Slide(r) # 0
    THEN [c EXCEPT !.offset = Slide(r), !.offsetSlot = c.placed] ELSE c

\* How far the hull stands past its slot, the fetch slide apart.
Past(c) == hull - c.placed - c.offset

\* The course taken up again at slot p: no slide, the starvation clock stopped.  open
\* says whether this publication may still give up a starved slot.
ResumeAt(p, open) ==
    [placed |-> p, offset |-> 0, offsetSlot |-> -1, starved |-> FALSE, open |-> open]

\* Mutated: a hull short of its slot moves the course as well, backwards.
ResyncBothWays(c) ==
    IF Starving(c) /\ (Past(c) > Overshoot \/ Past(c) < 0 - Overshoot)
    THEN ResumeAt(Greater(0, Lesser(c.placed + Past(c), NSlots)), FALSE) ELSE c

\* Every slot driven past is written off.
Resync(c) ==
    IF Starving(c) /\ Past(c) > Overshoot
    THEN ResumeAt(Lesser(c.placed + Past(c), NSlots), FALSE) ELSE c

\* Nothing in reach for starved_slot_timeout: given up if a delivery landed out of
\* reach meanwhile, or the collector stalled or the backstop expired (futile).
Abandon(c, starvedBefore, over, futile) ==
    IF /\ Starving(c) /\ c.open
       /\ starvedBefore /\ over
       /\ futile \/ Cardinality(Spare) > spareAtStarve
    THEN ResumeAt(c.placed + 1, c.open)
    ELSE [c EXCEPT !.starved = (c.starved \/ (Starving(c) /\ c.open))]

\* beside: the rank's collector is within collector_keepout_m of the arm base;
\* the other inputs say which clock has run out.
Publish(r, beside, keepoutOver, unservableOver, starvedOver, futile) ==
    /\ pc = "publish" /\ pc' = "advance"
    /\ gate' = NextGate(beside, keepoutOver)
    /\ r \in IF NearMiss = {} THEN {NoRock} ELSE Nearest(NearMiss)
    /\ LET c1 == SkipUnservable(Course, unservableOver)
           c2 == ResetStarved(c1)
           c3 == Resync(Fetch(c2, r))
           c4 == Abandon(c3, c2.starved, starvedOver, futile)
       IN /\ placed' = c4.placed /\ offset' = c4.offset /\ offsetSlot' = c4.offsetSlot
          /\ starved' = c4.starved
          /\ starvedSlot' = c1.placed
          /\ spareAtStarve' = IF Starving(c2) /\ ~c2.starved THEN Cardinality(Spare)
                              ELSE spareAtStarve
    /\ unservable' = (Idling /\ placed < NSlots /\ ~Servable(placed)
                      /\ ~(unservable /\ unservableOver))
    /\ UNCHANGED <<enabled, world, supply, consumed, attempts, cycle, armBodies>>

----------------------------------------------------------------------------
(* advance: LrvArm::Update and the physics of the step, then main.cpp's    *)
(* SetStationAngle and BuilderRig's park decision for the next one.        *)

Grip ==
    /\ arm = "reaching" /\ arm' = "carrying"
    /\ fixed' = [fixed EXCEPT ![target] = FALSE]
    /\ UNCHANGED laid

GrabFails ==
    /\ arm = "reaching" /\ arm' = "failed"
    /\ fixed' = [fixed EXCEPT ![target] = FALSE]
    /\ UNCHANGED laid

\* The rock is let go over the slot the arm was sent to.
Release ==
    /\ arm = "carrying" /\ arm' = "released"
    /\ laid' = [laid EXCEPT ![target] = activeSlot]
    /\ UNCHANGED fixed

Stow ==
    /\ arm = "released" /\ arm' = "done"
    /\ UNCHANGED <<fixed, laid>>

ArmWaits == UNCHANGED <<arm, fixed, laid>>

ArmUpdate == Grip \/ GrabFails \/ Release \/ Stow \/ ArmWaits

\* The station only moves forward (BuilderRig::SetStationAngle).  The hull moves
\* forward while it is not parked and may coast one pitch past its station; the
\* orbit controller's brakes, a conveyor hold included, may park it anywhere.
Hull ==
    /\ station' = Greater(station, placed + offset)
    /\ parked' \in BOOLEAN
    /\ hull' \in IF parked \/ hull > station' THEN {hull} ELSE {hull, hull + 1}

Advance ==
    /\ pc = "advance" /\ pc' = "feed"
    /\ enabled' \in {enabled, TRUE}
    /\ ArmUpdate /\ Hull
    /\ UNCHANGED <<at, supply, consumed, attempts, course, cycle, gate, target>>

----------------------------------------------------------------------------

Book == BookLaid \/ BookRetry \/ BookWriteOff \/ NothingToBook

\* Whatever command is waiting, or none.
TakeCommand(c) ==
    /\ ~LateCommands /\ Unbooked => c = NoCommand
    /\ Ignore(c) \/ \E starts \in BOOLEAN : Accept(c, starts)

\* A clock that does not run has not run out.
PublishSome ==
    \E r \in Rocks \cup {NoRock} :
    \E beside, keepoutOver, unservableOver, starvedOver, futile \in BOOLEAN :
        /\ keepoutOver => beside /\ gate = "held"
        /\ unservableOver => unservable
        /\ futile => starvedOver
        /\ starvedOver => starved
        /\ Publish(r, beside, keepoutOver, unservableOver, starvedOver, futile)

\* A loop iteration apart from the command it is handed.
Loop ==
    \/ \E delivered \in SUBSET (Rocks \ feedstock), clear \in BOOLEAN : Feed(delivered, clear)
    \/ Book
    \/ Throttled
    \/ PublishSome
    \/ Advance

\* A command is fresh, or one that was already answered.
Next ==
    \/ Loop
    \/ \E c \in {NoCommand} \cup [seq : {lastSeq, lastSeq + 1}, slot : Slots,
                                  rock : Rocks \cup {NoRock}] : TakeCommand(c)

Spec == Init /\ [][Next]_vars

----------------------------------------------------------------------------
(* Properties *)

TypeOK ==
    /\ pc \in {"feed", "command", "book", "publish", "advance"}
    /\ enabled \in BOOLEAN /\ parked \in BOOLEAN
    /\ hull \in Nat /\ station \in Int
    /\ at \in [Rocks -> Nat]
    /\ feedstock \subseteq Rocks /\ consumed \subseteq Rocks
    /\ attempts \in [Rocks -> 0..MaxAttempts]
    /\ selected \in Rocks \cup {NoRock}
    /\ placed \in 0..NSlots
    /\ activeSlot \in Slots \cup {-1} /\ activeRock \in Rocks \cup {NoRock}
    /\ lastSeq \in Nat /\ settledSeq \in Nat
    /\ offset \in Int /\ offsetSlot \in Slots \cup {-1}
    /\ starved \in BOOLEAN /\ unservable \in BOOLEAN
    /\ starvedSlot \in -1..NSlots /\ spareAtStarve \in Nat
    /\ gate \in {"off", "held", "released"}
    /\ arm \in {"idle", "reaching", "carrying", "released", "done", "failed"}
    /\ target \in Rocks \cup {NoRock}
    /\ fixed \in [Rocks -> BOOLEAN] /\ laid \in [Rocks -> Slots \cup {-1}]

\* At most one rock of the build is a dynamic body, and it is the one of the cycle
\* in hand ("this is also what guarantees the invariant the heap starts with",
\* Synchronize).
OneDynamicRock == \A r \in Rocks : ~fixed[r] => r = activeRock

\* No skip moves the course while the arm works for a slot, so a completion is
\* always booked for the slot the course stands at.
CourseWaitsForArm == activeSlot >= 0 => activeSlot = placed

\* A slot of the wall receives one stone at most.
OneStonePerSlot ==
    \A r, q \in Rocks : laid[r] >= 0 /\ laid[r] = laid[q] => r = q

\* A stone in the wall stays there: it is never offered to the arm again and never
\* leaves its slot.
LaidStaysLaid ==
    [][\A r \in Rocks : laid[r] >= 0 => laid'[r] = laid[r] /\ r \in consumed']_vars

\* A stone that reached its slot is counted: once its cycle is booked the course is
\* past that slot.
LaidIsCounted ==
    \A r \in Rocks : laid[r] >= 0 /\ r # activeRock => laid[r] < placed /\ fixed[r]

\* The arm is sent after one rock at most MaxAttempts times, so the builder cannot
\* spend the run on a stone it cannot grip.
BoundedRetries ==
    \A r \in Rocks :
        /\ attempts[r] <= MaxAttempts
        /\ attempts[r] = MaxAttempts => r \in consumed

\* The wall as booked so far.
StonesOn(k) == {r \in Rocks : laid[r] = k}
AnyOf(S) == CHOOSE r \in S : TRUE
wallOf ==
    [k \in Slots |-> IF k < placed /\ StonesOn(k) # {} THEN AnyOf(StonesOn(k)) ELSE NoRock]

Wall == INSTANCE WallCourse WITH next <- placed, wall <- wallOf

\* Every way the course advances, and every retry, is a step of WallCourse or none:
\* slots are decided in order, once, by one stone or a gap, never past the end.
ImplementsWall == Wall!Spec

\* The arm of this module, seen from outside, is the one LrvArm is shown to be.
Arm == INSTANCE ArmCycle WITH
    stage <- arm, held <- IF arm = "carrying" THEN target ELSE NoRock
ArmIsCycle == Arm!Spec

\* A course that jumps takes itself up again no further ahead of the hull than the longest
\* fetch slide, which is the error a backward slide makes in Past.
JumpsWithinSlide ==
    [][placed' > placed + 1 => placed' <= hull + MaxSlide]_vars

----------------------------------------------------------------------------
(* What comments of the source say and the code does not do *)

\* "write off every slot already driven past and resume from the first one still ahead
\* of the hull": a course that jumps never jumps over a slot the hull has yet to reach.
WritesOffOnlyPassed ==
    [][placed' > placed + 1 => placed' - 1 <= hull]_vars

=============================================================================
