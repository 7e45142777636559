# A verification of the excavation and construction simulation

This directory models the control logic of the simulation in TLA+: collectors
(LRV rovers with an arm and a tipping trailer) pick up rocks, haul them to a
building site and dump them; builders (tracked M113 hulls with the same arm at
twice the scale) lay them, one per slot, along a circular wall. The modules are
translated from `src/` and `ros2_ws/`; every definition's lines are listed in
`PROJECT.json`.

## The system

One process per rank (MPI) runs one collector, one builder and the terrain in a
single simulation loop (`main.cpp`); one more rank draws them all for the sensors.
The rank's controllers are ROS 2 nodes in processes of their own; they see the
simulation only through topics, and the simulation serves their messages once per
step (`spin_some`) and publishes at 50 Hz of simulated time. Simulated time runs 20
to 30 times slower than wall time.

| component | state it keeps | operations | talks to |
|---|---|---|---|
| `LrvArm` | phase and clocks of one pick/place cycle, the weld, the target rock, the status word | `StartPickPlace`, `Update`, `ForgetTargetRock`, `SetFingerClosure` | its rank's rock bodies; called by a bridge or rig |
| `BuilderArmRosBridge` | feedstock, consumed and attempted rocks, the course (`m_placed_count`), the cycle in hand, fetch slide, starvation, keep-out and hull clocks | `Synchronize`: selection, acceptance, booking, publication | the arm; `builder_arm_controller` over `arm_cmd`, `pick_target`, `place_target`, `arm_status`; the collector's delivered rocks |
| `BuilderRig` | parked flag, virtual anchor, station | `Synchronize`, `SetStationAngle`, `Advance` | arm bridge, vehicle bridge |
| `builder_arm_controller.py` | last messages, the active command, its poses, deadlines | message handlers, `on_timer` | arm bridge |
| `RobotRig` | rocks and their flags, dump cycle, settling and delivered rocks, harvest cycle, the watchers' clocks | `Synchronize`, `RequestTrailerDump`, `AdvanceDumpCycle`, `CheckDivergence`, `CheckStuck`, steering stops, guard, differential lock | arm, trailer bridge, builder's feedstock, main loop |
| `RosArmBridge` | last started command, place count | `Synchronize`, `OnArmCommand` | arm; `manipulator_controller` |
| `RosTrailerBridge` | a pending dump request | `Synchronize`, `OnCommand` | rig; `manipulator_controller` |
| `manipulator_controller.py` | active command, completed targets, mission and dump latches | message handlers, `on_timer` | arm and trailer bridges, `pure_pursuit_controller` |
| `pure_pursuit_controller.py` | target list, active target, return leg, recovery | message handlers, `on_timer` | `manipulator_controller`, vehicle bridge |
| `builder_orbit_controller.py` | station, hold and creep, what it heard of the builder ahead | message handlers, `on_timer` | vehicle bridge, the other builders' `vehicle_state` |
| `TrajectoryRecorder`, `ScmRecorder` | sampling schedule, body index, manifest; last level written per node | `CaptureIfDue` | read the whole world, write two file formats |
| `SynRockAgent` | the lanes sent, the pool of drawn bodies | `Update`, `GatherMessages`, `SynchronizeZombie` | SynChrono's exchange; the sensor rank |
| main loop, `ReconcileRockDomains` | active soil domains | one iteration, the abort | all of the above |

Not part of the control logic: soil and track meshes, materials, where rocks are
placed, launch files, offline tools.

### What is hard here

* The arm is updated after its bridge in each step: a completion is booked one
  step late, and a command may come in between.
* The controllers act on messages that are reordered, delayed and repeated; a
  command is republished until acknowledged and given up after a deadline.
* Five places of one handler advance the builder's course (the booking and four
  ways of giving a slot up), and each must keep the rest of the state in step.
* Rock bodies are shared: two arms, a trailer, two watchers, a bridge and the main loop
  all switch the same flags, and a body left free rolls away or falls through the soil
  while one left fixed is part of the wall.
* Timeouts are nested: per phase, per cycle, per command, per slot, per target.
* Driver and manipulator of a collector each keep their own list of finished rocks
  and their own latches of the mission, and tell each other by events that carry no
  index. A rover that waits for one of them waits on the brake.
* Builders share a circular lane they may only drive forward: each knows the one ahead
  from old news, waits for it, and must not pass its own station.
* A run ends by a signal or `MPI_Abort`, and every rank waits for every other: what is on
  disk must make sense at any moment, and a dead rank must end the job while a waiting
  one must not.

`PROJECT.json` lists each hazard at its line with the properties that watch it.

## Modules

`LrvArm.tla` (implements `ArmCycle.tla`). One action per phase of `Update`, with
the total timeout as an action of its own, and `Start`/`StartNull` for
`StartPickPlace`. Time is counted in ticks of `TicksPerSecond` per second. The
actions carry the code's guards on the two clocks; sensor readings are free.
`Settle` is the owner of the arm fixing the rock of a finished cycle; `Forgets`
says whether it then calls `ForgetTargetRock` (the builder's bridge does, the
collector's rig does not). The variable `direct`, fixed in the initial state, says whether
direct finger commands arrive in a behaviour.
`ArmCycle.tla` is the abstract cycle: begin, grip, release, finish, and failure
only before the grip.

`BuilderArmBridge.tla` (implements `WallCourse.tla`). `pc` follows the one thread
of the simulation through an iteration: feed (`UpdateFeedstock`,
`ClearStrandedFeedstock`), command (acceptance), book, publish
(`PublishBuildTopics`), advance (arm, physics, station). The arm appears as the
stages of `ArmCycle`. Geometry is the arc of the orbit in whole slot pitches.
`Publish` composes the handler's steps in their order on one course value
(`SkipUnservable`, `ResetStarved`, `Fetch`, `Resync`, `Abandon`). Clocks are
Booleans "started" and a free input "run out". `WallCourse.tla` is what the bridge
promises: slots are decided in order, once each, by one stone or a gap.

`BuilderArmCycle.tla` composes the bridge with `builder_arm_controller.py`: three
topics delivered one by one and in any order, a queue of commands in flight, the
controller's handlers and timer.

`TrailerDump.tla`: the stages of `AdvanceDumpCycle` with their slewed angles, and
what becomes of rocks: aboard the bed, recorded at the request (`carried`), handed
over at the end (`settling`), frozen as feedstock (`delivered`). Angles are
counted in ticks of their own slew rate. `clock` tells whether `m_last_dump_time`
was never set, is that of the last step, or is left over from an earlier dump: then
the next step may count as many ticks as lie between the two, up to `MaxGap`. `DumpSpec` is the
trailer under any use; the mission implements it.

`HarvestMission.tla` (implements `HaulCycle.tla` and `DumpSpec`) composes the driving
node, the manipulator node, the arm bridge, the trailer bridge and the trailer.
Repeated telemetry (`targetPos`, `arm_status`) is read where the simulation stands, at
any later time; the other topics carry events in flight. Where the rover drives is
left out: a target is any remaining one, an arrival is a choice, made once the messages of
the last stop are in (`CaughtUp`: a leg takes minutes of wall time). `ArmFinishes`
chooses success or failure and whether a laid rock stays in the bed. `Deadlines` says
which of the driver's and the manipulator's deadlines may strike, at any moment.
`HaulCycle` is what a collector promises: collect, return, tip, and only then count
a load and go out again.

`Conveyor.tla` (implements `Convoy.tla`): all builders on their lane, with the part of
the arm bridge that moves a station, `SetStationAngle`, the settle window of the vehicle
bridge and one action per branch of `on_timer`. Positions are arcs that only grow; the
controller reads them as bearings (`Forward`, `Turn`), so an overshoot is a lap as in
the code. News of the builder ahead may be arbitrarily old. `Lag` stands for delay,
control period and braking distance together: a hull moves at most that far past
where it was last told to drive. `Convoy.tla` is what the lane promises: forward only,
apart, never past the station.

`RockCustody.tla`: every flag of every rock of a rank (fixed, colliding, asleep, kept
awake, carrying a soil domain), through one action per call of the loop that may switch
one, in the loop's order. Where rocks lie, when they sleep and what is near are free
within what the code's radii guarantee. Both arms appear with the calls that touch
flags (with `Direct` also the failures that only direct commands cause); `seen` and `held`
are the two sets of `ReconcileRockDomains`.

`TrajectoryLog.tla`, `SoilLog.tla` and `ZombiePool.tla` model one observer each, and
`Observers.tla` runs them in the loop's order on a world that moves. A file is the
sequence of what was written and how much of it has left the process; the reader of the
soil file and the drawn bodies of the sensor rank are part of the state, so the
properties are about what somebody else makes of it.

`RigWatch.tla`: the watchers of a rank. A clock is the number of steps since its time
stamp, counted up to the threshold it is compared with, so runs have no end. Every
comparison with a value that is not a number is false, as in C++.

Links between the models keep each small enough to check and to prove about:

* The bridge uses the arm as `ArmCycle`, which `LrvArm` implements (checked with
  fairness, proved without); that the bridge's arm keeps to `ArmCycle` is proved too
  (`ArmKeepsToCycle`), so neither side of the link is an assumption.
* `BuilderArmBridge` with `LateCommands = FALSE` assumes no command is served between
  the arm's finishing and its booking. `BuilderArmCycle` does not assume it and has it as
  `NoCommandInTheGap`, until a command is given up; `BuilderArmCycleProofs` turns this
  into the bridge's promises for the composition.
* `Conveyor` takes from the bridge that a course moves forward by slots of a parked
  hull; `RockCustody` takes from the mission nothing but that a dump is requested at
  some time.

Definitions whose comment says "Mutated" are faulty variants of the operator below
them. No specification uses them; each is a fault some property must expose.

## Runs

| run | shows | bounds |
|---|---|---|
| `arm_cycle` | weld and flags agree with the phase; nothing settled is unfixed; undisturbed, no cycle reaches the total timeout and the arm implements `ArmCycle` with fairness; every cycle ends, also under direct finger commands | 2 rocks, 2 commands, 2 ticks a second, lift of up to 17 ticks |
| `bridge` | one dynamic rock; the course waits for the arm; one stone per slot, counted and for good; implements `WallCourse` | 2 rocks, 2 slots, 2 attempts |
| `cycle` | no command starts twice, an acknowledgement is the right one; until a command is given up, none comes in the gap and only the awaited one starts | 2 rocks, 2 slots, 2 commands, 1 in flight, deadlines |
| `harvest` | the bed tilts over an open gate, by a parked rover, with the whole harvest; requests are answered and the harvest goes on; implements `HaulCycle` and `DumpSpec` | 2 harvests of 2 rocks, 2 commands in flight, all deadlines |
| `conveyor` | builders keep apart, none overshoots into a lap, every course is finished; implements `Convoy` | 2 builders, a lane of 20 units, courses of 2 and 1 slots |
| `custody` | what moves has soil and collides; a load can tip; no watcher, dump or booking frees frozen feedstock | a heap of 1 rock, 2 harvests of 1 |
| `observers` | files decode and are complete and accurate at any moment; every rock is drawn by one body for good | 7 steps, 3 harvest cycles, 2 soil nodes |
| `watch` | a dead rank ends the job, a waiting one does not; stalls are reported; no steering torque is left behind, and each upright has its own stop | clocks of 2 to 4 steps, 2 warnings, 4 uprights |

Four more runs each show one statement of the code's comments that the code does
not keep; see Findings.

Why the bounds are enough. Two rocks let the wrong one be taken, freed or offered;
two slots let a stone land on the wrong one; two attempts cover retry and
write-off; a bearing out of reach, `MaxSlide` and `Strand` of the same order as the
course make fetch, resync, abandonment and stranding all happen, and a least reach
(`ReachMin`) lets a rock or a slot be too near. `LrvArm` with
two ticks a second keeps every duration of the code (the shortest is 0.5 s) at one
tick or more; the proof is for every resolution. All runs are exhaustive. `hull` needs
no bound of its own: it stops one pitch past the station, which the course bounds.
In `cycle` `MaxSeq` and `Depth` bound the controller: a second command and one copy left
in flight are what a wrong start needs, and the proofs are for all values. In `harvest`
two rocks let an answer reach the wrong one and two harvests let a latch or a clock survive
from one to the next; `MaxHarvest` keeps the third set of rocks from being announced.
A gate and a bed of two ticks have an angle strictly between closed and open.

In `conveyor` two builders make the smallest circle of holds; the first one's course is
longer, so it must wait for room the second makes. The slide is longer than a pitch, so a
dropped slide makes the wanted station fall back; `Lag` is twice the arrival band, so
an overshoot beyond the band is possible if nothing prevents it. In `custody` one rock of
the heap and one of each harvest let every flag be switched on one rock while another
is in the other gripper, in the bed or delivered. In `observers` the step divides
neither sampling period, two bodies share a name, the second cycle puts out more rocks
than the first, and the third overruns the pool, so that lanes are dropped, which
`RocksDrawn` allows for; `EndTime` is the end of a run. In `watch` the budget of warnings is spent
before the periods are over, and dwell, report period, scan period and timeout differ.
`Troubles` says which readings vary together: the uprights interact with none of the others.

Symmetry is over the rocks, which nothing distinguishes, and only where no
liveness is checked. `CHECK_DEADLOCK FALSE` appears for `LrvArm`, where an arm with no
further command really stops; for `HarvestMission`, where a driver that has
skipped the last rock really stops (`mission_lost`); for `Observers`, where a run ends; and
for `RigWatch`, where an aborted job does.

## Fairness

`LrvArm` assumes weak fairness of `Update`: the main loop issues it in every step.
`MaxLift` is the longest ramp of LIFTING, which the code's constant lift speed
bounds. `HarvestMission` assumes weak fairness of every message handler, since the
nodes are spun; of the timers' actions, since timers fire; of the bridges and the dump
cycle, since the loop steps; that a leg of driving ends in an arrival, and that the arm's
cycle ends (`CycleEnds` of `LrvArm`). No deadline has to strike, no rock has to leave the
bed, and no request has to be solvable. `HarvestGoesOn` is stated for behaviours in which the
driver never abandons a rock the manipulator has not resolved; `mission_lost` shows
why. `Conveyor` assumes weak fairness of the loop (`SetStation`, `Enable`), the timers,
the hulls under throttle and the topics, which repeat; strong fairness of giving a slot up
or serving it, since a parked builder's clocks run whenever it stands and are not
reset by a neighbour, and of settling a slot, since attempts are counted. Creep may stall
for good and a hull may stop anywhere in its band. The other modules state safety only.

## Proofs

`LrvArmProofs.tla`: the weld and the frozen target (`CycleSafety` and its corollaries),
`NoTimeout`, `SettledStaysFixed` and `ImplementsArmCycle`, for all rocks, all resolutions,
any number of commands. The inductive invariant strengthens the weld discipline with the
bound on the clocks per phase: `total` is at most the sum of the durations of the phases
gone through. That sum against 45 s is the heart of `NoTimeout`.

`BuilderArmBridgeProofs.tla`, for any rocks, course, geometry and number of attempts, from
the named assumption on the constants. It has two inductive invariants.

* `BridgeInv`, with `LateCommands = FALSE`, for `BridgeSafety` with its corollaries and
  `ImplementsWallCourse`. It adds three parts to the properties, since none of them is
  inductive alone: `CycleInHand` (what the bridge remembers of the cycle agrees with arm and
  course), `Staging` (at which stages of the iteration a cycle may be in hand: never idle
  past the booking) and `Stones` (every stone but the one in hand lies behind the course).
  Its steps are proved of `TimelyNext`, in which a command is only taken with no completion
  unbooked, so the next module can use them.
* `HandInv`, for any commands. A late command leaves a stone uncounted, so `Stones` is
  lost, and with it what is promised of the wall. `StonesUsed` is what is left of it: a rock
  laid is consumed, and the one in hand is not laid before its release. That is enough for
  `CourseHoldsStill`, `LaidStays`, `RetriesAreBounded` and `ArmKeepsToCycle`.

`JumpsAreShort` adds `SlideInv` to `HandInv`: the fetch slide is bounded by `MaxSlide`, and
the starvation clock never belongs to a slot ahead. The finding `resync_ahead` shows that a
jump may pass the hull; the theorem says by how much at most. `CoursesAreFinal` is about
`WallCourse` alone (no stone on two slots, none before its turn, a decided slot stays
decided), and `WallIsFinal` takes it to the bridge through the refinement.

`BuilderArmCycleProofs.tla`: all four properties of the `cycle` run, for any queue and
number of commands. `Numbering` says every number in use is the controller's, and the one
it works with is its last. `Awaited` holds until a command is given up: the command of a
cycle in hand is the controller's active one, since no status published while it is in hand
reports an end. So nothing newer exists that could be served in the gap, however slow the
topics are. Of the bridge's promises the composition keeps, with no proviso on commands:
always, what `HandInv` gives (`CompositionHoldsStill`, `CompositionLaysForGood`); until a
command is given up, deadlines or not, `LaidIsCounted` and the others
(`CountsUntilGivenUp`); without deadlines `CompositionCounts` and `CompositionBuildsWall`,
since only a deadline makes the controller give up.

`HarvestMissionProofs.tla` begins with the trailer: `DumpIsSafe` and `RocksHandedOverOnce`,
for any load, angles, dwell, gap and number of harvests. `TiltsOverOpenGate` is not
inductive: the invariant `DumpInv` adds `StageAngles`, which fixes gate and bed in every
stage (the bed is level while the gate swings, the gate is open while the bed moves), and
that what is carried is neither settling nor delivered.

Of the mission it proves `TipsOnlyParked`, `DumpsAll`, `MissionDumps`,
`MissionDumpIsSafe`, `MissionHauls` and `RequestsAnswered`, for any batch, any number of
harvests and of messages in flight, whichever deadlines strike. What is wanted is
`DumpAtHome`, and every other part of the invariant `MissionInv` is what it stands on. The
dump follows an arrival that finds `missionDone`, and `missionDone` must imply that nothing
is left to answer (`Latches`: `completed` is every rock announced, by a count of a finite
set). A late request or command must not send the arm out again behind a rover on its way
home (`OutAtWork`: unanswered work keeps it out; `Announced`: what is asked for is known
to both nodes). An answer must be that of the target in hand (`Numbering`: a number
stands for one target, a target is answered or in hand). `MissionDumps` needs that
a republished or delayed command cannot load a rock again (`LoadedOnce`: commands of
different numbers name different rocks, and one not yet started names a rock that is
on the ground). `RequestsAnswered` adds `Answering`: whoever waits has a request, a command
or an answer under way. `MissionTypes` needs more than types: that the rocks the driver
ticks off are among those put out, and that these are never taken in again (`TickedOff`,
`OutKept`). TLC checked `MissionInv` on the harvest instance first.

`ConveyorProofs.tla`: `NobodyLaps` for any number of builders, lane, courses and slides;
`Separation` and `BuildersFormConvoy` from `EveryoneHeard`, that no builder is silent and
none drives before it has heard. `Separation` rests on what is known being a lower bound: a hull
never moves back, so old news puts the one ahead no further than it is, and the gap seen when
a driving command was given bounds the gap for the `Lag` it lasts. `NobodyLaps`
needs that a station never retreats, and that a builder that is past its station is not told to drive.

`RockCustodyProofs.tla`: all four properties of the `custody` run for any rocks, heap and
number of cycles. `DomainsKept` follows the two sets of `ReconcileRockDomains` from call to
call; `Whereabouts` and `Targets` say where the rocks of each list are and which an
arm may still name, which `LoadIsLoose` and `FeedstockStays` need: no rock in the bed is
feedstock or may still be frozen by an arm, and between two cycles the builder's arm names
no rock, so starting it frees none that is laid. What the collector's arm frees instead is the
finding `feedstock_freed`.

`ObserversProofs.tla`: the five properties of the `observers` run, for any step, sampling,
flush and keyframe periods, epsilon, bodies, length of the run and capacity of the pool, from
`BodiesAssumption`: bodies are distinct objects, so a list of rocks names each once and no
rock is in two lists. The invariant `ObserversInv` has a part for each observer.
`ScheduleInv` ties the schedule to the clock: an instant behind `nextSample` has its frame or
gets it in the sweep under way, which only holds because the schedule never falls a full step
behind (`NoInstantSkipped`). `ManifestInv`: a name that is used again carries a number no
line has had, which is why two lines are never alike (`FramesOnDiskDecode`). `SoilInv`: what
a reader knows is what the recorder last wrote of each node, in whichever frame, so a node a
difference leaves out is still within the epsilon (`SoilStaysReadable`). `PoolInv`: what has
been sent is the beginning of the list of rocks, which repeats none and only grows, and each
body draws its lane of it, so no body changes its rock (`DrawnRocksStay`) and, counting, all
rocks find a body for as many cycles as the pool is made for (`SentRocksDrawn`).

`RigWatchProofs.tla`: `DeadRanksStop`, `OnlyDeadRanksStop` and `StallsAreReported` for any
periods. The invariant ties each clock of the code to the time it is meant to measure.
`StopsHoldKnuckles` is for any finite set of uprights and any torques: the chassis carries
the negated sum of what each stop applied. The sum is a recursive function over the sets of
uprights; that it does not depend on the order of summation, and that an upright inside its
stops adds nothing, is proved by taking a smallest set for which it fails, since
induction itself is out of the provers' reach.

Every invariant of the passing runs is proved, and so is every action property and the
safety part of every refinement. Some are proved under a condition the instance of the run
meets and the theorem states: `~LateCommands`, `EveryoneHeard`, `Forgets`.

Only model-checked: liveness (`CycleEnds`, the fairness part of `ImplementsCycle`,
`HarvestGoesOn`, `EveryoneArrives`), which is out of TLAPS's reach, and the violations.

## Findings

Each is a run whose one property states a comment of the code, violated by what
the code does.

* `resync_ahead`: after a backward slide the resync writes off slots still ahead.
* `mission_lost`: a rock the driver abandons by its own deadline is never resolved for
  the manipulator, which then never declares the mission done.
* `welded_collides`: `UpdateRockCollisionActivation` spares the rock `GetActiveRock` names,
  which leaves OPENING out, so it switches collision on for a rock still welded between the pads.
* `feedstock_freed`: the collector's arm remembers the last rock it handled, and its first
  pickup of the next harvest unfixes that rock, which has been dumped, frozen and delivered
  meanwhile. It is then a dynamic body in the builder's pile that no gripper has locked, until
  it rolls away or is booked. `FeedstockStaysFixed` says what remains: nothing but an arm
  does this.

Also seen, without a run:

* A command already sent starts the arm inside the keep-out: only the offer is gated
  (`BuilderArmRosBridge.cpp:146`).
* After a command was given up unacknowledged, a newer one may be accepted between the arm's
  finishing and the booking; the stone just laid is then never counted (line 533 says
  a step of lag changes nothing).
* `m_last_dump_time` is left over from the last dump, and the second dump may throw
  the gate open in one step (against `RobotRig.cpp:574`, `RobotRig.h:162`).
* A builder that has heard nothing of the one ahead is not held at all. The doc comment of
  `gap_to_ahead` says this is meant, `RobotLayout.h:546` that the gap "has to hold when a
  neighbour goes silent, not wave the follower through"; it does hold once something was
  heard, since news is kept for ever. `Separation` therefore assumes `EveryoneHeard`, and
  with a builder in `Silent` `SeparationKept` fails.
* A rover whose front wheels have no load gets no throttle from the guard, so the stuck
  detector, which reads the guarded throttle, never reports it, though airborne
  wheels are among what its comment wants told apart (`RobotRig.cpp:1316`).
* `SynAgents.h` says the builder's rocks are appended after the collector's; `Update` leads with
  them. The shape drawn for a rock goes by its lane, the real one's by its place in its cycle.
* A comment of `BuilderRig.cpp` speaks of 73 slots at 0.03 rad; the layout has 200 of 0.5 m.
* A command that fails at once on its last attempt leaves its rock on offer for one
  publication (against `BuilderArmRosBridge.cpp:507`); skipping an unservable slot keeps the
  fetch slide (against line 557); a republication that could not be re-solved carries the new
  rock's position with the old rock's angles (against line 647); a timer between the
  deliveries of `pick_target` and `place_target` sends the place pose of one slot with
  the number of another.
* The comment at `builder_arm_controller.py:192` wants the deadline anchored to the first
  simulated time seen for the command, but `active_start_sim_s` is set when it is sent;
  `DESIGN.md:228` says the nearest rock is taken, the code takes the furthest; the
  unsolvable-target branch at line 237 holds the station for ever without the bridge knowing.

## Not modelled

Continuous control (steering and speed laws, inverse kinematics, traction, soil) is
outside TLA+; where its outcome matters it is a free choice or a bound (`Lag`, `Reach`).
Scene construction, meshes, coordinates of assets and argument parsing keep no state
that changes. Telemetry without a reader in the repository, the printed wheel diagnostics, byte
layouts and FlatBuffers are left out. Direct joint commands appear only where they
disturb a cycle (`direct`, `Direct`). Restarts of a controller node are not modelled: nothing in the
code handles one. That the ranks step together is MPI's and SynChrono's promise and is assumed.

What would come next, in order: the bridge's starvation clocks with the controller's
refusals, for the liveness of one builder's course; the composition of `RockCustody` with
`HarvestMission`, so that the trailer's load is the mission's.
