------------------------------ MODULE Observers ------------------------------
(***************************************************************************)
(* What looks at one rank's world in a step of the main loop, in its       *)
(* order: the pose recorder and the soil recorder, before anything touches *)
(* the state; the exchange with the sensor rank, at the heartbeat; then    *)
(* the dynamics, which deform the soil and, when a load has been dumped,   *)
(* add the rocks of the next harvest cycle.  The process may be killed in  *)
(* any state.                                                              *)
(***************************************************************************)
EXTENDS TrajectoryLog, SoilLog, ZombiePool, Functions

CONSTANTS
    Machines,   \* the bodies of the rigs, a sequence
    StaticUses, \* the names the static file has used
    Step,       \* step_size
    EndTime,    \* bound on the time
    LastCycle,  \* bound on the harvest cycles
    Harvest(_)  \* the rocks of a harvest cycle, a sequence

ASSUME ObserversAssumption ==
    /\ {TrajectoryPeriod, SoilPeriod, FlushEvery, Step, Epsilon} \subseteq Nat \ {0}
    /\ {KeyframePeriod, EndTime, LastCycle, BuilderCapacity, MaxRocksPerCycle, CycleCapacity}
           \subseteq Nat
    /\ Len(BuilderRocks) <= BuilderCapacity
    /\ \A c \in 0..LastCycle : Len(Harvest(c)) <= MaxRocksPerCycle
    /\ StaticUses \in [DOMAIN StaticUses -> Nat]

\* A list of rocks names each once, and no rock is in two lists.
ASSUME BodiesAssumption ==
    /\ Machines \in Seq(Range(Machines))
    /\ BuilderRocks \in Seq(Range(BuilderRocks) \ {Stash}) /\ IsInjective(BuilderRocks)
    /\ \A c \in 0..LastCycle :
          /\ Harvest(c) \in Seq(Range(Harvest(c)) \ (Range(BuilderRocks) \cup {Stash}))
          /\ IsInjective(Harvest(c))
          /\ \A d \in 0..(c - 1) : Range(Harvest(c)) \cap Range(Harvest(d)) = {}

VARIABLES
    pc,    \* the call of the loop's step that runs next
    now,   \* GetChTime
    cycle, \* m_harvest_cycle
    rocks, \* m_rocks, which a harvest cycle appends to
    sent   \* of them, those of the last exchange

loop == <<now, cycle, rocks>>
vars == <<pc, loop, sent, trajectory, soilLog, zombies>>

Bodies == Machines \o BuilderRocks \o rocks

\* The rigs have settled before the loop: RobotRig::Settle sets the clock back to 0.
Init ==
    /\ pc = "record" /\ now = 0 /\ cycle = 0 /\ rocks = Harvest(0) /\ sent = <<>>
    /\ TrajectoryInit(StaticUses) /\ SoilInit /\ PoolInit(Len(Harvest(0)))

RecordPoses ==
    /\ pc = "record"
    /\ \/ (CaptureIfDue(now) \/ IndexOf(Bodies)) /\ pc' = "record"
       \/ (WriteFrame(Bodies, now) \/ NotDue(now)) /\ pc' = "soil"
    /\ UNCHANGED <<loop, sent, soilLog, zombies>>

RecordSoil ==
    /\ pc = "soil" /\ pc' = "sync"
    /\ CaptureSoil(now) \/ SoilNotDue(now)
    /\ UNCHANGED <<loop, sent, trajectory, zombies>>

\* SynChronoManager::Synchronize, which exchanges messages at the heartbeat only.
Exchange ==
    /\ pc = "sync" /\ pc' = "dynamics"
    /\ \/ Synchronize(rocks) /\ sent' = rocks
       \/ UNCHANGED <<zombies, sent>>
    /\ UNCHANGED <<loop, trajectory, soilLog>>

\* StartNextHarvestCycle puts the next rocks out.
StartNextHarvestCycle ==
    /\ cycle < LastCycle /\ cycle' = cycle + 1
    /\ rocks' = rocks \o Harvest(cycle')

Dynamics ==
    /\ pc = "dynamics" /\ pc' = "record"
    /\ now + Step <= EndTime /\ now' = now + Step
    /\ \/ StartNextHarvestCycle
       \/ UNCHANGED <<cycle, rocks>>
    /\ \/ \E n \in Nodes, by \in {-1, 1} : Deform(n, by) /\ UNCHANGED recorder
       \/ UNCHANGED soilLog
    /\ UNCHANGED <<sent, trajectory, zombies>>

Next == RecordPoses \/ RecordSoil \/ Exchange \/ Dynamics

Spec == Init /\ [][Next]_vars

----------------------------------------------------------------------------
(* Properties *)

\* Each instant of the recorder's grid has a frame, at most one step late.
InstantsSampled == pc = "dynamics" => EveryInstantSampled(now, Step)

\* A frame of the soil file tells its reader the soil of the time it is stamped with.
SoilReadable == pc = "sync" => ReaderKnowsSoil(now)

\* What the owner has sent, the sensor rank draws.
RocksDrawn == EveryRockDrawn(sent, cycle + 1)

=============================================================================
