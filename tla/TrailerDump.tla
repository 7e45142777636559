---------------------------- MODULE TrailerDump ----------------------------
(***************************************************************************)
(* The collector's tipping trailer (RobotRig): the dump cycle, and what    *)
(* becomes of the rocks that ride in the bed.                              *)
(*                                                                         *)
(* Angles are counted in ticks of their own slew: the gate is open at      *)
(* GateTime (95 degrees at 60 per second), the bed fully tilted at BedTime *)
(* (55 degrees at 12 per second).  dump_angle_tol is less than a tick.     *)
(* Rocks are indices into m_rocks: a harvest cycle appends Batch of them.  *)
(***************************************************************************)
EXTENDS Integers

CONSTANTS
    Batch,      \* rocks put out per harvest cycle
    GateTime, BedTime, DwellTime,   \* ticks of a full swing, a full tilt, the dwell
    MaxGap      \* bound on the ticks between two dumps

ASSUME DumpAssumption ==
    /\ Batch \in Nat \ {0} /\ MaxGap \in Nat \ {0}
    /\ GateTime \in Nat \ {0} /\ BedTime \in Nat \ {0} /\ DwellTime \in Nat \ {0}

VARIABLES
    dump,       \* m_dump_state
    gate,       \* m_tailgate_angle
    bed,        \* m_bed_angle
    stageTime,  \* m_dump_stage_time
    clock,      \* m_last_dump_time: never set, of the last step, or of an earlier dump
    harvest,    \* m_harvest_cycle
    aboard,     \* rocks for which RockIsInBed
    carried,    \* m_carried_rocks
    settling,   \* m_settling_rocks
    delivered   \* m_delivered_rocks, the builder's feedstock

motion == <<dump, gate, bed, stageTime, clock>>
rocks == <<harvest, aboard, carried, settling, delivered>>
dumpVars == <<motion, rocks>>

Stages == {"idle", "openingGate", "tilting", "dwell", "leveling", "closingGate", "done"}
RockCount == Batch * (harvest + 1)
Out == 0..(RockCount - 1)

DumpInit ==
    /\ dump = "idle" /\ gate = 0 /\ bed = 0 /\ stageTime = 0 /\ clock = "never"
    /\ harvest = 0 /\ aboard = {} /\ carried = {} /\ settling = {} /\ delivered = {}

----------------------------------------------------------------------------
(* The cycle *)

Ready == dump \in {"idle", "done"}

\* RequestTrailerDump; ignored while a cycle runs.  m_last_dump_time keeps the time of
\* the last step of the previous dump.
RequestTrailerDump ==
    /\ Ready
    /\ dump' = "openingGate" /\ stageTime' = 0
    /\ clock' = IF clock = "never" THEN "never" ELSE "stale"
    /\ carried' = aboard
    /\ UNCHANGED <<gate, bed, harvest, aboard, settling, delivered>>

SlewAngle(angle, target, dt) ==
    IF target - angle <= dt /\ angle - target <= dt THEN target
    ELSE IF target > angle THEN angle + dt ELSE angle - dt

\* The time a step counts: one tick, or after a stale clock all of the time since the
\* previous dump.
Elapsed == IF clock = "stale" THEN 1..MaxGap ELSE {1}

\* The very first step of all only sets the clock.
StartClock ==
    /\ ~Ready /\ clock = "never"
    /\ clock' = "running"
    /\ UNCHANGED <<dump, gate, bed, stageTime, rocks>>

OpenGate(dt) ==
    /\ dump = "openingGate"
    /\ gate' = SlewAngle(gate, GateTime, dt)
    /\ dump' = IF gate' = GateTime THEN "tilting" ELSE dump
    /\ stageTime' = IF gate' = GateTime THEN 0 ELSE stageTime
    /\ UNCHANGED <<bed, rocks>>

Tilt(dt) ==
    /\ dump = "tilting"
    /\ bed' = SlewAngle(bed, BedTime, dt)
    /\ dump' = IF bed' = BedTime THEN "dwell" ELSE dump
    /\ stageTime' = IF bed' = BedTime THEN 0 ELSE stageTime
    /\ UNCHANGED <<gate, rocks>>

Dwell(dt) ==
    /\ dump = "dwell"
    /\ LET t == stageTime + dt
       IN /\ dump' = IF t >= DwellTime THEN "leveling" ELSE dump
          /\ stageTime' = IF t >= DwellTime THEN 0 ELSE t
    /\ UNCHANGED <<gate, bed, rocks>>

\* Mutated: the gate starts to close with the bed still up.
LevelEarly(dt) ==
    /\ dump = "leveling"
    /\ bed' = SlewAngle(bed, 0, dt)
    /\ dump' = "closingGate"
    /\ stageTime' = 0
    /\ UNCHANGED <<gate, rocks>>

Level(dt) ==
    /\ dump = "leveling"
    /\ bed' = SlewAngle(bed, 0, dt)
    /\ dump' = IF bed' = 0 THEN "closingGate" ELSE dump
    /\ stageTime' = IF bed' = 0 THEN 0 ELSE stageTime
    /\ UNCHANGED <<gate, rocks>>

\* The rocks that left the bed are handed to the settle-then-freeze watcher.
ReportDumpOutcome ==
    /\ settling' = settling \cup (carried \ aboard)
    /\ carried' = {}

\* Mutated: only a dump that had a load counts as a harvest.
CloseGateIfLoaded(dt) ==
    /\ dump = "closingGate"
    /\ gate' = SlewAngle(gate, 0, dt)
    /\ IF gate' = 0
       THEN /\ dump' = "done" /\ stageTime' = 0
            /\ ReportDumpOutcome
            /\ harvest' = IF carried = {} THEN harvest ELSE harvest + 1
       ELSE UNCHANGED <<dump, stageTime, settling, carried, harvest>>
    /\ UNCHANGED <<bed, aboard, delivered>>

\* Closed: report, and put out the next harvest's rocks (StartNextHarvestCycle).
CloseGate(dt) ==
    /\ dump = "closingGate"
    /\ gate' = SlewAngle(gate, 0, dt)
    /\ IF gate' = 0
       THEN /\ dump' = "done" /\ stageTime' = 0
            /\ ReportDumpOutcome
            /\ harvest' = harvest + 1
       ELSE UNCHANGED <<dump, stageTime, settling, carried, harvest>>
    /\ UNCHANGED <<bed, aboard, delivered>>

Step(dt) == OpenGate(dt) \/ Tilt(dt) \/ Dwell(dt) \/ Level(dt) \/ CloseGate(dt)

AdvanceDumpCycle ==
    \/ StartClock
    \/ /\ clock # "never"
       /\ clock' = "running"
       /\ \E dt \in Elapsed : Step(dt)

----------------------------------------------------------------------------
(* The rocks *)

\* A rock pours over the open lip.
Slide ==
    /\ bed > 0 /\ gate = GateTime
    /\ \E r \in aboard : aboard' = aboard \ {r}
    /\ UNCHANGED <<motion, harvest, carried, settling, delivered>>

\* A rock that has been still for dumped_rock_settle_dwell is frozen and delivered.  One
\* found fixed already is no longer watched (RockCustody, where the flag is kept); one whose
\* speed is not finite is not either, and ends the job (RigWatch).
Freeze ==
    /\ \E r \in settling :
          settling' = settling \ {r} /\ delivered' = delivered \cup {r}
    /\ UNCHANGED <<motion, harvest, aboard, carried>>

\* The arm has laid rock r in the bed.
Loaded(r) ==
    /\ aboard' = aboard \cup {r}
    /\ UNCHANGED <<motion, harvest, carried, settling, delivered>>

Lying == Out \ (aboard \cup carried \cup settling \cup delivered)

\* The trailer on its own: any rock that lies about may be loaded at any time, and a
\* dump requested at any time.
DumpNext ==
    \/ RequestTrailerDump \/ AdvanceDumpCycle
    \/ Slide \/ Freeze \/ (\E r \in Lying : Loaded(r))

DumpSpec == DumpInit /\ [][DumpNext]_dumpVars

----------------------------------------------------------------------------
(* Properties *)

DumpTypeOK ==
    /\ dump \in Stages
    /\ gate \in 0..GateTime /\ bed \in 0..BedTime /\ stageTime \in 0..DwellTime
    /\ clock \in {"never", "running", "stale"}
    /\ harvest \in Nat
    /\ aboard \subseteq Out /\ carried \subseteq Out
    /\ settling \subseteq Out /\ delivered \subseteq Out

\* "Gate first: tilting into a closed tailgate would just press the load against it ...
\* Gate last, so it latches against a level bed": the bed is only up over an open gate,
\* and between dumps all is closed, level and accounted for.
TiltsOverOpenGate ==
    /\ bed > 0 => gate = GateTime
    /\ Ready => bed = 0 /\ gate = 0 /\ carried = {}

\* A rock that was handed over is out of the bed for good: the builder's feedstock never
\* rides off with the trailer, and no rock is handed over twice.
HandedOverOnce ==
    /\ aboard \cap (settling \cup delivered) = {}
    /\ carried \cap (settling \cup delivered) = {}
    /\ settling \cap delivered = {}

=============================================================================
