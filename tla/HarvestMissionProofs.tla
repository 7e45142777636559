------------------------ MODULE HarvestMissionProofs ------------------------
(***************************************************************************)
(* The safety of the dump cycle, and of the harvest mission that drives    *)
(* it, for every number of rocks, harvests and messages in flight, every   *)
(* time between two dumps and for all deadlines: the trailer tips a parked *)
(* rover's whole harvest, each rock is loaded once, and the mission is a   *)
(* HaulCycle.                                                              *)
(***************************************************************************)
EXTENDS HarvestMission, TLAPS, FiniteSetTheorems, SequenceTheorems

----------------------------------------------------------------------------
(* The trailer by itself.                                                              *)

\* Where gate and bed are in each stage; what makes TiltsOverOpenGate inductive.
StageAngles ==
    /\ dump \in {"openingGate", "closingGate"} => bed = 0
    /\ dump \in {"tilting", "dwell", "leveling"} => gate = GateTime

DumpInv == DumpTypeOK /\ TiltsOverOpenGate /\ HandedOverOnce /\ StageAngles

----------------------------------------------------------------------------
(* SlewAngle stays within the swing (the step never overshoots its target).            *)
LEMMA SlewWithin ==
    ASSUME NEW T \in Nat, NEW angle \in 0..T, NEW goal \in {0, T}, NEW dt \in Nat
    PROVE  SlewAngle(angle, goal, dt) \in 0..T
  BY DEF SlewAngle

(* The rocks that are out only ever become more.                                       *)
LEMMA OutGrows ==
    ASSUME NEW h \in Nat
    PROVE  /\ Batch * (h + 1) \in Nat /\ Batch * (h + 1 + 1) \in Nat
           /\ 0..(Batch * (h + 1) - 1) \subseteq 0..(Batch * (h + 1 + 1) - 1)
  <1>1. Batch \in Nat
    BY DumpAssumption
  <1>2. Batch * (h + 1 + 1) = Batch * (h + 1) + Batch
    BY <1>1, Z3
  <1>3. Batch * (h + 1) \in Nat
    BY <1>1, Z3
  <1> QED
    BY <1>1, <1>2, <1>3

LEMMA InitInv == DumpInit => DumpInv
  <1> SUFFICES ASSUME DumpInit PROVE DumpInv
    OBVIOUS
  <1>1. DumpTypeOK
    BY DumpAssumption DEF DumpInit, DumpTypeOK, Stages
  <1>2. TiltsOverOpenGate /\ HandedOverOnce /\ StageAngles
    BY DumpAssumption DEF DumpInit, TiltsOverOpenGate, HandedOverOnce, StageAngles, Ready
  <1> QED
    BY <1>1, <1>2 DEF DumpInv

LEMMA RequestInv == DumpInv /\ RequestTrailerDump => DumpInv'
  BY DumpAssumption
  DEF DumpInv, RequestTrailerDump, DumpTypeOK, TiltsOverOpenGate, HandedOverOnce,
      StageAngles, Ready, Stages, Out, RockCount

(* The rocks are none of the business of the first four stages.                        *)
LEMMA MotionInv ==
    ASSUME DumpInv, clock' = "running", NEW dt \in Nat,
           OpenGate(dt) \/ Tilt(dt) \/ Dwell(dt) \/ Level(dt)
    PROVE  DumpInv'
  <1>1. DumpTypeOK'
    <2> USE DumpAssumption DEF DumpInv, DumpTypeOK, Stages, rocks, Out, RockCount
    <2>1. CASE OpenGate(dt)
      <3>1. gate' \in 0..GateTime
        BY <2>1, SlewWithin DEF OpenGate
      <3> QED
        BY <2>1, <3>1 DEF OpenGate
    <2>2. CASE Tilt(dt)
      <3>1. bed' \in 0..BedTime
        BY <2>2, SlewWithin DEF Tilt
      <3> QED
        BY <2>2, <3>1 DEF Tilt
    <2>3. CASE Dwell(dt)
      BY <2>3 DEF Dwell
    <2>4. CASE Level(dt)
      <3>1. bed' \in 0..BedTime
        BY <2>4, SlewWithin DEF Level
      <3> QED
        BY <2>4, <3>1 DEF Level
    <2> QED
      BY <2>1, <2>2, <2>3, <2>4
  <1>2. TiltsOverOpenGate' /\ StageAngles'
    BY DumpAssumption
    DEF DumpInv, DumpTypeOK, TiltsOverOpenGate, StageAngles, Ready, rocks,
        OpenGate, Tilt, Dwell, Level
  <1>3. HandedOverOnce'
    BY DEF DumpInv, HandedOverOnce, rocks, OpenGate, Tilt, Dwell, Level
  <1> QED
    BY <1>1, <1>2, <1>3 DEF DumpInv

LEMMA CloseInv ==
    ASSUME DumpInv, clock' = "running", NEW dt \in Nat, CloseGate(dt)
    PROVE  DumpInv'
  <1>1. gate' \in 0..GateTime
    BY DumpAssumption, SlewWithin DEF DumpInv, DumpTypeOK, CloseGate
  <1>2. CASE gate' # 0
    <2>1. dump' = "closingGate" /\ UNCHANGED <<bed, stageTime, rocks>>
      BY <1>2 DEF CloseGate, rocks
    <2>2. DumpTypeOK'
      BY <1>1, <2>1 DEF DumpInv, DumpTypeOK, Stages, rocks, Out, RockCount
    <2>3. TiltsOverOpenGate' /\ HandedOverOnce' /\ StageAngles'
      BY <2>1 DEF DumpInv, CloseGate, TiltsOverOpenGate, HandedOverOnce, StageAngles, Ready, rocks
    <2> QED
      BY <2>2, <2>3 DEF DumpInv
  <1>3. CASE gate' = 0
    <2>1. harvest' = harvest + 1 /\ harvest \in Nat /\ harvest' \in Nat
      BY <1>3 DEF CloseGate, DumpInv, DumpTypeOK
    <2>2. Out \subseteq Out'
      BY <2>1, OutGrows DEF Out, RockCount
    <2>3. DumpTypeOK'
      BY <1>3, <2>1, <2>2, DumpAssumption
      DEF DumpInv, CloseGate, ReportDumpOutcome, DumpTypeOK, Stages
    <2>4. TiltsOverOpenGate' /\ StageAngles'
      BY <1>3, DumpAssumption
      DEF DumpInv, CloseGate, ReportDumpOutcome, TiltsOverOpenGate, StageAngles, Ready
    <2>5. HandedOverOnce'
      BY <1>3 DEF DumpInv, CloseGate, ReportDumpOutcome, HandedOverOnce
    <2> QED
      BY <2>3, <2>4, <2>5 DEF DumpInv
  <1> QED
    BY <1>2, <1>3

LEMMA AdvanceInv == DumpInv /\ AdvanceDumpCycle => DumpInv'
  <1> SUFFICES ASSUME DumpInv, AdvanceDumpCycle PROVE DumpInv'
    OBVIOUS
  <1>1. CASE StartClock
    BY <1>1
    DEF StartClock, DumpInv, DumpTypeOK, TiltsOverOpenGate, HandedOverOnce, StageAngles,
        Ready, rocks, Out, RockCount
  <1>2. CASE ~StartClock
    <2>1. PICK dt \in Elapsed : Step(dt)
      BY <1>2 DEF AdvanceDumpCycle
    <2>2. dt \in Nat /\ clock' = "running"
      BY <1>2, DumpAssumption DEF AdvanceDumpCycle, Elapsed
    <2> QED
      BY <2>1, <2>2, MotionInv, CloseInv DEF Step
  <1> QED
    BY <1>1, <1>2

LEMMA RocksInv ==
    ASSUME DumpInv, Slide \/ Freeze \/ (\E r \in Lying : Loaded(r))
    PROVE  DumpInv'
  <1> USE DEF DumpInv, motion
  <1>1. DumpTypeOK'
    BY DEF DumpTypeOK, Slide, Freeze, Loaded, Lying, Out, RockCount
  <1>2. TiltsOverOpenGate' /\ StageAngles'
    BY DEF TiltsOverOpenGate, StageAngles, Ready, Slide, Freeze, Loaded
  <1>3. HandedOverOnce'
    BY DEF HandedOverOnce, Slide, Freeze, Loaded, Lying
  <1> QED
    BY <1>1, <1>2, <1>3

LEMMA StutterInv == DumpInv /\ UNCHANGED dumpVars => DumpInv'
  BY DEF DumpInv, dumpVars, motion, rocks, DumpTypeOK, TiltsOverOpenGate, HandedOverOnce,
         StageAngles, Ready, Out, RockCount

LEMMA Invariance == DumpSpec => []DumpInv
  <1>1. DumpInv /\ [DumpNext]_dumpVars => DumpInv'
    BY RequestInv, AdvanceInv, RocksInv, StutterInv DEF DumpNext
  <1> QED
    BY InitInv, <1>1, PTL DEF DumpSpec

----------------------------------------------------------------------------
(* RobotRig::AdvanceDumpCycle: whatever the time between two dumps and whatever is      *)
(* aboard, the bed is up only over an open gate, and between dumps all is closed.       *)
THEOREM DumpIsSafe == DumpSpec => [](DumpTypeOK /\ TiltsOverOpenGate)
  BY Invariance, PTL DEF DumpInv

(* RobotRig::ReportDumpOutcome, UpdateDumpedRockFreeze: a rock that was handed over     *)
(* never rides in the bed again and is not handed over twice.                           *)
THEOREM RocksHandedOverOnce == DumpSpec => []HandedOverOnce
  BY Invariance, PTL DEF DumpInv

----------------------------------------------------------------------------
(* The mission.                                                                        *)

Sent == {armCmd[i] : i \in DOMAIN armCmd}
Asked == {requests[i] : i \in DOMAIN requests}
Gone == aboard \cup carried \cup settling \cup delivered
Working == active # Inactive

----------------------------------------------------------------------------
(* The invariant. *)

Counts ==
    /\ harvest \in Nat
    /\ targets \in 0..RockCount /\ numTargets \in 0..RockCount
    /\ target = NoTarget \/ target \in 0..(targets - 1)

Flags ==
    /\ waiting \in BOOLEAN /\ returning \in BOOLEAN /\ parked \in BOOLEAN
    /\ missionDone \in BOOLEAN /\ dumpRequested \in BOOLEAN
    /\ goHome \in BOOLEAN /\ atHome \in BOOLEAN /\ trailerCmd \in BOOLEAN

Messages ==
    /\ commandSeq \in Nat
    /\ requests \in Seq(Int)
    /\ armCmd \in Seq([seq : Nat, target : Int])
    /\ active \in [seq : Nat, target : Int, seen : BOOLEAN]
    /\ armStatus \in [seq : Nat, state : 0..3, target : Int]

\* What is asked for, worked on or answered is known to both nodes.
Known == 0..(targets - 1) \cap 0..(numTargets - 1)
Announced ==
    /\ completed \subseteq Known
    /\ Asked \subseteq Known
    /\ Working => active.target \in Known
    /\ waiting => target \in Known

\* A command's number stands for its target.  A target is either answered or that of
\* the command in hand, and never both.
Numbering ==
    /\ Working => active.seq = commandSeq /\ commandSeq > 0 /\ active.target \notin completed
    /\ armStatus.seq \in 0..commandSeq
    /\ \A c \in Sent : c.seq \in 1..commandSeq
    /\ Working /\ armStatus.seq = active.seq => armStatus.target = active.target
    /\ \A c \in Sent : Working /\ c.seq = active.seq => c.target = active.target
    /\ armStatus.seq # 0 =>
          armStatus.target \in completed \/ (Working /\ armStatus.seq = active.seq)
    /\ \A c \in Sent : c.target \in completed \/ (Working /\ c.seq = active.seq)
    /\ armStatus.seq = 0 => armStatus.state = 0 /\ armStatus.target = NoTarget

\* A rock that left the ground was the target of a command the arm has finished.
LoadedOnce ==
    /\ \A r \in Gone : r \in completed \/
          (Working /\ r = active.target /\ armStatus.seq = active.seq /\ armStatus.state # 1)
    /\ armStatus.state = 1 => armStatus.target \notin Gone
    /\ \A c \in Sent : c.seq > armStatus.seq => c.target \notin Gone \cup {armStatus.target}
    /\ \A c, d \in Sent : c.seq # d.seq => c.target # d.target

\* The latches of the two nodes.
Latches ==
    /\ missionDone => numTargets > 0 /\ completed = 0..(numTargets - 1)
    /\ numTargets < RockCount => missionDone \/ numTargets = 0
    /\ targets < RockCount /\ missionDone => dumpRequested
    /\ returning => targets > 0
    /\ returning /\ targets = RockCount => missionDone /\ numTargets = RockCount
    /\ goHome => /\ missionDone /\ ~returning
                 /\ targets = RockCount /\ numTargets = RockCount

\* While a rock is still to be answered the rover is out.
OutAtWork ==
    Working \/ (\E t \in Asked : t \notin completed) \/ (waiting /\ target \notin completed)
    => ~atHome /\ ~returning

HomeWithAll == missionDone /\ returning /\ parked /\ targets = RockCount /\ numTargets = RockCount

\* An arrival that will ask for a dump, the request and the dump itself find the rover
\* home with the whole harvest.
DumpAtHome ==
    /\ atHome /\ missionDone /\ ~dumpRequested => HomeWithAll
    /\ trailerCmd \/ ~Ready => dumpRequested /\ HomeWithAll
    /\ trailerCmd => Ready

MissionInv ==
    /\ Counts /\ Flags /\ Messages /\ Announced /\ Numbering /\ LoadedOnce
    /\ Latches /\ OutAtWork /\ DumpAtHome

----------------------------------------------------------------------------
(* What the actions leave alone. *)

USE DEF dumpVars, motion, rocks, driver, manipulator, topics

LEMMA DumpFrame ==
    UNCHANGED dumpVars =>
        RockCount' = RockCount /\ (Ready' <=> Ready) /\ Gone' = Gone /\ harvest' = harvest
  BY DEF RockCount, Ready, Gone

LEMMA TopicFrame ==
    /\ UNCHANGED armCmd => Sent' = Sent
    /\ UNCHANGED requests => Asked' = Asked
    /\ UNCHANGED active => (Working' <=> Working)
  BY DEF Sent, Asked, Working

(* Numbers and loads only change with commands, answers and what the arm loads. *)
LEMMA CommandFrame ==
    ASSUME Messages, Numbering, LoadedOnce, Gone' \subseteq Gone,
           UNCHANGED <<active, completed, commandSeq, armStatus, armCmd>>
    PROVE  Numbering' /\ LoadedOnce'
  BY TopicFrame DEF Numbering, LoadedOnce

(* There is always a rock out. *)
LEMMA RocksOut == harvest \in Nat => RockCount \in Nat /\ RockCount > 0
  <1> SUFFICES ASSUME harvest \in Nat PROVE RockCount \in Nat /\ RockCount > 0
    OBVIOUS
  <1>1. Batch \in Nat /\ Batch > 0
    BY DumpAssumption
  <1> QED
    BY <1>1, Z3 DEF RockCount

----------------------------------------------------------------------------
(* The driving node. *)

LEMMA DriverTargetsInv ==
    ASSUME MissionInv, DriverTargets
    PROVE  MissionInv'
  <1> USE DumpFrame, TopicFrame, RocksOut DEF MissionInv, DriverTargets
  <1>1. /\ RockCount \in Nat /\ RockCount' = RockCount
        /\ targets \in Nat /\ targets' \in Nat /\ targets < targets'
    BY DEF Counts
  <1>2. 0..(targets - 1) \subseteq 0..(targets' - 1)
    BY <1>1
  <1>3. Counts'
    BY <1>1, <1>2 DEF Counts
  <1>4. Flags'
    BY DEF Flags
  <1>5. Messages'
    BY DEF Messages
  <1>6. Announced'
    <2>1. Known \subseteq Known'
      BY <1>2 DEF Known
    <2> QED
      BY <2>1 DEF Announced
  <1>7. Numbering' /\ LoadedOnce'
    BY CommandFrame
  <1>8. Latches'
    BY DEF Counts, Flags, Latches
  <1>9. OutAtWork'
    BY DEF Flags, OutAtWork
  <1>10. DumpAtHome'
    BY DEF Counts, Latches, DumpAtHome, HomeWithAll
  <1> QED
    BY <1>3, <1>4, <1>5, <1>6, <1>7, <1>8, <1>9, <1>10

LEMMA LeaveTargetInv ==
    ASSUME MissionInv, LeaveTarget,
           UNCHANGED <<dumpVars, manipulator, armStatus, requests, goHome, atHome, armCmd, trailerCmd>>
    PROVE  MissionInv'
  <1> USE DumpFrame, TopicFrame DEF MissionInv, LeaveTarget
  <1>1. Counts'
    BY DEF Counts
  <1>2. Flags'
    BY DEF Flags
  <1>3. Messages'
    BY DEF Messages
  <1>4. Announced'
    BY DEF Announced, Known
  <1>5. Numbering' /\ LoadedOnce'
    BY CommandFrame
  <1>6. Latches' /\ OutAtWork' /\ DumpAtHome'
    BY DEF Latches, OutAtWork, DumpAtHome, HomeWithAll
  <1> QED
    BY <1>1, <1>2, <1>3, <1>4, <1>5, <1>6

LEMMA OnMissionDoneInv ==
    ASSUME MissionInv, OnMissionDone
    PROVE  MissionInv'
  <1> USE DumpFrame, TopicFrame, RocksOut DEF MissionInv, OnMissionDone
  <1>1. Counts'
    BY DEF Counts
  <1>2. Flags'
    BY DEF Flags
  <1>3. Messages'
    BY DEF Messages
  <1>4. Announced'
    BY DEF Announced, Known
  <1>5. Numbering' /\ LoadedOnce'
    BY CommandFrame
  <1>6. Latches'
    BY DEF Counts, Latches
  <1>7. OutAtWork'
    <2>1. Known \subseteq completed
      BY DEF Latches, Known
    <2> QED
      BY <2>1 DEF Announced, Numbering, OutAtWork
  <1>8. DumpAtHome'
    BY DEF DumpAtHome, HomeWithAll
  <1> QED
    BY <1>1, <1>2, <1>3, <1>4, <1>5, <1>6, <1>7, <1>8

LEMMA PursueInv ==
    ASSUME MissionInv, NEW arrived \in BOOLEAN, Pursue(arrived)
    PROVE  MissionInv'
  <1> USE DumpFrame, TopicFrame DEF MissionInv, Pursue
  <1>1. Counts' /\ (waiting' => target' \in Known)
    <2>1. target' \in 0..(targets - 1)
      BY DEF Counts, Remaining
    <2> QED
      BY <2>1 DEF Counts, CaughtUp, Known
  <1>2. Flags'
    BY DEF Flags
  <1>3. Messages'
    BY DEF Messages
  <1>4. Announced'
    BY <1>1 DEF Announced, Known
  <1>5. Numbering' /\ LoadedOnce'
    BY CommandFrame
  <1>6. Latches' /\ DumpAtHome'
    BY DEF Latches, DumpAtHome, HomeWithAll
  <1>7. OutAtWork'
    BY DEF OutAtWork, CaughtUp
  <1> QED
    BY <1>1, <1>2, <1>3, <1>4, <1>5, <1>6, <1>7

LEMMA AskInv ==
    ASSUME MissionInv, Request
    PROVE  MissionInv'
  <1> USE DumpFrame, TopicFrame DEF MissionInv, Request
  <1>1. Counts'
    BY DEF Counts
  <1>2. Flags'
    BY DEF Flags
  <1>3. target \in Int /\ target \in Known
    BY DEF Announced, Known
  <1>4. requests \in Seq(Int)
    BY DEF Messages
  <1>5. Messages'
    BY <1>3, <1>4 DEF Messages
  <1>6. Asked' = Asked \cup {target}
    BY <1>3, <1>4 DEF Asked
  <1>7. Announced'
    BY <1>3, <1>6 DEF Announced, Known
  <1>8. Numbering' /\ LoadedOnce'
    BY CommandFrame
  <1>9. Latches' /\ DumpAtHome'
    BY DEF Latches, DumpAtHome, HomeWithAll
  <1>10. OutAtWork'
    BY <1>6 DEF OutAtWork
  <1> QED
    BY <1>1, <1>2, <1>5, <1>7, <1>8, <1>9, <1>10

LEMMA ReportHomeInv ==
    ASSUME MissionInv, ReportHome
    PROVE  MissionInv'
  <1> USE DumpFrame, TopicFrame, RocksOut DEF MissionInv, ReportHome
  <1>1. Counts'
    BY DEF Counts
  <1>2. Flags'
    BY DEF Flags
  <1>3. Messages'
    BY DEF Messages
  <1>4. Announced'
    BY DEF Announced, Known
  <1>5. Numbering' /\ LoadedOnce'
    BY CommandFrame
  <1>6. Latches' /\ OutAtWork'
    BY DEF Latches, OutAtWork
  <1>7. DumpAtHome'
    BY DEF Counts, Latches, DumpAtHome, HomeWithAll
  <1> QED
    BY <1>1, <1>2, <1>3, <1>4, <1>5, <1>6, <1>7

----------------------------------------------------------------------------
(* The manipulator node. *)

LEMMA ManipulatorTargetsInv ==
    ASSUME MissionInv, ManipulatorTargets
    PROVE  MissionInv'
  <1> USE DumpFrame, TopicFrame, RocksOut DEF MissionInv, ManipulatorTargets
  <1>1. /\ RockCount \in Nat /\ RockCount' = RockCount
        /\ numTargets \in Nat /\ numTargets' \in Nat /\ numTargets < numTargets'
    BY DEF Counts
  <1>2. 0..(numTargets - 1) \subseteq 0..(numTargets' - 1)
    BY <1>1
  <1>3. Counts'
    BY <1>1 DEF Counts
  <1>4. Flags'
    BY DEF Flags
  <1>5. Messages'
    BY DEF Messages
  <1>6. Announced'
    <2>1. Known \subseteq Known'
      BY <1>2 DEF Known
    <2> QED
      BY <2>1 DEF Announced
  <1>7. Numbering' /\ LoadedOnce'
    BY CommandFrame
  <1>8. Latches'
    BY <1>1 DEF Counts, Flags, Latches
  <1>9. OutAtWork'
    BY DEF OutAtWork
  <1>10. DumpAtHome'
    BY <1>1 DEF Latches, DumpAtHome, HomeWithAll
  <1> QED
    BY <1>3, <1>4, <1>5, <1>6, <1>7, <1>8, <1>9, <1>10

(* A mission is declared done when every rock the node knows of has been answered.      *)
LEMMA AllAnswered ==
    ASSUME numTargets \in Nat, NEW S \in SUBSET (0..(numTargets - 1)),
           Cardinality(S) >= numTargets
    PROVE  S = 0..(numTargets - 1)
  <1>1. /\ IsFiniteSet(0..(numTargets - 1))
        /\ Cardinality(0..(numTargets - 1)) = numTargets
    <2>1. 0 \in Int /\ numTargets - 1 \in Int
      OBVIOUS
    <2>2. /\ IsFiniteSet(0..(numTargets - 1))
          /\ Cardinality(0..(numTargets - 1)) =
                IF 0 > numTargets - 1 THEN 0 ELSE (numTargets - 1) - 0 + 1
      BY ONLY <2>1, FS_Interval
    <2> QED
      BY <2>2
  <1>2. /\ IsFiniteSet(S) /\ Cardinality(S) <= Cardinality(0..(numTargets - 1))
        /\ Cardinality(0..(numTargets - 1)) = Cardinality(S) => 0..(numTargets - 1) = S
    BY <1>1, FS_Subset
  <1>3. Cardinality(S) \in Nat
    BY <1>2, FS_CardinalityType
  <1> QED
    BY <1>1, <1>2, <1>3

(* publish_target_done: what an answer does to counts and latches, while the rover is out. *)
LEMMA AnswerLatches ==
    ASSUME MissionInv, NEW t \in Known, t \notin completed, ~atHome, ~returning,
           PublishTargetDone(t),
           UNCHANGED <<dumpVars, driver, numTargets, dumpRequested, atHome, trailerCmd>>
    PROVE  Counts' /\ Flags' /\ Latches' /\ DumpAtHome' /\ completed' \subseteq Known'
  <1> USE DumpFrame, RocksOut DEF MissionInv, PublishTargetDone
  <1>1. Counts'
    BY DEF Counts
  <1>2. Flags'
    BY DEF Flags
  <1>3. completed' \subseteq Known /\ Known' = Known
    BY DEF Announced, Known
  <1>4. ~missionDone
    BY DEF Latches, Known
  <1>5. CASE missionDone'
    <2>1. numTargets > 0 /\ numTargets = RockCount /\ numTargets' = numTargets
      <3>1. numTargets > 0
        BY <1>4, <1>5
      <3>2. numTargets \in 0..RockCount /\ RockCount \in Nat
        BY DEF Counts
      <3> QED
        BY <1>4, <3>1, <3>2 DEF Latches
    <2>2. completed' = 0..(numTargets - 1)
      <3>1. numTargets \in Nat
        BY DEF Counts
      <3>2. completed' \in SUBSET (0..(numTargets - 1))
        BY <1>3 DEF Known
      <3>3. Cardinality(completed') >= numTargets
        BY <1>4, <1>5
      <3> QED
        BY <3>1, <3>2, <3>3, AllAnswered
    <2>3. targets = RockCount
      <3>1. targets \in Nat /\ RockCount \in Nat /\ targets <= RockCount /\ RockCount > 0
        BY DEF Counts
      <3>2. RockCount - 1 \in 0..(targets - 1)
        BY <1>3, <2>1, <2>2, <3>1 DEF Known
      <3> QED
        BY <3>1, <3>2
    <2>4. Latches' /\ DumpAtHome'
      BY <2>1, <2>2, <2>3 DEF Counts, Latches, DumpAtHome, HomeWithAll
    <2> QED
      BY <1>1, <1>2, <1>3, <2>4
  <1>6. CASE ~missionDone'
    <2>1. goHome' = goHome
      BY <1>4, <1>6
    <2>2. Latches' /\ DumpAtHome'
      BY <1>4, <1>6, <2>1 DEF Latches, DumpAtHome, HomeWithAll
    <2> QED
      BY <1>1, <1>2, <1>3, <2>2
  <1> QED
    BY <1>5, <1>6

(* An answer for the command in hand ends it. *)
LEMMA AnswerActiveInv ==
    ASSUME MissionInv, Working, PublishTargetDone(active.target), active' = Inactive,
           UNCHANGED <<dumpVars, driver, numTargets, dumpRequested, commandSeq, armStatus,
                       requests, atHome, armCmd, trailerCmd>>
    PROVE  MissionInv'
  <1> USE DumpFrame, TopicFrame DEF MissionInv
  <1>1. /\ active.target \in Known /\ active.target \notin completed
        /\ ~atHome /\ ~returning /\ ~Working'
        /\ completed' = completed \cup {active.target}
    BY DEF Announced, Numbering, OutAtWork, Working, PublishTargetDone
  <1>2. Counts' /\ Flags' /\ Latches' /\ DumpAtHome' /\ completed' \subseteq Known'
    BY <1>1, AnswerLatches
  <1>3. Messages'
    BY DEF Messages, Inactive, NoTarget
  <1>4. Announced'
    BY <1>1, <1>2 DEF Announced, Known
  <1>5. Numbering'
    BY <1>1 DEF Numbering
  <1>6. LoadedOnce'
    BY <1>1 DEF LoadedOnce
  <1>7. OutAtWork'
    BY <1>1 DEF OutAtWork
  <1> QED
    BY <1>2, <1>3, <1>4, <1>5, <1>6, <1>7

LEMMA GiveUpInv ==
    ASSUME MissionInv, GiveUp
    PROVE  MissionInv'
  BY AnswerActiveInv DEF GiveUp, Working

LEMMA OnArmStatusInv ==
    ASSUME MissionInv, OnArmStatus
    PROVE  MissionInv'
  <1> USE DumpFrame, TopicFrame DEF MissionInv, OnArmStatus
  <1>1. CASE armStatus.state \in {2, 3}
    <2>1. Working /\ armStatus.target = active.target
      BY DEF Numbering, Working
    <2> QED
      BY <1>1, <2>1, AnswerActiveInv
  <1>2. CASE armStatus.state \notin {2, 3}
    <2>1. /\ active' = [active EXCEPT !.seen = TRUE]
          /\ UNCHANGED <<completed, missionDone, answers, goHome>>
      BY <1>2
    <2>2. /\ active \in [seq : Nat, target : Int, seen : BOOLEAN] /\ commandSeq > 0
          /\ active.seq = commandSeq
      BY DEF Messages, Numbering, Working
    <2>3. /\ active' \in [seq : Nat, target : Int, seen : BOOLEAN]
          /\ active'.seq = active.seq /\ active'.target = active.target
      BY <2>1, <2>2
    <2>4. Working' /\ Working
      BY <2>2, <2>3 DEF Working, Inactive
    <2> USE <2>1, <2>3, <2>4
    <2>5. Counts' /\ Latches'
      BY DEF Counts, Latches
    <2>6. Flags'
      BY DEF Flags
    <2>7. Messages'
      BY DEF Messages
    <2>8. Announced'
      BY DEF Announced, Known
    <2>9. Numbering'
      BY DEF Numbering
    <2>10. LoadedOnce'
      BY DEF LoadedOnce
    <2>11. OutAtWork' /\ DumpAtHome'
      BY DEF OutAtWork, DumpAtHome, HomeWithAll
    <2> QED
      BY <2>5, <2>6, <2>7, <2>8, <2>9, <2>10, <2>11
  <1> QED
    BY <1>1, <1>2

(* A request served leaves the others. *)
LEMMA TailAsked ==
    ASSUME requests \in Seq(Int), requests # <<>>, requests' = Tail(requests)
    PROVE  requests' \in Seq(Int) /\ Head(requests) \in Asked /\ Asked' \subseteq Asked
  <1>1. requests' \in Seq(Int) /\ Len(requests') = Len(requests) - 1 /\ Len(requests) > 0
    OBVIOUS
  <1>2. \A i \in 1..Len(requests') : requests'[i] = requests[i + 1]
    OBVIOUS
  <1>3. Head(requests) \in Asked
    <2>1. Head(requests) = requests[1] /\ 1 \in DOMAIN requests
      BY <1>1
    <2> QED
      BY <2>1 DEF Asked
  <1>4. Asked' \subseteq Asked
    <2> SUFFICES ASSUME NEW i \in DOMAIN requests'
                 PROVE  requests'[i] \in Asked
      BY DEF Asked
    <2>1. i \in 1..Len(requests') /\ i + 1 \in DOMAIN requests
      BY <1>1
    <2> QED
      BY <1>2, <2>1 DEF Asked
  <1> QED
    BY <1>1, <1>3, <1>4

(* A command sent. *)
LEMMA SendSent ==
    ASSUME armCmd \in Seq([seq : Nat, target : Int]), NEW a \in [seq : Nat, target : Int, seen : BOOLEAN],
           armCmd' = Append(armCmd, Command(a))
    PROVE  /\ armCmd' \in Seq([seq : Nat, target : Int])
           /\ Sent' = Sent \cup {Command(a)}
           /\ Command(a).seq = a.seq /\ Command(a).target = a.target
  <1>1. Command(a) \in [seq : Nat, target : Int]
        /\ Command(a).seq = a.seq /\ Command(a).target = a.target
    BY DEF Command
  <1>2. armCmd' \in Seq([seq : Nat, target : Int])
    BY <1>1
  <1>3. Sent' = Sent \cup {Command(a)}
    <2>1. Len(armCmd') = Len(armCmd) + 1
      BY <1>1
    <2>2. /\ DOMAIN armCmd = 1..Len(armCmd) /\ DOMAIN armCmd' = 1..Len(armCmd')
          /\ Len(armCmd) \in Nat
      BY <1>2
    <2>3. /\ \A i \in 1..Len(armCmd) : armCmd'[i] = armCmd[i]
          /\ armCmd'[Len(armCmd) + 1] = Command(a)
      BY <1>1
    <2> QED
      BY <2>1, <2>2, <2>3 DEF Sent
  <1> QED
    BY <1>1, <1>2, <1>3

LEMMA OnPickupRequestInv ==
    ASSUME MissionInv, NEW solvable \in BOOLEAN, OnPickupRequest(solvable)
    PROVE  MissionInv'
  <1> DEFINE t == Head(requests)
  <1> USE DumpFrame, TopicFrame DEF MissionInv
  <1>1. /\ requests' \in Seq(Int) /\ t \in Asked /\ Asked' \subseteq Asked
        /\ UNCHANGED <<dumpVars, driver, armStatus, atHome, trailerCmd>>
    BY TailAsked DEF OnPickupRequest, Messages
  <1>2. t \in Known
    BY <1>1 DEF Announced
  <1>3. CASE t \in completed \/ Working
    <2>1. UNCHANGED <<manipulator, goHome, armCmd>>
      BY <1>3 DEF OnPickupRequest, Working
    <2> USE <1>1, <2>1
    <2>2. Counts' /\ Latches'
      BY DEF Counts, Latches
    <2>3. Flags'
      BY DEF Flags
    <2>4. Messages'
      BY DEF Messages
    <2>5. Announced'
      BY DEF Announced, Known
    <2>6. Numbering' /\ LoadedOnce'
      BY CommandFrame
    <2>7. OutAtWork' /\ DumpAtHome'
      BY DEF OutAtWork, DumpAtHome, HomeWithAll
    <2> QED
      BY <2>2, <2>3, <2>4, <2>5, <2>6, <2>7
  <1>4. CASE t \notin completed /\ ~Working /\ ~solvable
    <2>1. /\ PublishTargetDone(t) /\ completed' = completed \cup {t}
          /\ UNCHANGED <<numTargets, active, dumpRequested, commandSeq, armCmd>>
      BY <1>4 DEF OnPickupRequest, Working, PublishTargetDone
    <2>2. ~atHome /\ ~returning
      BY <1>1, <1>4 DEF OutAtWork
    <2>3. Counts' /\ Flags' /\ Latches' /\ DumpAtHome' /\ completed' \subseteq Known'
      BY <1>1, <1>2, <1>4, <2>1, <2>2, AnswerLatches
    <2>4. Messages'
      BY <1>1, <2>1 DEF Messages
    <2>5. Announced'
      BY <1>1, <2>1, <2>3 DEF Announced, Known
    <2>6. Numbering'
      BY <1>1, <1>4, <2>1 DEF Numbering
    <2>7. LoadedOnce'
      BY <1>1, <1>4, <2>1 DEF LoadedOnce
    <2>8. OutAtWork'
      BY <1>1, <2>1, <2>2 DEF OutAtWork
    <2> QED
      BY <2>3, <2>4, <2>5, <2>6, <2>7, <2>8
  <1>5. CASE t \notin completed /\ ~Working /\ solvable
    <2>1. /\ commandSeq' = commandSeq + 1
          /\ active' = [seq |-> commandSeq', target |-> t, seen |-> FALSE]
          /\ armCmd' = Append(armCmd, Command(active'))
          /\ UNCHANGED <<numTargets, completed, missionDone, dumpRequested, answers, goHome>>
      BY <1>5 DEF OnPickupRequest, Working
    <2>2. commandSeq \in Nat /\ t \in Int /\ t # NoTarget
      BY <1>2 DEF Messages, Known, NoTarget
    <2>3. /\ active' \in [seq : Nat, target : Int, seen : BOOLEAN]
          /\ active'.seq = commandSeq' /\ active'.target = t /\ commandSeq' > 0
      BY <2>1, <2>2
    <2>4. Working'
      BY <2>3 DEF Working, Inactive
    <2>5. /\ armCmd' \in Seq([seq : Nat, target : Int])
          /\ Sent' = Sent \cup {Command(active')}
          /\ Command(active').seq = commandSeq' /\ Command(active').target = t
      BY <2>1, <2>3, SendSent DEF Messages
    <2>6. ~atHome /\ ~returning
      BY <1>1, <1>5 DEF OutAtWork
    <2> USE <1>1, <2>1
    <2>7. Counts' /\ Latches'
      BY DEF Counts, Latches
    <2>8. Flags'
      BY DEF Flags
    <2>9. Messages'
      BY <2>2, <2>3, <2>5 DEF Messages
    <2>10. Announced'
      BY <1>2, <2>3 DEF Announced, Known
    <2>a. /\ \A c \in Sent : c.target \in completed /\ c.seq \in 1..commandSeq
          /\ armStatus.seq \in 0..commandSeq
          /\ armStatus.seq # 0 => armStatus.target \in completed
          /\ armStatus.target # t
      BY <1>5, <2>2 DEF Numbering
    <2>b. Gone \subseteq completed
      BY <1>5 DEF LoadedOnce
    <2>c. /\ \A c \in Sent : c.seq # commandSeq' /\ c.seq \in 1..commandSeq'
          /\ armStatus.seq # commandSeq' /\ armStatus.seq \in 0..commandSeq'
          /\ commandSeq' \in 1..commandSeq'
      BY <2>2, <2>a
    <2>11. Numbering'
      <3>1. \A c \in Sent' :
                            /\ c.seq \in 1..commandSeq'
                            /\ c.target \in completed \/ c.seq = commandSeq'
                            /\ c.seq = commandSeq' => c.target = t
        BY <2>5, <2>a, <2>c
      <3>2. armStatus.seq = 0 => armStatus.state = 0 /\ armStatus.target = NoTarget
        BY DEF Numbering
      <3>3. active'.seq = commandSeq' /\ commandSeq' > 0 /\ active'.target \notin completed'
        BY <1>5, <2>3
      <3>4. armStatus'.seq # active'.seq /\ armStatus'.seq \in 0..commandSeq'
        BY <2>3, <2>c
      <3>5. armStatus'.seq # 0 => armStatus'.target \in completed'
        BY <2>a
      <3>6. \A c \in Sent' :
                            /\ c.seq \in 1..commandSeq'
                            /\ c.seq = active'.seq => c.target = active'.target
                            /\ c.target \in completed' \/ c.seq = active'.seq
        BY <2>3, <3>1
      <3>7. armStatus'.seq = 0 => armStatus'.state = 0 /\ armStatus'.target = NoTarget
        BY <3>2
      <3> QED
        BY ONLY <2>4, <3>3, <3>4, <3>5, <3>6, <3>7 DEF Numbering
    <2>12. LoadedOnce'
      <3>1. \A c \in Sent' : c.seq > armStatus.seq => c.target \notin Gone \cup {armStatus.target}
        BY <1>5, <2>5, <2>a, <2>b DEF LoadedOnce
      <3>2. \A c, d \in Sent' : c.seq # d.seq => c.target # d.target
        BY <1>5, <2>5, <2>a DEF LoadedOnce
      <3> QED
        BY <2>b, <3>1, <3>2 DEF LoadedOnce
    <2>13. OutAtWork' /\ DumpAtHome'
      BY <2>6 DEF OutAtWork, DumpAtHome, HomeWithAll
    <2> QED
      BY <2>7, <2>8, <2>9, <2>10, <2>11, <2>12, <2>13
  <1> QED
    BY <1>3, <1>4, <1>5

LEMMA RepublishInv ==
    ASSUME MissionInv, Republish
    PROVE  MissionInv'
  <1> USE DumpFrame, TopicFrame DEF MissionInv, Republish
  <1>1. Working /\ active \in [seq : Nat, target : Int, seen : BOOLEAN]
    BY DEF Working, Messages
  <1>2. /\ armCmd' \in Seq([seq : Nat, target : Int])
        /\ Sent' = Sent \cup {Command(active)}
        /\ Command(active).seq = active.seq /\ Command(active).target = active.target
    BY <1>1, SendSent DEF Messages
  <1>3. Counts' /\ Latches'
    BY DEF Counts, Latches
  <1>4. Flags'
    BY DEF Flags
  <1>5. Messages'
    BY <1>2 DEF Messages
  <1>6. Announced'
    BY DEF Announced, Known
  <1>7. Numbering'
    BY <1>1, <1>2 DEF Numbering, Messages
  <1>8. LoadedOnce'
    <2>1. \A c \in Sent' : c.seq > armStatus.seq => c.target \notin Gone \cup {armStatus.target}
      <3>1. active.target \notin completed /\ active.seq = commandSeq
        BY <1>1 DEF Numbering
      <3>2. active.seq > armStatus.seq => active.target \notin Gone \cup {armStatus.target}
        <4>1. active.seq \in Nat /\ armStatus.seq \in Nat /\ active.target # NoTarget
          BY <1>1 DEF Messages, Announced, Known, NoTarget
        <4>2. armStatus.target = NoTarget \/ armStatus.target \in completed
              \/ armStatus.seq = active.seq
          BY DEF Numbering
        <4> QED
          BY <3>1, <4>1, <4>2 DEF LoadedOnce
      <3> QED
        BY <1>2, <3>2 DEF LoadedOnce
    <2>2. \A c, d \in Sent' : c.seq # d.seq => c.target # d.target
      <3>1. \A c \in Sent : c.seq # active.seq => c.target # active.target
        BY <1>1 DEF Numbering
      <3> QED
        BY <1>2, <3>1 DEF LoadedOnce
    <2> QED
      BY <2>1, <2>2 DEF LoadedOnce
  <1>9. OutAtWork' /\ DumpAtHome'
    BY DEF OutAtWork, DumpAtHome, HomeWithAll
  <1> QED
    BY <1>3, <1>4, <1>5, <1>6, <1>7, <1>8, <1>9

LEMMA OnAtHomeInv ==
    ASSUME MissionInv, OnAtHome
    PROVE  MissionInv'
  <1> USE DumpFrame, TopicFrame DEF MissionInv, OnAtHome
  <1>1. Counts' /\ Latches'
    BY DEF Counts, Latches
  <1>2. Flags'
    BY DEF Flags
  <1>3. Messages'
    BY DEF Messages
  <1>4. Announced'
    BY DEF Announced, Known
  <1>5. Numbering' /\ LoadedOnce'
    BY CommandFrame
  <1>6. OutAtWork'
    BY DEF OutAtWork
  <1>7. DumpAtHome'
    BY DEF DumpAtHome, HomeWithAll
  <1> QED
    BY <1>1, <1>2, <1>3, <1>4, <1>5, <1>6, <1>7

----------------------------------------------------------------------------
(* The simulation. *)

(* Commands served leave the others. *)
LEMMA ServeSent ==
    ASSUME armCmd \in Seq([seq : Nat, target : Int]), NEW n \in 1..Len(armCmd),
           armCmd' = SubSeq(armCmd, n + 1, Len(armCmd))
    PROVE  /\ armCmd' \in Seq([seq : Nat, target : Int])
           /\ armCmd[n] \in Sent /\ armCmd[n] \in [seq : Nat, target : Int]
           /\ Sent' \subseteq Sent
  <1>0. /\ Len(armCmd) \in Nat /\ DOMAIN armCmd = 1..Len(armCmd) /\ n \in Nat /\ n >= 1
        /\ n + 1 \in 1..(Len(armCmd) + 1) /\ Len(armCmd) \in n..Len(armCmd)
    OBVIOUS
  <1>1. /\ armCmd' \in Seq([seq : Nat, target : Int])
        /\ Len(armCmd') = Len(armCmd) - n
        /\ \A i \in 1..Len(armCmd') : armCmd'[i] = armCmd[n + i]
    <2> DEFINE T == [seq : Nat, target : Int]
               m == n + 1
               k == Len(armCmd)
    <2>1. /\ armCmd \in Seq(T) /\ m \in Int /\ k \in Int /\ m >= 1 /\ m <= k + 1
          /\ DOMAIN armCmd = 1..k /\ armCmd' = SubSeq(armCmd, m, k)
      BY <1>0
    <2> HIDE DEF T, m, k
    <2>2. \A i \in m..k : armCmd[i] \in T
      BY <2>1
    <2>3. /\ armCmd' \in Seq(T)
          /\ Len(armCmd') = IF m <= k THEN k - m + 1 ELSE 0
          /\ \A i \in 1..(k - m + 1) : armCmd'[i] = armCmd[m + i - 1]
      BY ONLY <2>1, <2>2, SubSeqProperties
    <2>4. Len(armCmd') = k - m + 1
      BY ONLY <2>1, <2>3
    <2>5. Len(armCmd') = Len(armCmd) - n
      BY ONLY <1>0, <2>4 DEF m, k
    <2>6. ASSUME NEW i \in 1..Len(armCmd')
          PROVE  armCmd'[i] = armCmd[n + i]
      <3>1. i \in 1..(k - m + 1) /\ m + i - 1 = n + i
        BY ONLY <1>0, <2>4, i \in 1..Len(armCmd') DEF m, k
      <3> QED
        BY ONLY <2>3, <3>1
    <2> QED
      BY ONLY <2>3, <2>5, <2>6 DEF T
  <1>2. armCmd[n] \in Sent /\ armCmd[n] \in [seq : Nat, target : Int]
    <2>1. n \in DOMAIN armCmd
      BY ONLY <1>0, n \in 1..Len(armCmd)
    <2>2. armCmd[n] \in Sent
      BY <2>1 DEF Sent
    <2>3. armCmd[n] \in [seq : Nat, target : Int]
      <3> DEFINE T == [seq : Nat, target : Int]
      <3>1. armCmd \in Seq(T)
        OBVIOUS
      <3> HIDE DEF T
      <3>2. armCmd[n] \in T
        BY ONLY <2>1, <3>1
      <3> QED
        BY ONLY <3>2 DEF T
    <2> QED
      BY <2>2, <2>3
  <1>3. Sent' \subseteq Sent
    <2> SUFFICES ASSUME NEW i \in DOMAIN armCmd'
                 PROVE  armCmd'[i] \in Sent
      BY DEF Sent
    <2>1. DOMAIN armCmd' = 1..Len(armCmd')
      BY <1>1
    <2>2. i \in 1..Len(armCmd') /\ n + i \in DOMAIN armCmd
      <3>1. i \in Int /\ 1 <= i /\ i <= Len(armCmd) - n
        BY ONLY <1>0, <1>1, <2>1, i \in DOMAIN armCmd'
      <3>2. n + i \in 1..Len(armCmd)
        BY ONLY <1>0, <3>1
      <3> QED
        BY ONLY <1>0, <2>1, <3>2, i \in DOMAIN armCmd', Zenon
    <2> QED
      BY <1>1, <2>2 DEF Sent
  <1> QED
    BY <1>1, <1>2, <1>3

LEMMA ServeArmCmdInv ==
    ASSUME MissionInv, NEW n \in 1..Len(armCmd), ServeArmCmd(n)
    PROVE  MissionInv'
  <1> DEFINE c == armCmd[n]
  <1> USE DumpFrame, TopicFrame DEF MissionInv
  <1>1. /\ armCmd' \in Seq([seq : Nat, target : Int])
        /\ c \in Sent /\ c \in [seq : Nat, target : Int] /\ Sent' \subseteq Sent
    BY ServeSent DEF ServeArmCmd, Messages
  <1>2. /\ UNCHANGED <<dumpVars, driver, manipulator, requests, answers, goHome, atHome, trailerCmd>>
        /\ \/ UNCHANGED armStatus
           \/ /\ armStatus.state # 1 /\ c.seq > armStatus.seq
              /\ \E s \in {1, 3} :
                    armStatus' = [seq |-> c.seq, state |-> s, target |-> c.target]
    BY DEF ServeArmCmd
  <1> HIDE DEF c
  <1>3. armStatus' \in [seq : Nat, state : 0..3, target : Int]
    BY <1>1, <1>2, SMTT(30) DEF Messages
  <1>4. Counts' /\ Latches'
    BY <1>2 DEF Counts, Latches
  <1>5. Flags'
    BY <1>2 DEF Flags
  <1>6. Messages'
    BY <1>1, <1>2, <1>3 DEF Messages
  <1>7. Announced'
    BY <1>2 DEF Announced, Known
  <1>8. OutAtWork' /\ DumpAtHome'
    BY <1>2 DEF OutAtWork, DumpAtHome, HomeWithAll
  <1>9. Numbering' /\ LoadedOnce'
    <2> USE <1>1, <1>2
    <2>1. CASE UNCHANGED armStatus
      BY <2>1 DEF Numbering, LoadedOnce
    <2>2. CASE ~UNCHANGED armStatus
      <3>1. /\ armStatus.state # 1 /\ c.seq > armStatus.seq
            /\ armStatus'.seq = c.seq /\ armStatus'.target = c.target
            /\ c.seq \in 1..commandSeq /\ c.seq # 0
        BY <2>2 DEF Numbering
      <3>2. Numbering'
        BY <3>1 DEF Numbering
      <3>3. \A r \in Gone : r \in completed
        BY <3>1 DEF Numbering, LoadedOnce, Messages
      <3>4. c.target \notin Gone
        BY <3>1 DEF LoadedOnce
      <3>5. \A d \in Sent : d.seq > c.seq => d.target \notin Gone \cup {c.target}
        <4> SUFFICES ASSUME NEW d \in Sent, d.seq > c.seq
                     PROVE  d.target \notin Gone /\ d.target # c.target
          OBVIOUS
        <4>1. d.seq \in Nat /\ c.seq \in Nat /\ armStatus.seq \in Nat
          <5>1. d.seq \in 1..commandSeq /\ armStatus.seq \in 0..commandSeq /\ commandSeq \in Nat
            BY DEF Numbering, Messages
          <5> QED
            BY <5>1
        <4>2. d.seq > armStatus.seq /\ d.seq # c.seq
          BY <3>1, <4>1
        <4> QED
          BY <4>2 DEF LoadedOnce
      <3>6. LoadedOnce'
        BY <3>1, <3>3, <3>4, <3>5 DEF LoadedOnce
      <3> QED
        BY <3>2, <3>6
    <2> QED
      BY <2>1, <2>2
  <1> QED
    BY <1>4, <1>5, <1>6, <1>7, <1>8, <1>9

(* What the arm is working on is a rock that is out, and none that has left the ground. *)
LEMMA ArmTarget ==
    ASSUME MissionInv, armStatus.state = 1
    PROVE  /\ armStatus.target \in Lying
           /\ armStatus.target \in completed \/
                (Working /\ armStatus.seq = active.seq /\ armStatus.target = active.target)
  <1> USE DEF MissionInv
  <1>1. armStatus.target \in completed \/
           (Working /\ armStatus.seq = active.seq /\ armStatus.target = active.target)
    BY DEF Numbering
  <1>2. armStatus.target \in Known
    BY <1>1 DEF Announced
  <1>3. Known \subseteq Out
    BY RocksOut DEF Counts, Known, Out
  <1>4. armStatus.target \notin Gone
    BY DEF LoadedOnce
  <1> QED
    BY <1>1, <1>2, <1>3, <1>4 DEF Lying, Gone

LEMMA ArmFinishesInv ==
    ASSUME MissionInv, ArmFinishes
    PROVE  MissionInv'
  <1> USE TopicFrame DEF MissionInv
  <1>0. /\ UNCHANGED <<driver, manipulator, topics>> /\ armStatus.state = 1
        /\ \E s \in {2, 3} : armStatus' = [armStatus EXCEPT !.state = s]
        /\ armStatus \in [seq : Nat, state : 0..3, target : Int]
    BY DEF ArmFinishes, Messages
  <1>1. /\ UNCHANGED <<driver, manipulator, topics>> /\ armStatus.state = 1
        /\ armStatus' \in [seq : Nat, state : 0..3, target : Int]
        /\ armStatus'.seq = armStatus.seq /\ armStatus'.target = armStatus.target
        /\ armStatus'.state # 1 /\ armStatus'.state # 0
    BY <1>0
  <1>2. /\ RockCount' = RockCount /\ (Ready' <=> Ready) /\ harvest' = harvest
        /\ Gone' \subseteq Gone \cup {armStatus.target}
    BY DEF ArmFinishes, Loaded, RockCount, Ready, Gone
  <1> USE <1>1, <1>2
  <1>3. Counts' /\ Latches'
    BY DEF Counts, Latches
  <1>4. Flags'
    BY DEF Flags
  <1>5. Messages'
    BY DEF Messages
  <1>6. Announced'
    BY DEF Announced, Known
  <1>7. OutAtWork' /\ DumpAtHome'
    BY DEF OutAtWork, DumpAtHome, HomeWithAll
  <1>8. Numbering'
    BY DEF Numbering
  <1>9. LoadedOnce'
    BY ArmTarget DEF LoadedOnce
  <1> QED
    BY <1>3, <1>4, <1>5, <1>6, <1>7, <1>8, <1>9

LEMMA ServeTrailerCmdInv ==
    ASSUME MissionInv, ServeTrailerCmd
    PROVE  MissionInv'
  <1> USE TopicFrame DEF MissionInv
  <1>1. /\ UNCHANGED <<driver, manipulator, armStatus, requests, answers, goHome, atHome, armCmd>>
        /\ trailerCmd /\ trailerCmd' = FALSE
    BY DEF ServeTrailerCmd
  <1>2. RockCount' = RockCount /\ harvest' = harvest /\ Gone' \subseteq Gone
    BY DEF ServeTrailerCmd, RequestTrailerDump, RockCount, Gone
  <1> USE <1>1, <1>2
  <1>3. Counts' /\ Latches'
    BY DEF Counts, Latches
  <1>4. Flags'
    BY DEF Flags
  <1>5. Messages'
    BY DEF Messages
  <1>6. Announced'
    BY DEF Announced, Known
  <1>7. Numbering' /\ LoadedOnce'
    BY CommandFrame
  <1>8. OutAtWork' /\ DumpAtHome'
    BY DEF OutAtWork, DumpAtHome, HomeWithAll
  <1> QED
    BY <1>3, <1>4, <1>5, <1>6, <1>7, <1>8

(* A step of the trailer takes no rock from the ground, and the one that ends the dump  *)
(* puts out the next harvest.                                                           *)
LEMMA TrailerStep ==
    ASSUME harvest \in Nat, AdvanceDumpCycle \/ Slide \/ Freeze
    PROVE  /\ Gone' \subseteq Gone
           /\ \/ harvest' = harvest /\ RockCount' = RockCount /\ (Ready' <=> Ready)
              \/ ~Ready /\ Ready' /\ harvest' = harvest + 1 /\ RockCount' > RockCount
  <1>1. CASE Slide \/ Freeze \/ StartClock
    BY <1>1 DEF Slide, Freeze, StartClock, Gone, RockCount, Ready
  <1>2. ASSUME NEW dt, Step(dt)
        PROVE  /\ Gone' \subseteq Gone
               /\ \/ harvest' = harvest /\ (Ready' <=> Ready)
                  \/ ~Ready /\ Ready' /\ harvest' = harvest + 1
    <2>1. CASE OpenGate(dt) \/ Tilt(dt) \/ Dwell(dt) \/ Level(dt)
      BY <2>1 DEF OpenGate, Tilt, Dwell, Level, Gone, Ready
    <2>2. CASE CloseGate(dt)
      BY <2>2 DEF CloseGate, ReportDumpOutcome, Gone, Ready
    <2> QED
      BY <1>2, <2>1, <2>2 DEF Step
  <1>3. /\ harvest' = harvest => RockCount' = RockCount
        /\ harvest' = harvest + 1 => RockCount' > RockCount
    <2>1. Batch \in Nat /\ Batch > 0
      BY DumpAssumption
    <2>2. Batch * (harvest + 1 + 1) > Batch * (harvest + 1)
      BY <2>1, Z3
    <2> QED
      BY <2>2 DEF RockCount
  <1> QED
    BY <1>1, <1>2, <1>3 DEF AdvanceDumpCycle

LEMMA TrailerInv ==
    ASSUME MissionInv, Trailer
    PROVE  MissionInv'
  <1> USE TopicFrame DEF MissionInv
  <1>1. UNCHANGED <<driver, manipulator, armStatus, topics>>
    BY DEF Trailer
  <1>2. /\ harvest \in Nat /\ RockCount \in Nat
        /\ Gone' \subseteq Gone
        /\ \/ harvest' = harvest /\ RockCount' = RockCount /\ (Ready' <=> Ready)
           \/ ~Ready /\ Ready' /\ harvest' = harvest + 1 /\ RockCount' > RockCount
    BY TrailerStep, RocksOut DEF Trailer, Counts
  <1> USE <1>1, <1>2
  <1>3. Flags'
    BY DEF Flags
  <1>4. Messages'
    BY DEF Messages
  <1>5. Announced'
    BY DEF Announced, Known
  <1>6. Numbering' /\ LoadedOnce'
    BY CommandFrame
  <1>7. OutAtWork'
    BY DEF OutAtWork
  <1>8. Counts' /\ Latches' /\ DumpAtHome'
    <2>1. CASE harvest' = harvest /\ RockCount' = RockCount /\ (Ready' <=> Ready)
      BY <2>1 DEF Counts, Latches, DumpAtHome, HomeWithAll
    <2>2. CASE ~Ready /\ Ready' /\ harvest' = harvest + 1 /\ RockCount' > RockCount
      <3>1. /\ dumpRequested /\ ~trailerCmd /\ missionDone /\ returning
            /\ targets = RockCount /\ numTargets = RockCount
        BY <2>2 DEF DumpAtHome, HomeWithAll
      <3>2. RockCount' \in Nat
        <4>1. harvest' \in Nat
          BY <2>2
        <4> QED
          BY <4>1, OutGrows, <2>2 DEF RockCount
      <3>3. Counts'
        BY <2>2, <3>1, <3>2 DEF Counts
      <3>4. Latches'
        BY <2>2, <3>1, <3>2 DEF Latches
      <3>5. DumpAtHome'
        BY <2>2, <3>1 DEF DumpAtHome
      <3> QED
        BY <3>3, <3>4, <3>5
    <2> QED
      BY <2>1, <2>2
  <1> QED
    BY <1>3, <1>4, <1>5, <1>6, <1>7, <1>8

----------------------------------------------------------------------------
(* The specification. *)

LEMMA MissionInit == Init => MissionInv
  <1> SUFFICES ASSUME Init PROVE MissionInv
    OBVIOUS
  <1> USE DEF Init, DumpInit
  <1>1. ~Working /\ Ready /\ RockCount \in Nat /\ RockCount > 0
    BY RocksOut DEF Working, Ready
  <1>2. Sent = {} /\ Asked = {} /\ Gone = {}
    BY DEF Sent, Asked, Gone
  <1>3. Counts
    BY <1>1 DEF Counts
  <1>3a. Flags
    BY DEF Flags
  <1>4. Messages
    BY DEF Messages, Inactive, NoTarget
  <1>5. Announced
    BY <1>1, <1>2 DEF Announced
  <1>6. Numbering
    BY <1>1, <1>2 DEF Numbering
  <1>7. LoadedOnce
    BY <1>2 DEF LoadedOnce
  <1>8. Latches /\ OutAtWork /\ DumpAtHome
    BY <1>1, <1>2 DEF Latches, OutAtWork, DumpAtHome
  <1> QED
    BY <1>3, <1>3a, <1>4, <1>5, <1>6, <1>7, <1>8 DEF MissionInv

(* An answer in flight carries nothing. *)
LEMMA AnswersInv ==
    ASSUME MissionInv,
           UNCHANGED <<dumpVars, driver, manipulator, armStatus, requests, goHome, atHome, armCmd,
                       trailerCmd>>
    PROVE  MissionInv'
  <1> USE DumpFrame, TopicFrame DEF MissionInv
  <1>1. Counts' /\ Latches'
    BY DEF Counts, Latches
  <1>2. Flags'
    BY DEF Flags
  <1>3. Messages'
    BY DEF Messages
  <1>4. Announced'
    BY DEF Announced, Known
  <1>5. Numbering' /\ LoadedOnce'
    BY CommandFrame
  <1>6. OutAtWork' /\ DumpAtHome'
    BY DEF OutAtWork, DumpAtHome, HomeWithAll
  <1> QED
    BY <1>1, <1>2, <1>3, <1>4, <1>5, <1>6

LEMMA MissionInvariance == Spec => []MissionInv
  <1>1. ASSUME MissionInv, Next
        PROVE  MissionInv'
    <2>1. ASSUME OnTargetDone
          PROVE  MissionInv'
      <3>1. CASE UNCHANGED driver
        <4>1. UNCHANGED <<dumpVars, driver, manipulator, armStatus, requests, goHome, atHome, armCmd,
                          trailerCmd>>
          BY <2>1, <3>1 DEF OnTargetDone
        <4> QED
          BY <1>1, <4>1, AnswersInv
      <3>2. CASE LeaveTarget
        BY <1>1, <2>1, <3>2, LeaveTargetInv DEF OnTargetDone
      <3> QED
        BY <2>1, <3>1, <3>2 DEF OnTargetDone
    <2>2. ASSUME Driver
          PROVE  MissionInv'
      BY <1>1, <2>1, <2>2, DriverTargetsInv, OnMissionDoneInv, LeaveTargetInv, PursueInv, AskInv,
         ReportHomeInv
      DEF Driver, Abandon
    <2>3. ASSUME Manipulator
          PROVE  MissionInv'
      BY <1>1, <2>3, ManipulatorTargetsInv, OnPickupRequestInv, OnArmStatusInv, RepublishInv,
         GiveUpInv, OnAtHomeInv
      DEF Manipulator
    <2>4. ASSUME Simulation
          PROVE  MissionInv'
      BY <1>1, <2>4, ServeArmCmdInv, ArmFinishesInv, ServeTrailerCmdInv, TrailerInv
      DEF Simulation
    <2> QED
      BY <1>1, <2>2, <2>3, <2>4 DEF Next
  <1>2. MissionInv /\ [Next]_vars => MissionInv'
    BY <1>1, AnswersInv DEF vars
  <1> QED
    BY MissionInit, <1>2, PTL DEF Spec

----------------------------------------------------------------------------
(* RobotRig::RequestTrailerDump, Controller::drive_home: however messages are delayed   *)
(* and deadlines strike, the trailer only tips while the rover stands parked at home.   *)
THEOREM TipsOnlyParked == Spec => []ParkedWhileDumping
  <1>1. MissionInv => ParkedWhileDumping
    BY DEF MissionInv, DumpAtHome, HomeWithAll, ParkedWhileDumping
  <1> QED
    BY MissionInvariance, <1>1, PTL

(* Only the served trailer command starts a dump. *)
LEMMA DumpStarts ==
    ASSUME Next, Ready, dump' = "openingGate"
    PROVE  ServeTrailerCmd
  <1>1. CASE UNCHANGED dump
    BY <1>1 DEF Ready
  <1>2. CASE dump' # dump
    <2>1. ~Driver
      BY <1>2
      DEF Driver, DriverTargets, OnTargetDone, OnMissionDone, Abandon, Pursue, Request, ReportHome
    <2>2. ~Manipulator
      BY <1>2
      DEF Manipulator, ManipulatorTargets, OnPickupRequest, OnArmStatus, Republish, GiveUp, OnAtHome
    <2>3. ~Trailer
      BY DEF Trailer, Ready, AdvanceDumpCycle, StartClock, Step, OpenGate, Tilt, Dwell, Level,
             CloseGate, Slide, Freeze
    <2>4. ~ArmFinishes /\ (\A n \in 1..Len(armCmd) : ~ServeArmCmd(n))
      BY <1>2 DEF ArmFinishes, Loaded, ServeArmCmd
    <2> QED
      BY <2>1, <2>2, <2>3, <2>4 DEF Next, Simulation
  <1> QED
    BY <1>1, <1>2

(* maybe_publish_mission_done, on_at_home: a dump begins only when every rock that is   *)
(* out has been answered.                                                               *)
THEOREM DumpsAll == Spec => DumpsWholeHarvest
  <1>1. ASSUME MissionInv, Next, Ready, dump' = "openingGate"
        PROVE  completed = Out
    <2>1. trailerCmd
      BY <1>1, DumpStarts DEF ServeTrailerCmd
    <2>2. missionDone /\ numTargets = RockCount
      BY <1>1, <2>1 DEF MissionInv, DumpAtHome, HomeWithAll
    <2> QED
      BY <1>1, <2>2 DEF MissionInv, Latches, Out
  <1>2. MissionInv /\ [Next]_vars => [Ready /\ dump' = "openingGate" => completed = Out]_vars
    BY <1>1
  <1> QED
    BY MissionInvariance, <1>2, PTL DEF Spec, DumpsWholeHarvest

(* RobotRig::StepArm and RosTrailerBridge::Synchronize use the trailer as TrailerDump   *)
(* assumes: the arm loads only rocks that lie about, and none twice.                    *)
THEOREM MissionDumps == Spec => ImplementsDump
  <1>1. Init => DumpInit
    BY DEF Init
  <1>2. ASSUME MissionInv, [Next]_vars
        PROVE  [DumpNext]_dumpVars
    <2>1. CASE UNCHANGED vars \/ Driver \/ Manipulator
      BY <2>1
      DEF vars, Driver, DriverTargets, OnTargetDone, OnMissionDone, Abandon, Pursue, Request,
          ReportHome, Manipulator, ManipulatorTargets, OnPickupRequest, OnArmStatus, Republish,
          GiveUp, OnAtHome
    <2>2. CASE ArmFinishes
      BY <1>2, <2>2, ArmTarget DEF ArmFinishes, DumpNext
    <2>3. CASE ServeTrailerCmd \/ Trailer
      BY <2>3 DEF ServeTrailerCmd, Trailer, DumpNext
    <2>4. CASE \E n \in 1..Len(armCmd) : ServeArmCmd(n)
      BY <2>4 DEF ServeArmCmd
    <2> QED
      BY <1>2, <2>1, <2>2, <2>3, <2>4 DEF Next, Simulation
  <1> QED
    BY MissionInvariance, <1>1, <1>2, PTL DEF Spec, ImplementsDump, DumpSpec

(* RobotRig::AdvanceDumpCycle in the mission: the bed is up only over an open gate, and *)
(* a rock that was handed over never rides or is handed over again.                     *)
COROLLARY MissionDumpIsSafe == Spec => [](TiltsOverOpenGate /\ HandedOverOnce)
  BY MissionDumps, DumpIsSafe, RocksHandedOverOnce, PTL DEF ImplementsDump

(* The haul moves only with the trailer, the way home and the rocks the driver knows of. *)
LEMMA HaulFrame ==
    ASSUME UNCHANGED <<dumpVars, returning, targets>>
    PROVE  UNCHANGED <<Phase, harvest>>
  BY DumpFrame DEF Phase

(* on_mission_done, RosTrailerBridge::Synchronize, StartNextHarvestCycle: the collector *)
(* is out, on its way home, tipping, and out again, in that order, and a harvest counts *)
(* when the tip is over.                                                                *)
THEOREM MissionHauls == Spec => ImplementsHaul
  <1>1. Init => Haul!Init
    BY RocksOut DEF Init, DumpInit, Haul!Init, Phase, Ready
  <1>2. ASSUME MissionInv, MissionInv', [Next]_vars
        PROVE  [Haul!Next]_<<Phase, harvest>>
    <2> USE DEF MissionInv
    <2>1. CASE UNCHANGED vars \/ Manipulator
      <3>1. UNCHANGED <<dumpVars, returning, targets>>
        BY <2>1
        DEF vars, Manipulator, ManipulatorTargets, OnPickupRequest, OnArmStatus, Republish,
            GiveUp, OnAtHome
      <3> QED
        BY <3>1, HaulFrame
    <2>2. CASE OnTargetDone \/ Abandon \/ (\E arrived \in BOOLEAN : Pursue(arrived)) \/ Request
               \/ ReportHome
      <3>1. UNCHANGED <<dumpVars, returning, targets>>
        BY <2>2 DEF OnTargetDone, LeaveTarget, Abandon, Pursue, Request, ReportHome
      <3> QED
        BY <3>1, HaulFrame
    <2>3. CASE DriverTargets
      <3>1. targets # RockCount /\ (~returning' \/ targets = 0) /\ UNCHANGED dumpVars
        BY <1>2, <2>3, RocksOut DEF DriverTargets, Counts
      <3>2. ~returning'
        BY <1>2, <2>3, <3>1 DEF DriverTargets, Latches
      <3> QED
        BY <3>1, <3>2, DumpFrame DEF Phase
    <2>4. CASE OnMissionDone
      <3>1. /\ ~returning /\ returning' /\ targets = RockCount /\ targets' = targets
            /\ UNCHANGED dumpVars
        BY <1>2, <2>4 DEF OnMissionDone, Latches
      <3> QED
        BY <3>1, DumpFrame DEF Phase, Haul!Next, Haul!GoHome
    <2>5. CASE ArmFinishes \/ (\E n \in 1..Len(armCmd) : ServeArmCmd(n))
      <3>1. UNCHANGED <<RockCount, harvest, returning, targets>> /\ (Ready' <=> Ready)
        BY <2>5 DEF ArmFinishes, Loaded, ServeArmCmd, RockCount, Ready
      <3> QED
        BY <3>1 DEF Phase
    <2>6. CASE ServeTrailerCmd
      <3>1. Ready /\ returning /\ targets = RockCount
        BY <1>2, <2>6 DEF ServeTrailerCmd, DumpAtHome, HomeWithAll
      <3>2. ~Ready' /\ harvest' = harvest
        BY <2>6, <3>1 DEF ServeTrailerCmd, RequestTrailerDump, Ready
      <3> QED
        BY <3>1, <3>2 DEF Phase, Haul!Next, Haul!Tip
    <2>7. CASE Trailer
      <3>1. /\ UNCHANGED <<returning, targets>>
            /\ \/ harvest' = harvest /\ RockCount' = RockCount /\ (Ready' <=> Ready)
               \/ ~Ready /\ Ready' /\ harvest' = harvest + 1 /\ RockCount' > RockCount
        BY <1>2, <2>7, TrailerStep DEF Trailer, Counts
      <3>2. CASE harvest' = harvest /\ RockCount' = RockCount /\ (Ready' <=> Ready)
        BY <3>1, <3>2 DEF Phase
      <3>3. CASE ~Ready /\ Ready' /\ harvest' = harvest + 1 /\ RockCount' > RockCount
        <4>1. targets' # RockCount'
          <5>1. targets' = targets /\ targets \in Int /\ RockCount \in Int /\ targets <= RockCount
            BY <1>2, <3>1, RocksOut DEF Counts
          <5>2. RockCount' \in Int
            BY <1>2, <3>3, OutGrows DEF Counts, RockCount
          <5> QED
            BY <3>3, <5>1, <5>2
        <4> QED
          BY <3>3, <4>1 DEF Phase, Haul!Next, Haul!GoOut
      <3> QED
        BY <3>1, <3>2, <3>3
    <2> QED
      BY <1>2, <2>1, <2>2, <2>3, <2>4, <2>5, <2>6, <2>7 DEF Next, Driver, Simulation
  <1> QED
    BY MissionInvariance, <1>1, <1>2, PTL DEF Spec, ImplementsHaul, Haul!Spec

----------------------------------------------------------------------------
(* Every request is answered.                                              *)

\* What the manipulator was asked, works on or has answered is the driver's target or a
\* rock the driver has left; and of the target only the answer may still be missing.
Answering ==
    /\ answers \in Nat
    /\ requested => waiting
    /\ target \notin finished /\ NoTarget \notin finished
    /\ completed \cup Asked \subseteq finished \cup {target}
    /\ Working => active.target \in finished \cup {target}
    /\ target \in completed => answers > 0
    /\ waiting /\ requested /\ Skipped = {} =>
          answers > 0 \/ (Working /\ active.target = target) \/ target \in Asked

\* Only the head of the queue is taken off.
LEMMA HeadAsked ==
    ASSUME requests \in Seq(Int), requests # <<>>, requests' = Tail(requests)
    PROVE  Asked \subseteq Asked' \cup {Head(requests)}
  <1> SUFFICES ASSUME NEW i \in DOMAIN requests, requests[i] # Head(requests)
               PROVE  requests[i] \in Asked'
    BY DEF Asked
  <1>1. requests' \in Seq(Int) /\ Len(requests') = Len(requests) - 1 /\ Len(requests) > 0
    OBVIOUS
  <1>2. i \in 1..Len(requests) /\ i # 1
    OBVIOUS
  <1>3. i - 1 \in DOMAIN requests' /\ requests'[i - 1] = requests[i]
    BY <1>1, <1>2
  <1> QED BY <1>3 DEF Asked

\* An answer to a rock that is asked for or worked on keeps the rover from waiting in vain.
LEMMA AnswerIsSent ==
    ASSUME Announced, Answering, NEW t \in finished \cup {target}, PublishTargetDone(t),
           Asked' \subseteq Asked, active' \in {active, Inactive}, UNCHANGED driver
    PROVE  Answering'
  <1>1. completed' = completed \cup {t} /\ answers' = answers + 1
    BY DEF PublishTargetDone
  <1>2. Working' => Working /\ active' = active
    BY DEF Working
  <1> QED BY <1>1, <1>2 DEF Answering

LEMMA LeaveTargetAnswers ==
    ASSUME MissionInv, Answering, LeaveTarget, target # NoTarget,
           UNCHANGED <<manipulator, requests>>, answers' \in Nat
    PROVE  Answering'
  <1>1. NoTarget \notin completed
    BY DEF MissionInv, Announced, Known, NoTarget, Counts
  <1> QED BY <1>1, TopicFrame DEF LeaveTarget, Answering, NoTarget

LEMMA DriverAnswers ==
    ASSUME MissionInv, Answering, Driver
    PROVE  Answering'
  <1> USE TopicFrame
  <1>0. NoTarget \notin Known
    BY DEF Known, NoTarget, MissionInv, Counts
  <1>1. CASE DriverTargets \/ OnMissionDone \/ ReportHome
    BY <1>1 DEF DriverTargets, OnMissionDone, ReportHome, Answering, Skipped
  <1>2. CASE OnTargetDone
    <2>1. CASE target # NoTarget
      BY <1>2, <2>1, LeaveTargetAnswers DEF OnTargetDone, Answering
    <2>2. CASE target = NoTarget
      <3>1. ~waiting /\ target \notin completed
        BY <1>0, <2>2 DEF MissionInv, Announced
      <3> QED BY <1>2, <2>2, <3>1 DEF OnTargetDone, Answering
    <2> QED BY <2>1, <2>2
  <1>3. CASE Abandon
    BY <1>3, LeaveTargetAnswers DEF Abandon, Answering
  <1>4. ASSUME NEW arrived \in BOOLEAN, Pursue(arrived)
        PROVE  Answering'
    <2>1. ~waiting /\ ~requested /\ UNCHANGED <<manipulator, requests, answers, requested, finished>>
      BY <1>4 DEF Pursue, Answering
    <2>2. CASE target # NoTarget
      BY <1>4, <2>1, <2>2 DEF Pursue, Answering
    <2>3. CASE target = NoTarget
      <3>1. target' \notin finished
        BY <1>4, <2>3 DEF Pursue, Remaining
      <3>2. completed \cup Asked \subseteq finished /\ (Working => active.target \in finished)
        BY <1>0, <2>3 DEF MissionInv, Announced, Answering
      <3> QED BY <2>1, <3>1, <3>2 DEF Answering
    <2> QED BY <2>2, <2>3
  <1>5. CASE Request
    <2>1. requests \in Seq(Int) /\ target \in Int
      BY <1>5 DEF Request, MissionInv, Messages, Announced, Known
    <2>2. Asked' = Asked \cup {target}
      BY <1>5, <2>1 DEF Request, Asked
    <2> QED BY <1>5, <2>2 DEF Request, Answering
  <1> QED BY <1>1, <1>2, <1>3, <1>4, <1>5 DEF Driver

LEMMA ManipulatorAnswers ==
    ASSUME MissionInv, Answering, Manipulator
    PROVE  Answering'
  <1> USE TopicFrame DEF MissionInv
  <1>1. CASE ManipulatorTargets \/ Republish \/ OnAtHome
    BY <1>1 DEF ManipulatorTargets, Republish, OnAtHome, Answering, Skipped, Working
  <1>2. CASE GiveUp
    BY <1>2, AnswerIsSent DEF GiveUp, Answering, Working
  <1>3. CASE OnArmStatus
    <2>1. CASE armStatus.state \in {2, 3}
      <3>1. armStatus.target = active.target /\ Working
        BY <1>3 DEF OnArmStatus, Numbering, Working
      <3>2. PublishTargetDone(active.target) /\ active' = Inactive /\ UNCHANGED <<driver, requests>>
        BY <1>3, <2>1, <3>1 DEF OnArmStatus
      <3>3. active.target \in finished \cup {target}
        BY <3>1 DEF Answering
      <3>4. Asked' = Asked /\ UNCHANGED driver /\ Announced
        BY <3>2
      <3> HIDE DEF MissionInv, driver
      <3> QED BY <3>2, <3>3, <3>4, AnswerIsSent
    <2>2. CASE armStatus.state \notin {2, 3}
      <3>1. Working /\ active' = [active EXCEPT !.seen = TRUE]
            /\ UNCHANGED <<driver, completed, answers, requests>>
        BY <1>3, <2>2 DEF OnArmStatus, Working
      <3>2. active'.target = active.target /\ active'.seen = TRUE
        BY <3>1 DEF Messages
      <3>3. Working'
        BY <3>2 DEF Working, Inactive
      <3>4. UNCHANGED <<answers, requested, waiting, target, finished, completed, Skipped, Asked>>
        BY <3>1 DEF Skipped
      <3> QED BY <3>1, <3>2, <3>3, <3>4 DEF Answering
    <2> QED BY <2>1, <2>2
  <1>4. ASSUME NEW solvable \in BOOLEAN, OnPickupRequest(solvable)
        PROVE  Answering'
    <2> DEFINE t == Head(requests)
    <2>1. /\ t \in Asked /\ Asked' \subseteq Asked /\ Asked \subseteq Asked' \cup {t}
          /\ UNCHANGED driver
      BY <1>4, TailAsked, HeadAsked DEF OnPickupRequest, Messages
    <2>2. t \in finished \cup {target}
      BY <2>1 DEF Answering
    <2>3. CASE t \in completed \/ Working
      <3>1. UNCHANGED <<manipulator, answers>>
        BY <1>4, <2>3 DEF OnPickupRequest, Working
      \* The driver has not left what is being worked on: it would be skipped.
      <3>2. Working /\ Skipped = {} => active.target = target
        BY DEF Numbering, Answering, Skipped
      <3> QED BY <2>1, <2>3, <3>1, <3>2 DEF Answering, Skipped, Working
    <2>4. CASE t \notin completed /\ ~Working /\ ~solvable
      <3>1. PublishTargetDone(t) /\ UNCHANGED active
        BY <1>4, <2>4 DEF OnPickupRequest, Working
      <3> QED BY <2>1, <2>2, <3>1, AnswerIsSent
    <2>5. CASE t \notin completed /\ ~Working /\ solvable
      <3>1. active' = [seq |-> commandSeq', target |-> t, seen |-> FALSE]
            /\ commandSeq' = commandSeq + 1 /\ UNCHANGED <<completed, answers>>
        BY <1>4, <2>5 DEF OnPickupRequest, Working
      <3>2. Working' /\ active'.target = t
        BY <3>1 DEF Working, Inactive, Messages
      <3>3. ASSUME waiting, requested, Skipped = {}
            PROVE  answers > 0 \/ active'.target = target \/ target \in Asked'
        BY <2>1, <2>5, <3>2, <3>3 DEF Answering
      <3>4. UNCHANGED <<answers, requested, waiting, target, finished, completed, Skipped>>
        BY <2>1, <3>1 DEF Skipped
      <3> HIDE DEF t
      <3> QED BY <2>1, <2>2, <3>2, <3>3, <3>4 DEF Answering
    <2> QED BY <2>3, <2>4, <2>5
  <1> QED BY <1>1, <1>2, <1>3, <1>4 DEF Manipulator

\* manipulator_controller.py: "answer every pickup request with target_done".  As long as
\* the driver skips nothing, a rover that waits has its request, its command or its answer
\* under way, whatever is refused, fails or times out.
THEOREM RequestsAnswered == Spec => []RequestIsAnswered
  <1>1. Init => Answering
    BY DEF Init, Answering, Asked, Working, NoTarget
  <1>2. MissionInv /\ Answering /\ [Next]_vars => Answering'
    <2> SUFFICES ASSUME MissionInv, Answering, [Next]_vars PROVE Answering'
      OBVIOUS
    <2>1. CASE Simulation \/ UNCHANGED vars
      <3>1. UNCHANGED <<driver, manipulator, requests, answers>>
        BY <2>1
        DEF Simulation, ServeArmCmd, ArmFinishes, ServeTrailerCmd, Trailer, vars
      <3> QED BY <3>1, TopicFrame DEF Answering, Skipped
    <2> QED BY <2>1, DriverAnswers, ManipulatorAnswers DEF Next
  <1>3. MissionInv /\ Answering => RequestIsAnswered
    <2> SUFFICES ASSUME MissionInv, Answering, waiting /\ requested /\ Skipped = {}, answers = 0,
                        active.target # target
                 PROVE  \E i \in 1..Len(requests) : requests[i] = target
      BY DEF RequestIsAnswered, Answering
    <2>1. target \in Asked /\ DOMAIN requests = 1..Len(requests)
      BY DEF Answering, MissionInv, Messages
    <2> QED BY <2>1 DEF Asked
  <1> QED BY <1>1, <1>2, <1>3, MissionInvariance, PTL DEF Spec
----------------------------------------------------------------------------
(* Types of the mission. *)

\* What TypeOK adds to MissionInv and DumpTypeOK: the driver ticks off rocks that are out,
\* and the command topic stays within its depth.
TickedOff == finished \subseteq Out /\ Len(armCmd) <= Depth

\* The rocks that are out stay out.
LEMMA OutKept ==
    ASSUME MissionInv, [Next]_vars
    PROVE  Out \subseteq Out'
  <1>1. harvest \in Nat /\ RockCount \in Nat /\ RockCount > 0
    BY RocksOut DEF MissionInv, Counts
  <1>2. CASE RockCount' = RockCount
    BY <1>2 DEF Out
  <1>3. CASE RockCount' # RockCount
    <2>1. ~UNCHANGED dumpVars
      BY <1>3, DumpFrame
    <2>2. AdvanceDumpCycle \/ Slide \/ Freeze
      <3>1. ~(UNCHANGED vars) /\ ~Driver /\ ~Manipulator
        BY <2>1
        DEF vars, Driver, DriverTargets, OnTargetDone, OnMissionDone, Abandon, Pursue, Request,
            ReportHome, Manipulator, ManipulatorTargets, OnPickupRequest, OnArmStatus,
            Republish, GiveUp, OnAtHome
      <3>2. ~(\E n \in 1..Len(armCmd) : ServeArmCmd(n))
        BY <2>1 DEF ServeArmCmd
      <3>3. ~ArmFinishes /\ ~ServeTrailerCmd
        BY <1>3 DEF ArmFinishes, Loaded, ServeTrailerCmd, RequestTrailerDump, RockCount
      <3> QED BY <3>1, <3>2, <3>3 DEF Next, Simulation, Trailer
    <2>3. harvest' = harvest + 1
      BY <1>1, <1>3, <2>2, TrailerStep
    <2>4. /\ Out = 0..(Batch * (harvest + 1) - 1)
          /\ Out' = 0..(Batch * (harvest + 1 + 1) - 1)
      BY <2>3 DEF Out, RockCount
    <2> QED BY <1>1, <2>4, OutGrows
  <1> QED BY <1>2, <1>3

LEMMA TickedOffNext ==
    ASSUME MissionInv, TickedOff, [Next]_vars
    PROVE  TickedOff'
  <1>1. Depth \in Nat /\ Depth > 0
    BY MissionAssumption
  <1>2. Len(armCmd) \in Nat
    BY DEF MissionInv, Messages
  <1>3. finished' \subseteq Out'
    <2>1. finished' = finished \/ (finished' = finished \cup {target} /\ target # NoTarget)
      <3>1. CASE OnTargetDone \/ Abandon
        BY <3>1 DEF OnTargetDone, Abandon, LeaveTarget
      <3>2. CASE ~OnTargetDone /\ ~Abandon /\ Next
        <4>1. CASE Driver
          BY <3>2, <4>1
          DEF Driver, DriverTargets, OnMissionDone, Pursue, Request, ReportHome
        <4>2. CASE Manipulator
          BY <4>2
          DEF Manipulator, ManipulatorTargets, OnPickupRequest, OnArmStatus, Republish,
              GiveUp, OnAtHome
        <4>3. CASE Simulation
          BY <4>3 DEF Simulation, ServeArmCmd, ArmFinishes, ServeTrailerCmd, Trailer
        <4> QED BY <3>2, <4>1, <4>2, <4>3 DEF Next
      <3>3. CASE UNCHANGED vars
        BY <3>3 DEF vars
      <3> QED BY <3>1, <3>2, <3>3
    <2>2. target # NoTarget => target \in Out
      BY RocksOut DEF MissionInv, Counts, Out
    <2> QED BY <2>1, <2>2, OutKept DEF TickedOff
  <1>4. Len(armCmd') <= Depth
    <2>1. CASE armCmd' = armCmd
      BY <2>1 DEF TickedOff
    <2>2. ASSUME NEW x, Len(armCmd) < Depth, armCmd' = Append(armCmd, x)
          PROVE  Len(armCmd') <= Depth
      <3>1. PICK S : armCmd \in Seq(S)
        BY DEF MissionInv, Messages
      <3>2. Len(armCmd') = Len(armCmd) + 1
        BY <2>2, <3>1
      <3> QED BY <1>1, <1>2, <2>2, <3>2
    <2>3. ASSUME NEW n \in 1..Len(armCmd), armCmd' = SubSeq(armCmd, n + 1, Len(armCmd))
          PROVE  Len(armCmd') <= Depth
      <3>1. PICK S : armCmd \in Seq(S)
        BY DEF MissionInv, Messages
      <3>2. Len(armCmd') = Len(armCmd) - n
        BY <2>3, <3>1
      <3> QED BY <1>1, <1>2, <2>3, <3>2 DEF TickedOff
    <2>4. CASE UNCHANGED vars \/ Driver
      BY <2>1, <2>4
      DEF vars, Driver, DriverTargets, OnTargetDone, OnMissionDone, Abandon, Pursue, Request,
          ReportHome
    <2>5. CASE Manipulator
      BY <2>1, <2>2, <2>5
      DEF Manipulator, ManipulatorTargets, OnPickupRequest, OnArmStatus, Republish, GiveUp,
          OnAtHome
    <2>6. CASE Simulation
      BY <2>1, <2>3, <2>6
      DEF Simulation, ServeArmCmd, ArmFinishes, ServeTrailerCmd, Trailer
    <2> QED BY <2>4, <2>5, <2>6 DEF Next
  <1> QED BY <1>3, <1>4 DEF TickedOff

\* The nodes only ever name rocks that are out: what is waited for, ticked off, answered
\* and loaded, in any harvest.
THEOREM MissionTypes == Spec => []TypeOK
  <1>1. Init => TickedOff
    BY MissionAssumption DEF Init, TickedOff
  <1>2. Spec => []TickedOff
    BY <1>1, TickedOffNext, MissionInvariance, PTL DEF Spec
  <1>3. MissionInv /\ TickedOff /\ DumpTypeOK => TypeOK
    <2> SUFFICES ASSUME MissionInv, TickedOff, DumpTypeOK PROVE TypeOK
      OBVIOUS
    <2>1. RockCount \in Nat
      BY RocksOut DEF MissionInv, Counts
    <2>2. /\ targets \in 0..RockCount /\ numTargets \in 0..RockCount
          /\ target \in Out \cup {NoTarget}
      BY <2>1 DEF MissionInv, Counts, Out
    <2>3. waiting => target # NoTarget
      BY <2>1 DEF MissionInv, Counts, Announced, Known, NoTarget
    <2>4. completed \subseteq Out
      BY <2>1 DEF MissionInv, Counts, Announced, Known, Out
    <2>5. armStatus.seq <= commandSeq
      BY DEF MissionInv, Messages, Numbering
    <2> QED BY <2>2, <2>3, <2>4, <2>5 DEF TypeOK, TickedOff
  <1> QED
    BY <1>2, <1>3, MissionInvariance, MissionDumps, DumpIsSafe, PTL DEF ImplementsDump

=============================================================================
