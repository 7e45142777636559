--------------------------- MODULE ConveyorProofs ---------------------------
(***************************************************************************)
(* Theorems about the builders' lane of Conveyor, for any number of        *)
(* builders, any lane, any courses and any fetch slides: no builder laps,  *)
(* and, when every builder is heard by the one behind it, they keep their  *)
(* distance and implement Convoy.                                          *)
(***************************************************************************)
EXTENDS Conveyor, TLAPS

\* The furthest station a builder can be given.
Furthest(b) == Home[b] + Course[b] * Pitch + MaxSlide

\* What ties a builder to its station: it is told to go short of the station only, and
\* gets no further than Lag from where it was told.
OnCourse(b) ==
    /\ Home[b] <= pos[b] /\ pos[b] < station[b] + Lag
    /\ Home[b] <= station[b] /\ station[b] <= Furthest(b)
    /\ ~enabled => pos[b] = Home[b] /\ goFrom[b] = Brake
    /\ goFrom[b] # Brake => /\ Home[b] <= goFrom[b] /\ goFrom[b] < station[b]
                            /\ goFrom[b] <= pos[b] /\ pos[b] <= goFrom[b] + Lag

\* A slide is one of those that occur, or none.
Slid(b) == slide[b] \in Slides \cup {0} /\ placed[b] <= Course[b]
           /\ (busy[b] => placed[b] < Course[b])

CourseInv == TypeOK /\ \A b \in Builders : OnCourse(b) /\ Slid(b)

\* A product with the pitch grows with the number of slots.
LEMMA SlotsGrow ==
    ASSUME NEW m \in Nat, NEW n \in Nat, NEW p \in Nat, m <= n
    PROVE  m * p <= n * p /\ m * p \in Nat /\ n * p \in Nat
  <1>1. PICK d \in Nat : n = m + d
    BY n = m + (n - m)
  <1>2. n * p = m * p + d * p
    BY <1>1
  <1>3. m * p \in Nat /\ d * p \in Nat
    BY <1>1
  <1> QED BY <1>2, <1>3

\* The constants, one builder at a time.
LEMMA Constants ==
    ASSUME NEW b \in Builders
    PROVE  /\ Count \in Nat /\ Count > 1 /\ Ring \in Nat /\ Half \in Nat /\ 2 * Half <= Ring
           /\ Course[b] \in Nat /\ Course[b] > 0 /\ Pitch \in Nat /\ Pitch > 0
           /\ MaxSlide \in Nat /\ Home[b] \in Nat /\ Home[b] <= Ring
           /\ MinGap \in Nat /\ Lag \in Nat /\ Lag >= 1 /\ Lag <= MinGap
           /\ Tol \in Nat /\ Lag <= Tol + 1 /\ Deadband \in Nat
           /\ Course[b] * Pitch \in Nat /\ Course[b] * Pitch + MaxSlide + Lag < Half
           /\ Furthest(b) \in Nat
           /\ \A s \in Slides \cup {0} : s \in Int /\ -MaxSlide <= s /\ s <= MaxSlide
  <1>1. Course[b] \in Nat /\ Pitch \in Nat /\ Course[b] * Pitch \in Nat
    BY ConveyorAssumption, SlotsGrow
  <1> QED BY <1>1, ConveyorAssumption DEF Half, Furthest

\* The wanted station lies on the course.
LEMMA WantedOnCourse ==
    ASSUME CourseInv, NEW b \in Builders
    PROVE  Wanted(b) \in Int /\ Wanted(b) <= Furthest(b)
  <1>1. placed[b] \in Nat /\ placed[b] <= Course[b] /\ slide[b] \in Int /\ slide[b] <= MaxSlide
    BY Constants DEF CourseInv, Slid, TypeOK
  <1>2. placed[b] * Pitch <= Course[b] * Pitch /\ placed[b] * Pitch \in Nat
    BY <1>1, Constants, SlotsGrow
  <1> QED BY <1>1, <1>2, Constants DEF Wanted, SlotArc, Furthest

\* What a builder is told to go at lies short of its station.
LEMMA GoesShort ==
    ASSUME CourseInv, NEW b \in Builders
    PROVE  /\ Error(b) \in Int
           /\ Error(b) > Deadband => pos[b] < station[b]
           /\ ~Arrives(b) => pos[b] < station[b]
  <1>1. /\ pos[b] \in Nat /\ station[b] \in Nat
        /\ pos[b] < station[b] + Lag /\ station[b] - pos[b] < Half
    BY Constants DEF CourseInv, TypeOK, OnCourse, Furthest
  <1>2. Error(b) = station[b] - pos[b]
    BY <1>1, Constants DEF Error, Turn
  <1> QED BY <1>1, <1>2, Constants DEF Arrives

LEMMA InitCourse == Init => CourseInv
  <1> SUFFICES ASSUME Init PROVE CourseInv
    OBVIOUS
  <1>0. Home \in [Builders -> Nat] /\ MaxSlide \in Nat
    BY ConveyorAssumption
  <1>1. TypeOK
    <2>1. pos \in [Builders -> Nat] /\ station \in [Builders -> Nat]
      BY <1>0 DEF Init
    <2>2. /\ placed \in [Builders -> Nat] /\ slide \in [Builders -> -MaxSlide..MaxSlide]
          /\ \A b \in Builders : placed[b] <= Course[b]
      BY <1>0, Constants DEF Init
    <2> QED BY <2>1, <2>2 DEF Init, TypeOK
  <1>2. ASSUME NEW b \in Builders PROVE OnCourse(b) /\ Slid(b)
    BY Constants DEF Init, OnCourse, Slid, Furthest, Brake
  <1> QED BY <1>1, <1>2 DEF CourseInv

LEMMA SetStationCourse ==
    ASSUME CourseInv, NEW b \in Builders, SetStation(b)
    PROVE  CourseInv'
  <1>1. Wanted(b) \in Nat /\ Wanted(b) <= Furthest(b) /\ Wanted(b) > station[b]
    BY WantedOnCourse DEF SetStation, CourseInv, TypeOK
  <1>2. TypeOK'
    BY <1>1 DEF SetStation, CourseInv, TypeOK, courses
  <1>3. ASSUME NEW c \in Builders PROVE (OnCourse(c) /\ Slid(c))'
    <2>1. station[c] <= station'[c] /\ station'[c] <= Furthest(c) /\ station'[c] \in Nat /\ station[c] \in Nat
      BY <1>1 DEF SetStation, CourseInv, TypeOK, OnCourse
    <2>2. pos[c] \in Nat /\ goFrom[c] \in Int /\ Lag \in Nat /\ Home[c] \in Nat
      BY Constants DEF CourseInv, TypeOK, Brake
    <2> QED BY <2>1, <2>2 DEF SetStation, CourseInv, OnCourse, Slid, courses, Furthest
  <1> QED BY <1>2, <1>3 DEF CourseInv

\* The steps of the arm change the course and nothing of the hull.
LEMMA ArmCourse ==
    ASSUME CourseInv, NEW b \in Builders, Arm(b)
    PROVE  CourseInv'
  <1>0. /\ placed[b] \in 0..Course[b] /\ Course[b] \in Nat /\ slide[b] \in Slides \cup {0}
        /\ busy[b] => placed[b] < Course[b]
    BY Constants DEF CourseInv, Slid, TypeOK
  <1>1. CASE ArmStarts(b)
    BY <1>0, <1>1 DEF ArmStarts, AtWork, CourseInv, TypeOK, OnCourse, Slid, courses, controller, Furthest
  <1>2. CASE ArmSettles(b)
    BY <1>0, <1>2, Constants DEF ArmSettles, CourseInv, TypeOK, OnCourse, Slid, controller, Furthest
  <1>3. CASE ArmMisses(b)
    BY <1>0, <1>3 DEF ArmMisses, CourseInv, TypeOK, OnCourse, Slid, courses, controller, Furthest
  <1>4. ASSUME NEW arc \in Slides, Fetch(b, arc) PROVE CourseInv'
    BY <1>0, <1>4, Constants DEF Fetch, AtWork, CourseInv, TypeOK, OnCourse, Slid, controller, Furthest
  <1>5. CASE Abandon(b)
    BY <1>0, <1>5, Constants DEF Abandon, AtWork, CourseInv, TypeOK, OnCourse, Slid, controller, Furthest
  <1>6. CASE SkipUnservable(b)
    BY <1>0, <1>6, Constants DEF SkipUnservable, AtWork, CourseInv, TypeOK, OnCourse, Slid, controller, Furthest
  <1> QED BY <1>1, <1>2, <1>3, <1>4, <1>5, <1>6 DEF Arm, CourseMoves

LEMMA HearAheadCourse ==
    ASSUME CourseInv, NEW b \in Builders, HearAhead(b)
    PROVE  CourseInv'
  <1>1. AheadOf(b) \in Builders
    BY Constants DEF AheadOf, Builders
  <1> QED BY <1>1 DEF HearAhead, CourseInv, TypeOK, OnCourse, Slid, courses, Furthest

\* The timer changes the command in force only to brake or, short of the station, to go.
LEMMA TimerCommands ==
    ASSUME CourseInv, NEW b \in Builders, Timer(b)
    PROVE  /\ \/ goFrom' = [goFrom EXCEPT ![b] = Brake]
              \/ /\ goFrom' = [goFrom EXCEPT ![b] = pos[b]]
                 /\ enabled /\ ~Held(b) /\ pos[b] < station[b]
           /\ mode' \in [Builders -> {"driving", "holding", "gaveUp"}]
           /\ UNCHANGED <<enabled, pos, courses, station, busy, seenAhead>>
  <1>1. CASE TimerBrakes(b)
    BY <1>1 DEF TimerBrakes, Command, CourseInv, TypeOK, controller
  <1>2. CASE TimerDrives(b)
    BY <1>2, GoesShort DEF TimerDrives, Frozen, Command, CourseInv, TypeOK, controller
  <1>3. ASSUME NEW stalls \in BOOLEAN, TimerHolds(b, stalls)
        PROVE  /\ \/ goFrom' = [goFrom EXCEPT ![b] = Brake]
                  \/ /\ goFrom' = [goFrom EXCEPT ![b] = pos[b]]
                     /\ enabled /\ ~Held(b) /\ pos[b] < station[b]
               /\ mode' \in [Builders -> {"driving", "holding", "gaveUp"}]
               /\ UNCHANGED <<enabled, pos, courses, station, busy, seenAhead>>
    <2>1. goFrom' = [goFrom EXCEPT ![b] = IF Error(b) > Deadband /\ mode'[b] = "holding" /\ enabled
                                          THEN pos[b] ELSE Brake]
      BY <1>3 DEF TimerHolds, Command
    <2>2. \/ goFrom' = [goFrom EXCEPT ![b] = Brake]
          \/ /\ goFrom' = [goFrom EXCEPT ![b] = pos[b]]
             /\ enabled /\ Error(b) > Deadband
      BY <2>1
    <2>3. /\ mode' \in [Builders -> {"driving", "holding", "gaveUp"}] /\ ~Held(b)
          /\ UNCHANGED <<enabled, pos, courses, station, busy, seenAhead>>
      BY <1>3 DEF TimerHolds, Frozen, CourseInv, TypeOK
    <2> QED BY <2>2, <2>3, GoesShort
  <1> QED BY <1>1, <1>2, <1>3 DEF Timer

LEMMA TimerCourse ==
    ASSUME CourseInv, NEW b \in Builders, Timer(b)
    PROVE  CourseInv'
  <1>1. TypeOK'
    BY TimerCommands DEF CourseInv, TypeOK, courses
  <1>2. ASSUME NEW c \in Builders PROVE (OnCourse(c) /\ Slid(c))'
    <2>1. /\ pos[c] \in Nat /\ station[c] \in Nat /\ Lag \in Nat /\ Home[c] \in Nat
      BY Constants DEF CourseInv, TypeOK
    <2> QED BY <2>1, TimerCommands DEF CourseInv, TypeOK, OnCourse, Slid, courses, Furthest
  <1> QED BY <1>1, <1>2 DEF CourseInv

LEMMA MoveCourse ==
    ASSUME CourseInv, NEW b \in Builders, Move(b)
    PROVE  CourseInv'
  <1>1. TypeOK'
    BY DEF Move, CourseInv, TypeOK, courses, controller
  <1>2. ASSUME NEW c \in Builders PROVE (OnCourse(c) /\ Slid(c))'
    <2>1. /\ pos[c] \in Nat /\ station[c] \in Nat /\ Lag \in Nat /\ Home[c] \in Nat
          /\ goFrom[c] \in Int
      BY Constants DEF CourseInv, TypeOK, Brake
    <2> QED BY <2>1 DEF Move, CourseInv, TypeOK, OnCourse, Slid, courses, Furthest
  <1> QED BY <1>1, <1>2 DEF CourseInv

LEMMA EnableCourse ==
    ASSUME CourseInv, Enable
    PROVE  CourseInv'
  BY DEF Enable, CourseInv, TypeOK, OnCourse, Slid, courses, controller, Furthest

LEMMA StepCourse == CourseInv /\ [Next]_vars => CourseInv'
  <1> SUFFICES ASSUME CourseInv, [Next]_vars PROVE CourseInv'
    OBVIOUS
  <1>1. CASE Enable
    BY <1>1, EnableCourse
  <1>2. ASSUME NEW b \in Builders,
               SetStation(b) \/ Arm(b) \/ HearAhead(b) \/ Timer(b) \/ Move(b)
        PROVE CourseInv'
    BY <1>2, SetStationCourse, ArmCourse, HearAheadCourse, TimerCourse, MoveCourse
  <1>3. CASE UNCHANGED vars
    BY <1>3 DEF vars, courses, controller, CourseInv, TypeOK, OnCourse, Slid, Furthest
  <1> QED BY <1>1, <1>2, <1>3 DEF Next

\* The lane never leaves its types: no course is overrun, no slide exceeds its limit.
THEOREM TypeCorrect == Spec => []TypeOK
  <1>1. CourseInv => TypeOK
    BY DEF CourseInv
  <1> QED BY <1>1, InitCourse, StepCourse, PTL DEF Spec

\* No builder ever runs past its station by more than the lag of its commands, so none
\* ever reads a station just behind it as a lap to drive.
THEOREM NobodyLaps == Spec => []NoLap
  <1>1. CourseInv => NoLap
    BY DEF CourseInv, OnCourse, NoLap
  <1> QED BY <1>1, InitCourse, StepCourse, PTL DEF Spec

----------------------------------------------------------------------------
(* The distances, when the one behind hears the one in front. *)

\* The position b last heard of the machine in front, on the scale of its own.
Front(b) == IF b = Count THEN seenAhead[b] + Ring ELSE seenAhead[b]

\* What b knows of the machine in front is behind its true position, and b was told to
\* go with MinGap before it only.
Spaced(b) ==
    /\ enabled => seenAhead[b] # NoNews
    /\ seenAhead[b] # NoNews =>
        /\ Home[AheadOf(b)] <= seenAhead[b] /\ seenAhead[b] <= pos[AheadOf(b)]
        /\ pos[b] + MinGap <= Front(b) + Lag
        /\ goFrom[b] # Brake => goFrom[b] + MinGap <= Front(b)

LaneInv == CourseInv /\ \A b \in Builders : Spaced(b)

EveryoneHeard == Silent = {}

\* The machine in front is one of the builders, and starts out MinGap ahead.
LEMMA InFront ==
    ASSUME NEW b \in Builders
    PROVE  /\ AheadOf(b) \in Builders /\ AheadOf(b) # b
           /\ b = Count => Home[AheadOf(b)] + Ring - Home[b] >= MinGap
           /\ b # Count => Home[AheadOf(b)] - Home[b] >= MinGap
  <1>1. Count \in Nat /\ Count > 1 /\ Home \in [Builders -> 0..Ring] /\ Ring \in Nat
    BY ConveyorAssumption
  <1>2. CASE b = Count
    <2>1. AheadOf(b) = 1 /\ 1 \in Builders /\ Home[1] + Ring - Home[Count] >= MinGap
      BY <1>1, <1>2, ConveyorAssumption DEF AheadOf, Builders
    <2> QED BY <1>1, <1>2, <2>1
  <1>3. CASE b # Count
    <2>1. AheadOf(b) = b + 1 /\ b + 1 \in Builders /\ b + 1 # b
      BY <1>1, <1>3 DEF AheadOf, Builders
    <2>2. Home[b + 1] - Home[b] >= MinGap
      BY <1>3, ConveyorAssumption
    <2> QED BY <1>3, <2>1, <2>2
  <1> QED BY <1>2, <1>3

LEMMA InitSpaced == Init => LaneInv
  <1> SUFFICES ASSUME Init PROVE LaneInv
    OBVIOUS
  <1>1. ASSUME NEW b \in Builders PROVE Spaced(b)
    BY DEF Init, Spaced
  <1> QED BY <1>1, InitCourse DEF LaneInv

\* A builder that is not held has MinGap before it.
LEMMA RoomAhead ==
    ASSUME LaneInv, NEW b \in Builders, enabled, ~Held(b)
    PROVE  pos[b] + MinGap <= Front(b)
  <1>1. /\ seenAhead[b] \in Nat /\ seenAhead[b] # NoNews /\ pos[b] \in Nat
        /\ pos[b] + MinGap <= Front(b) + Lag
    BY DEF LaneInv, CourseInv, TypeOK, Spaced, NoNews
  <1>2. /\ Lag \in Nat /\ MinGap \in Nat /\ Lag <= MinGap /\ Ring \in Nat
    BY Constants
  <1>3. ~(Forward(seenAhead[b] - pos[b]) < MinGap)
    BY <1>1 DEF Held
  <1> QED BY <1>1, <1>2, <1>3 DEF Forward, Front

LEMMA TimerSpaced ==
    ASSUME LaneInv, NEW b \in Builders, Timer(b), NEW c \in Builders
    PROVE  Spaced(c)'
  <1>1. CourseInv /\ Spaced(c) /\ goFrom \in [Builders -> Nat \cup {Brake}]
    BY DEF LaneInv, CourseInv, TypeOK
  <1>2. CASE goFrom'[c] = goFrom[c] \/ goFrom'[c] = Brake
    BY <1>1, <1>2, TimerCommands DEF Spaced, Front
  <1>3. CASE goFrom'[c] # goFrom[c] /\ goFrom'[c] # Brake
    <2>1. c = b /\ goFrom'[c] = pos[c] /\ enabled /\ ~Held(b)
      BY <1>1, <1>3, TimerCommands
    <2>2. pos[c] + MinGap <= Front(c)
      BY <2>1, RoomAhead
    <2> QED BY <1>1, <2>1, <2>2, TimerCommands DEF Spaced, Front
  <1> QED BY <1>2, <1>3

LEMMA MoveSpaced ==
    ASSUME LaneInv, NEW b \in Builders, Move(b), NEW c \in Builders
    PROVE  Spaced(c)'
  <1>1. /\ Spaced(c) /\ AheadOf(c) \in Builders
        /\ pos \in [Builders -> Nat] /\ goFrom[c] \in Nat \cup {Brake}
        /\ seenAhead[c] \in Nat \cup {NoNews}
    BY InFront DEF LaneInv, CourseInv, TypeOK
  <1>2. Lag \in Nat /\ MinGap \in Nat /\ Ring \in Nat /\ Home[AheadOf(c)] \in Nat
    BY <1>1, Constants
  <1>3. /\ pos[AheadOf(c)] <= pos'[AheadOf(c)] /\ pos'[AheadOf(c)] \in Nat
        /\ UNCHANGED <<enabled, goFrom, seenAhead>>
    BY <1>1 DEF Move, controller
  <1>4. CASE c = b
    <2>1. pos'[c] = pos[c] + 1 /\ goFrom[c] # Brake /\ pos[c] < goFrom[c] + Lag
      BY <1>1, <1>4 DEF Move
    <2> QED BY <1>1, <1>2, <1>3, <2>1 DEF Spaced, Front, Brake, NoNews
  <1>5. CASE c # b
    <2>1. pos'[c] = pos[c]
      BY <1>1, <1>5 DEF Move
    <2> QED BY <1>1, <1>2, <1>3, <2>1 DEF Spaced, Front
  <1> QED BY <1>4, <1>5

LEMMA HearAheadSpaced ==
    ASSUME LaneInv, NEW b \in Builders, HearAhead(b), NEW c \in Builders
    PROVE  Spaced(c)'
  <1>1. /\ Spaced(c) /\ OnCourse(c) /\ AheadOf(c) \in Builders /\ OnCourse(AheadOf(c))
        /\ pos \in [Builders -> Nat] /\ goFrom[c] \in Nat \cup {Brake}
        /\ seenAhead \in [Builders -> Nat \cup {NoNews}]
    BY InFront DEF LaneInv, CourseInv, TypeOK
  <1>2. Lag \in Nat /\ MinGap \in Nat /\ Ring \in Nat /\ Home[AheadOf(c)] \in Nat /\ Home[c] \in Nat
    BY <1>1, Constants
  <1>3. UNCHANGED <<enabled, pos, goFrom>>
    BY DEF HearAhead
  <1>4. CASE c # b
    <2>1. seenAhead'[c] = seenAhead[c]
      BY <1>1, <1>4 DEF HearAhead
    <2> QED BY <1>1, <1>3, <2>1 DEF Spaced, Front
  <1>5. CASE c = b
    <2>1. seenAhead'[c] = pos[AheadOf(c)]
      BY <1>1, <1>5 DEF HearAhead
    <2>2. CASE seenAhead[c] # NoNews
      BY <1>1, <1>2, <1>3, <2>1, <2>2 DEF Spaced, Front, NoNews
    <2>3. CASE seenAhead[c] = NoNews
      <3>1. ~enabled /\ pos[c] = Home[c] /\ goFrom[c] = Brake /\ Home[AheadOf(c)] <= pos[AheadOf(c)]
        BY <1>1, <2>3 DEF Spaced, OnCourse
      <3> QED BY <1>1, <1>2, <1>3, <2>1, <3>1, InFront DEF Spaced, Front, NoNews
    <2> QED BY <2>2, <2>3
  <1> QED BY <1>4, <1>5

LEMMA StepSpaced == ASSUME EveryoneHeard PROVE LaneInv /\ [Next]_vars => LaneInv'
  <1> SUFFICES ASSUME LaneInv, [Next]_vars, NEW c \in Builders
               PROVE  Spaced(c)'
    BY StepCourse DEF LaneInv
  <1>0. Spaced(c) /\ AheadOf(c) \in Builders
    BY InFront DEF LaneInv
  <1>1. CASE Enable
    BY <1>0, <1>1 DEF Enable, controller, EveryoneHeard, Spaced, Front
  <1>2. ASSUME NEW b \in Builders, SetStation(b) PROVE Spaced(c)'
    BY <1>0, <1>2 DEF SetStation, Spaced, Front
  <1>3. ASSUME NEW b \in Builders, Arm(b) PROVE Spaced(c)'
    BY <1>0, <1>3 DEF Arm, ArmStarts, ArmSettles, ArmMisses, Fetch, CourseMoves, Abandon,
       SkipUnservable, controller, Spaced, Front
  <1>4. ASSUME NEW b \in Builders, HearAhead(b) \/ Timer(b) \/ Move(b) PROVE Spaced(c)'
    BY <1>4, HearAheadSpaced, TimerSpaced, MoveSpaced
  <1>5. CASE UNCHANGED vars
    BY <1>0, <1>5 DEF vars, controller, Spaced, Front
  <1> QED BY <1>1, <1>2, <1>3, <1>4, <1>5 DEF Next

\* Spaced machines are apart: what is known of the one in front never flatters.
LEMMA SpacedApart == LaneInv => SeparationKept
  <1> SUFFICES ASSUME LaneInv, NEW b \in Builders PROVE Gap(b) >= MinGap - Lag
    BY DEF SeparationKept
  <1>1. /\ Spaced(b) /\ OnCourse(b) /\ AheadOf(b) \in Builders /\ OnCourse(AheadOf(b))
        /\ pos \in [Builders -> Nat] /\ seenAhead[b] \in Nat \cup {NoNews}
    BY InFront DEF LaneInv, CourseInv, TypeOK
  <1>2. /\ Lag \in Nat /\ MinGap \in Nat /\ Ring \in Nat /\ Home[b] \in Nat
        /\ Home[AheadOf(b)] \in Nat /\ Count \in Nat
    BY <1>1, Constants
  <1>3. Gap(b) = IF b = Count THEN pos[AheadOf(b)] + Ring - pos[b] ELSE pos[AheadOf(b)] - pos[b]
    BY DEF Gap, AheadOf
  <1>4. CASE seenAhead[b] # NoNews
    BY <1>1, <1>2, <1>3, <1>4 DEF Spaced, Front, NoNews
  <1>5. CASE seenAhead[b] = NoNews
    <2>1. pos[b] = Home[b] /\ Home[AheadOf(b)] <= pos[AheadOf(b)]
      BY <1>1, <1>5 DEF Spaced, OnCourse
    <2> QED BY <1>1, <1>2, <1>3, <2>1, InFront
  <1> QED BY <1>4, <1>5

\* When every builder is heard by the one behind it, no two ever get closer than the
\* required gap less the lag of their commands, however old what they heard is.
THEOREM Separation == ASSUME EveryoneHeard PROVE Spec => []SeparationKept
  BY InitSpaced, StepSpaced, SpacedApart, PTL DEF Spec

----------------------------------------------------------------------------
(* Conveyor implements Convoy. *)

LEMMA LaneInit == Init => Lane!Init
  <1> SUFFICES ASSUME Init PROVE Lane!Init
    OBVIOUS
  <1>1. SeparationKept /\ TypeOK
    BY InitSpaced, SpacedApart DEF LaneInv, CourseInv
  <1>2. station = pos
    BY DEF Init
  <1> QED BY <1>1, <1>2 DEF Lane!Init, Lane!Room, Lane!Machines, SeparationKept, Gap, Builders, TypeOK

\* A hull that moves advances by one on the lane, and keeps what the lane asks for.
LEMMA MoveAdvances ==
    ASSUME LaneInv, LaneInv', NEW b \in Builders, Move(b)
    PROVE  Lane!Advance(b)
  <1>1. SeparationKept'
    BY SpacedApart, PTL
  <1>2. Gap(b)' >= MinGap - Lag
    BY <1>1 DEF SeparationKept
  <1>3. Lane!Room(pos', b) >= MinGap - Lag
    BY <1>2 DEF Gap, Lane!Room
  <1>4. pos'[b] < station'[b] + Lag /\ pos'[b] \in Nat /\ station'[b] \in Nat /\ Lag \in Nat
    BY Constants DEF LaneInv, CourseInv, OnCourse, TypeOK
  <1>5. pos'[b] <= station[b] + (Lag - 1)
    BY <1>4 DEF Move
  <1> QED BY <1>3, <1>5 DEF Move, Lane!Advance

\* A new station lies ahead of the old one.
LEMMA StationAssigned ==
    ASSUME LaneInv, NEW b \in Builders, SetStation(b)
    PROVE  Lane!Assign(b)
  <1>1. station \in [Builders -> Nat]
    BY DEF LaneInv, CourseInv, TypeOK
  <1>2. station'[b] = Wanted(b) /\ Wanted(b) > station[b]
    BY <1>1 DEF SetStation
  <1> QED BY <1>2 DEF SetStation, Lane!Assign

LEMMA LaneStep == LaneInv /\ LaneInv' /\ [Next]_vars => [Lane!Next]_Lane!vars
  <1> SUFFICES ASSUME LaneInv, LaneInv', [Next]_vars PROVE [Lane!Next]_Lane!vars
    OBVIOUS
  <1>1. CASE Enable
    BY <1>1 DEF Enable, Lane!vars
  <1>2. ASSUME NEW b \in Builders, SetStation(b) PROVE Lane!Next
    BY <1>2, StationAssigned DEF Lane!Next, Lane!Machines, Builders
  <1>3. ASSUME NEW b \in Builders, Arm(b) PROVE UNCHANGED <<pos, station>>
    BY <1>3 DEF Arm, ArmStarts, ArmSettles, ArmMisses, Fetch, CourseMoves, Abandon, SkipUnservable
  <1>4. ASSUME NEW b \in Builders, HearAhead(b) PROVE UNCHANGED <<pos, station>>
    BY <1>4 DEF HearAhead
  <1>5. ASSUME NEW b \in Builders, Timer(b) PROVE UNCHANGED <<pos, station>>
    BY <1>5, TimerCommands DEF LaneInv
  <1>6. ASSUME NEW b \in Builders, Move(b) PROVE Lane!Next
    BY <1>6, MoveAdvances DEF Lane!Next, Lane!Machines, Builders
  <1>7. CASE UNCHANGED vars
    BY <1>7 DEF vars, Lane!vars
  <1> QED BY <1>1, <1>2, <1>3, <1>4, <1>5, <1>6, <1>7 DEF Next, Lane!vars

\* The builders are a convoy: stations never retreat, and a hull only ever moves up,
\* towards its station and behind the machine in front.
THEOREM BuildersFormConvoy == ASSUME EveryoneHeard PROVE Spec => ImplementsConvoy
  <1>1. Spec => []LaneInv
    BY InitSpaced, StepSpaced, PTL DEF Spec
  <1>2. Spec => Lane!Spec
    BY <1>1, LaneInit, LaneStep, PTL DEF Spec, Lane!Spec
  <1> QED BY <1>2 DEF ImplementsConvoy

=============================================================================
