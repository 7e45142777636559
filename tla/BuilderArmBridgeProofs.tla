----------------------- MODULE BuilderArmBridgeProofs -----------------------
(***************************************************************************)
(* Theorems about the builder's arm bridge, for any set of rocks, length   *)
(* of the course, geometry and number of attempts.  What concerns a single *)
(* cycle and the course alone holds whatever commands come; what is        *)
(* promised of the wall holds as long as no command comes between the      *)
(* arm's finishing and the booking of its cycle (~LateCommands).           *)
(***************************************************************************)
EXTENDS BuilderArmBridge, FiniteSetTheorems, TLAPS

\* The cycle in hand: what the bridge remembers of it agrees with the arm and with
\* the course, and its rock is booked.
CycleInHand ==
    /\ activeSlot >= 0 <=> activeRock \in Rocks
    /\ target = activeRock
    /\ settledSeq <= lastSeq
    /\ activeSlot >= 0 => settledSeq < lastSeq
    /\ activeRock \in Rocks => activeRock \in consumed /\ attempts[activeRock] < MaxAttempts

\* Where a loop iteration may find a cycle in hand: past the booking only while the
\* arm is still busy with it.
Staging ==
    /\ Busy => activeSlot >= 0
    /\ arm = "idle" => activeSlot = -1
    /\ pc \in {"command", "book"} => enabled
    /\ ~enabled => activeSlot = -1
    /\ pc \in {"publish", "advance"} /\ activeSlot >= 0 => Busy

\* The stones released so far lie behind the course, the one in hand excepted.
Stones ==
    /\ \A r \in Rocks : laid[r] >= 0 => r \in consumed
    /\ \A r \in Rocks : laid[r] >= 0 /\ r # activeRock => laid[r] < placed
    /\ activeSlot >= 0 =>
           laid[activeRock] = IF arm \in {"released", "done"} THEN activeSlot ELSE -1

\* The inductive invariant.
BridgeInv ==
    /\ TypeOK /\ CycleInHand /\ Staging /\ Stones
    /\ OneDynamicRock /\ CourseWaitsForArm /\ OneStonePerSlot /\ BoundedRetries

----------------------------------------------------------------------------
(* The ways the course moves without a stone.                              *)

Courses == [placed : 0..NSlots, offset : Int, offsetSlot : Slots \cup {-1},
            starved : BOOLEAN, open : BOOLEAN]

\* d is c, or c with the course moved on, which an idle arm allows.
MovesOn(c, d) == d.placed = c.placed \/ (Idling /\ c.placed < d.placed)

\* The unservable skip gives up one slot at most, with the arm idle.
LEMMA SkipMovesOn ==
    ASSUME TypeOK, NEW c \in Courses, NEW over \in BOOLEAN
    PROVE  SkipUnservable(c, over) \in Courses /\ MovesOn(c, SkipUnservable(c, over))
  BY BridgeAssumption DEF SkipUnservable, Courses, MovesOn, TypeOK

\* The starvation clock does not touch the course.
LEMMA ResetKeeps ==
    ASSUME NEW c \in Courses
    PROVE  ResetStarved(c) \in Courses /\ ResetStarved(c).placed = c.placed
  BY DEF ResetStarved, Courses

\* A slide is a whole number of pitches.
LEMMA SlideType ==
    ASSUME TypeOK, NEW r \in Rocks
    PROVE  Slide(r) \in Int
  BY BridgeAssumption DEF Slide, Clamp, Lesser, Greater, TypeOK

\* A fetch slides the station, not the course.
LEMMA FetchKeeps ==
    ASSUME TypeOK, NEW c \in Courses, NEW r \in Rocks \cup {NoRock}
    PROVE  Fetch(c, r) \in Courses /\ Fetch(c, r).placed = c.placed
  <1>1. CASE Fetch(c, r) = c
    BY <1>1
  <1>2. CASE Fetch(c, r) # c
    <2>1. /\ Starving(c) /\ r \in Rocks
          /\ Fetch(c, r) = [c EXCEPT !.offset = Slide(r), !.offsetSlot = c.placed]
      BY <1>2 DEF Fetch
    <2>2. Slide(r) \in Int
      BY <2>1, SlideType
    <2>3. c.placed \in Slots
      BY <2>1, BridgeAssumption DEF Starving, Courses, Slots
    <2> QED BY <2>1, <2>2, <2>3 DEF Courses
  <1> QED BY <1>1, <1>2

\* A resynchronisation moves the course forward and not past its end.
LEMMA ResyncMovesOn ==
    ASSUME TypeOK, NEW c \in Courses
    PROVE  Resync(c) \in Courses /\ MovesOn(c, Resync(c))
  <1>1. CASE Resync(c) = c
    BY <1>1 DEF MovesOn
  <1>2. CASE Resync(c) # c
    <2> DEFINE end == Lesser(c.placed + Past(c), NSlots)
    <2>1. /\ Starving(c) /\ Past(c) > Overshoot
          /\ Resync(c) = ResumeAt(end, FALSE)
      BY <1>2 DEF Resync
    <2>2. Past(c) \in Int /\ c.placed \in 0..NSlots /\ c.placed < NSlots
      BY <2>1, BridgeAssumption DEF Past, Courses, TypeOK, Starving
    <2>3. end \in 0..NSlots /\ c.placed < end
      BY <2>1, <2>2, BridgeAssumption DEF Lesser
    <2>4. Resync(c) \in Courses /\ Resync(c).placed = end
      BY <2>1, <2>3 DEF ResumeAt, Courses
    <2> QED BY <2>1, <2>3, <2>4 DEF MovesOn, Starving
  <1> QED BY <1>1, <1>2

\* A starved slot given up is one slot.
LEMMA AbandonMovesOn ==
    ASSUME TypeOK, NEW c \in Courses, NEW before \in BOOLEAN, NEW over \in BOOLEAN,
           NEW futile \in BOOLEAN
    PROVE  /\ Abandon(c, before, over, futile) \in Courses
           /\ MovesOn(c, Abandon(c, before, over, futile))
  <1> DEFINE d == Abandon(c, before, over, futile)
  <1>1. CASE /\ Starving(c) /\ c.placed < NSlots
             /\ d = ResumeAt(c.placed + 1, c.open)
    <2>1. d \in Courses /\ d.placed = c.placed + 1
      BY <1>1, BridgeAssumption DEF ResumeAt, Courses
    <2>2. Idling /\ c.placed \in Nat
      BY <1>1, BridgeAssumption DEF Starving, Courses
    <2> QED BY <2>1, <2>2 DEF MovesOn
  <1>2. CASE d = [c EXCEPT !.starved = (c.starved \/ (Starving(c) /\ c.open))]
    <2>1. (c.starved \/ (Starving(c) /\ c.open)) \in BOOLEAN
      OBVIOUS
    <2>2. d \in Courses /\ d.placed = c.placed
      BY <1>2, <2>1 DEF Courses
    <2> QED BY <2>2 DEF MovesOn
  <1> QED BY <1>1, <1>2 DEF Abandon, Starving

\* One publication: the course stays or moves forward under an idle arm, and the
\* variables that describe it keep their types.
LEMMA PublishMovesOn ==
    ASSUME TypeOK, NEW r \in Rocks \cup {NoRock}, NEW beside \in BOOLEAN,
           NEW keepoutOver \in BOOLEAN, NEW unservableOver \in BOOLEAN,
           NEW starvedOver \in BOOLEAN, NEW futile \in BOOLEAN,
           Publish(r, beside, keepoutOver, unservableOver, starvedOver, futile)
    PROVE  /\ TypeOK'
           /\ placed' = placed \/ (Idling /\ placed < placed')
  <1> DEFINE c1 == SkipUnservable(Course, unservableOver)
             c2 == ResetStarved(c1)
             c3 == Resync(Fetch(c2, r))
             c4 == Abandon(c3, c2.starved, starvedOver, futile)
  <1>1. Course \in Courses /\ Course.placed = placed
    BY DEF Course, Courses, TypeOK
  <1>2. c1 \in Courses /\ MovesOn(Course, c1)
    BY <1>1, SkipMovesOn
  <1>3. c2 \in Courses /\ c2.placed = c1.placed
    BY <1>2, ResetKeeps
  <1>4. Fetch(c2, r) \in Courses /\ Fetch(c2, r).placed = c2.placed
    BY <1>3, FetchKeeps
  <1>5. c3 \in Courses /\ MovesOn(Fetch(c2, r), c3)
    BY <1>4, ResyncMovesOn
  <1>6. c2.starved \in BOOLEAN
    BY <1>3 DEF Courses
  <1>7. c4 \in Courses /\ MovesOn(c3, c4)
    BY <1>5, <1>6, AbandonMovesOn
  <1>8. /\ placed' = c4.placed /\ offset' = c4.offset /\ offsetSlot' = c4.offsetSlot
        /\ starved' = c4.starved /\ starvedSlot' = c1.placed
        /\ spareAtStarve' \in {Cardinality(Spare), spareAtStarve}
    BY DEF Publish
  <1>9. \A c \in Courses : c.placed \in Nat
    BY BridgeAssumption DEF Courses
  <1>10. placed' = placed \/ (Idling /\ placed < placed')
    <2> HIDE DEF c1, c2, c3, c4
    <2>1. /\ c1.placed \in Nat /\ c3.placed \in Nat /\ c4.placed \in Nat /\ placed \in Nat
      BY <1>1, <1>2, <1>5, <1>7, <1>9
    <2> QED
      BY <1>1, <1>2, <1>3, <1>4, <1>5, <1>7, <1>8, <2>1 DEF MovesOn
  <1>11. TypeOK'
    <2>1. Cardinality(Spare) \in Nat
      <3>1. IsFiniteSet(Spare)
        BY FS_Subset, BridgeAssumption DEF Spare, TypeOK
      <3> QED BY <3>1, FS_CardinalityType
    <2>2. spareAtStarve' \in Nat
      BY <1>8, <2>1 DEF TypeOK
    <2>3. /\ placed' \in 0..NSlots /\ offset' \in Int
          /\ offsetSlot' \in Slots \cup {-1} /\ starved' \in BOOLEAN
      <3> HIDE DEF c4
      <3> QED BY <1>7, <1>8 DEF Courses
    <2>4. starvedSlot' \in -1..NSlots
      <3> HIDE DEF c1
      <3> QED BY <1>2, <1>8, BridgeAssumption DEF Courses
    <2>5. unservable' \in BOOLEAN
      BY DEF Publish
    <2>6. gate' \in {"off", "held", "released"} /\ pc' = "advance"
      BY DEF Publish, NextGate
    <2>7. UNCHANGED <<enabled, world, supply, consumed, attempts, cycle, armBodies>>
      BY DEF Publish
    <2> QED
      BY <2>2, <2>3, <2>4, <2>5, <2>6, <2>7
      DEF TypeOK, world, supply, cycle, armBodies
  <1> QED BY <1>10, <1>11

\* A publication leaves the cycle in hand alone, and the course with it.
LEMMA PublishInv ==
    ASSUME BridgeInv, PublishSome
    PROVE  BridgeInv'
  <1>1. PICK r \in Rocks \cup {NoRock}, beside \in BOOLEAN, keepoutOver \in BOOLEAN,
             unservableOver \in BOOLEAN, starvedOver \in BOOLEAN, futile \in BOOLEAN :
             Publish(r, beside, keepoutOver, unservableOver, starvedOver, futile)
    BY DEF PublishSome
  <1>2. TypeOK' /\ (placed' = placed \/ (Idling /\ placed < placed'))
    BY <1>1, PublishMovesOn DEF BridgeInv
  <1>3. /\ pc = "publish" /\ pc' = "advance"
        /\ UNCHANGED <<enabled, consumed, attempts, activeSlot, activeRock, lastSeq,
                       settledSeq, arm, target, fixed, laid>>
    BY <1>1 DEF Publish, cycle, armBodies
  <1>4. activeSlot >= 0 => placed' = placed
    BY <1>2, <1>3 DEF BridgeInv, TypeOK, Staging, Idling
  <1>5. placed <= placed'
    BY <1>2, BridgeAssumption DEF BridgeInv, TypeOK
  <1>6. (CycleInHand /\ Staging /\ OneDynamicRock /\ OneStonePerSlot /\ BoundedRetries)'
    BY <1>3 DEF BridgeInv, CycleInHand, Staging, OneDynamicRock, OneStonePerSlot,
       BoundedRetries, Busy
  <1>7. Stones' /\ CourseWaitsForArm'
    BY <1>2, <1>3, <1>4, <1>5, BridgeAssumption
    DEF BridgeInv, TypeOK, Stones, CourseWaitsForArm, Slots
  <1> QED BY <1>2, <1>6, <1>7 DEF BridgeInv

----------------------------------------------------------------------------
(* The other stages of the loop iteration.                                 *)

LEMMA InitInv == Init => BridgeInv
  <1> SUFFICES ASSUME Init PROVE BridgeInv
    OBVIOUS
  <1>1. TypeOK
    <2>1. at \in [Rocks -> Nat]
      BY BridgeAssumption DEF Init
    <2>2. attempts \in [Rocks -> 0..MaxAttempts]
      BY BridgeAssumption DEF Init
    <2>3. fixed \in [Rocks -> BOOLEAN] /\ laid \in [Rocks -> Slots \cup {-1}]
      BY DEF Init
    <2>4. placed \in 0..NSlots /\ starvedSlot \in -1..NSlots
      BY BridgeAssumption DEF Init
    <2>5. enabled \in BOOLEAN /\ parked \in BOOLEAN /\ starved \in BOOLEAN /\ unservable \in BOOLEAN
      BY DEF Init
    <2>6. /\ feedstock \subseteq Rocks /\ consumed \subseteq Rocks
          /\ pc = "feed" /\ gate = "off" /\ arm = "idle"
          /\ hull = 0 /\ station = 0 /\ lastSeq = 0 /\ settledSeq = 0 /\ offset = 0
          /\ spareAtStarve = 0
      BY DEF Init
    <2>7. /\ selected = NoRock /\ activeRock = NoRock /\ target = NoRock
          /\ activeSlot = -1 /\ offsetSlot = -1
      BY DEF Init
    <2> QED BY <2>1, <2>2, <2>3, <2>4, <2>5, <2>6, <2>7 DEF TypeOK
  <1>2. CycleInHand /\ Staging /\ Stones /\ CourseWaitsForArm /\ OneStonePerSlot
    BY BridgeAssumption
    DEF Init, CycleInHand, Staging, Stones, CourseWaitsForArm, OneStonePerSlot, Busy
  <1>3. OneDynamicRock /\ BoundedRetries
    BY BridgeAssumption DEF Init, OneDynamicRock, BoundedRetries
  <1> QED BY <1>1, <1>2, <1>3 DEF BridgeInv

\* A rock is offered, or written off as stranded, without touching the cycle in hand.
LEMMA FeedInv ==
    ASSUME BridgeInv, NEW delivered \in SUBSET (Rocks \ feedstock), NEW clear \in BOOLEAN,
           Feed(delivered, clear)
    PROVE  BridgeInv'
  <1>1. PICK gone \in SUBSET feedstock' :
             consumed' = consumed \cup gone /\ fixed' = [r \in Rocks |-> r \in gone \/ fixed[r]]
    BY DEF Feed, Stranded
  <1>2. /\ pc = "feed" /\ pc' = IF enabled THEN "command" ELSE "publish"
        /\ feedstock' = feedstock \cup delivered
        /\ UNCHANGED <<enabled, world, attempts, course, cycle, gate, arm, target, laid>>
    BY DEF Feed
  <1>3. selected' \in Rocks \cup {NoRock}
    BY <1>2 DEF Feed, InReach, Furthest, BridgeInv, TypeOK
  <1>4. TypeOK'
    BY <1>1, <1>2, <1>3 DEF BridgeInv, TypeOK, world, course, cycle
  <1>5. CycleInHand' /\ Staging' /\ Stones'
    BY <1>1, <1>2 DEF BridgeInv, CycleInHand, Staging, Stones, Busy, TypeOK, cycle, course
  <1>6. (OneDynamicRock /\ CourseWaitsForArm /\ OneStonePerSlot /\ BoundedRetries)'
    BY <1>1, <1>2
    DEF BridgeInv, TypeOK, OneDynamicRock, CourseWaitsForArm, OneStonePerSlot,
        BoundedRetries, cycle, course
  <1> QED BY <1>4, <1>5, <1>6 DEF BridgeInv

\* A command the bridge takes carries a number and comes with no completion unbooked.
Timely(c) == Accepts(c) => c.seq \in Nat /\ ~Unbooked

\* A step whose command, if it takes one, is timely.
TimelyNext == Loop \/ \E c : TakeCommand(c) /\ Timely(c)

\* A timely command is accepted only with no cycle in hand, so the arm has no target left
\* to set free.
LEMMA TakeCommandInv ==
    ASSUME BridgeInv, NEW c, Timely(c), TakeCommand(c)
    PROVE  BridgeInv'
  <1>1. CASE Ignore(c)
    BY <1>1
    DEF Ignore, BridgeInv, TypeOK, CycleInHand, Staging, Stones, OneDynamicRock, Busy,
        CourseWaitsForArm, OneStonePerSlot, BoundedRetries, world, supply, course, cycle,
        armBodies
  <1>2. ASSUME NEW starts \in BOOLEAN, Accept(c, starts)
        PROVE  BridgeInv'
    <2>1. /\ ~Busy /\ c.seq > lastSeq /\ c.slot = placed /\ c.slot \in Slots
          /\ c.rock \in Rocks \ consumed
      BY <1>2, BridgeAssumption
      DEF Accept, Accepts, ReadySlot, Spare, Slots, BridgeInv, TypeOK
    <2>2. c.seq \in Nat /\ ~Unbooked
      BY <1>2 DEF Accept, Timely
    <2>3. activeSlot = -1 /\ activeRock = NoRock /\ target = NoRock
      BY <2>1, <2>2 DEF Unbooked, BridgeInv, TypeOK, CycleInHand, Slots
    <2>4. \A r \in Rocks : fixed[r]
      BY <2>3, BridgeAssumption DEF BridgeInv, OneDynamicRock
    <2>5. /\ pc = "command" /\ pc' = "book"
          /\ lastSeq' = c.seq /\ activeSlot' = c.slot /\ activeRock' = c.rock
          /\ consumed' = consumed \cup {c.rock} /\ target' = c.rock
          /\ arm' = IF starts THEN "reaching" ELSE "failed"
          /\ fixed' = [r \in Rocks |-> IF r = c.rock THEN starts ELSE r # target /\ fixed[r]]
          /\ UNCHANGED <<enabled, world, supply, attempts, course, settledSeq, gate, laid>>
      BY <1>2 DEF Accept
    <2>6. TypeOK'
      BY <2>1, <2>2, <2>5 DEF BridgeInv, TypeOK, world, supply, course
    <2>7. CycleInHand'
      BY <2>1, <2>2, <2>5, BridgeAssumption
      DEF BridgeInv, TypeOK, CycleInHand, BoundedRetries, Slots
    <2>8. Staging'
      BY <2>1, <2>5 DEF BridgeInv, Staging, Busy, Slots
    <2>9. Stones'
      BY <2>1, <2>3, <2>5, BridgeAssumption DEF BridgeInv, TypeOK, Stones, Slots, course
    <2>10. OneDynamicRock' /\ CourseWaitsForArm'
      BY <2>1, <2>3, <2>4, <2>5, BridgeAssumption
      DEF OneDynamicRock, CourseWaitsForArm, course
    <2>11. OneStonePerSlot' /\ BoundedRetries'
      BY <2>5 DEF BridgeInv, OneStonePerSlot, BoundedRetries
    <2> QED BY <2>6, <2>7, <2>8, <2>9, <2>10, <2>11 DEF BridgeInv
  <1> QED BY <1>1, <1>2 DEF TakeCommand

\* Booking hands the rock back and moves the course at most to the next slot.
LEMMA BookInv ==
    ASSUME BridgeInv, Book
    PROVE  BridgeInv'
  <1>1. CASE NothingToBook
    BY <1>1
    DEF NothingToBook, Settling, BridgeInv, TypeOK, CycleInHand, Staging, Stones, Busy,
        OneDynamicRock, CourseWaitsForArm, OneStonePerSlot, BoundedRetries, world, supply,
        course, cycle, armBodies
  <1>2. ASSUME Settling, HandBack,
               (placed' = activeSlot + 1 /\ offset' = 0) \/ UNCHANGED <<placed, offset>>,
               arm = "done" =>
                   placed' = activeSlot + 1 /\ UNCHANGED <<consumed, attempts>>,
               arm = "failed" =>
                   /\ attempts' = [attempts EXCEPT ![activeRock] = @ + 1]
                   /\ \/ attempts[activeRock] + 1 < MaxAttempts
                         /\ consumed' = consumed \ {activeRock}
                      \/ UNCHANGED consumed
        PROVE  BridgeInv'
    <2>1. /\ activeSlot \in Slots /\ activeRock \in Rocks /\ activeRock \in consumed
          /\ arm \in {"done", "failed"}
          /\ placed = activeSlot /\ attempts[activeRock] < MaxAttempts
      BY <1>2 DEF Settling, BridgeInv, TypeOK, CycleInHand, CourseWaitsForArm, Slots
    <2>2. /\ pc = "book" /\ pc' = "publish"
          /\ settledSeq' = lastSeq
          /\ activeSlot' = -1 /\ activeRock' = NoRock /\ target' = NoRock
          /\ fixed' = [fixed EXCEPT ![activeRock] = TRUE]
          /\ UNCHANGED <<enabled, world, supply, lastSeq, offsetSlot, starved, starvedSlot,
                         spareAtStarve, unservable, gate, arm, laid>>
      BY <1>2 DEF HandBack
    <2>3. placed' \in 0..NSlots /\ offset' \in Int /\ placed <= placed'
      BY <1>2, <2>1, BridgeAssumption DEF BridgeInv, TypeOK, Slots
    <2>4. /\ attempts' \in [Rocks -> 0..MaxAttempts] /\ consumed' \subseteq Rocks
          /\ BoundedRetries'
      BY <1>2, <2>1, BridgeAssumption DEF BridgeInv, TypeOK, BoundedRetries
    <2>5. TypeOK'
      BY <2>2, <2>3, <2>4, ZenonT(60) DEF BridgeInv, TypeOK, world, supply
    <2>6. CycleInHand' /\ Staging' /\ CourseWaitsForArm'
      BY <2>1, <2>2, BridgeAssumption
      DEF BridgeInv, TypeOK, CycleInHand, Staging, CourseWaitsForArm, Busy
    <2>7. OneDynamicRock' /\ OneStonePerSlot'
      BY <2>1, <2>2 DEF BridgeInv, TypeOK, OneDynamicRock, OneStonePerSlot
    <2>8. Stones'
      <3>1. \A r \in Rocks : laid'[r] >= 0 => r \in consumed'
        BY <1>2, <2>1, <2>2 DEF BridgeInv, TypeOK, Stones, Slots
      <3>2. laid[activeRock] >= 0 => laid[activeRock] < placed'
        BY <1>2, <2>1 DEF BridgeInv, TypeOK, Stones, Slots
      <3>3. \A r \in Rocks : laid[r] >= 0 => laid[r] < placed'
        BY <2>1, <2>3, <3>2, BridgeAssumption DEF BridgeInv, TypeOK, Stones, Slots
      <3> QED BY <2>2, <3>1, <3>3 DEF Stones
    <2> QED BY <2>4, <2>5, <2>6, <2>7, <2>8 DEF BridgeInv
  <1>3. CASE BookLaid
    BY <1>2, <1>3 DEF BookLaid, NextSlot
  <1>4. CASE BookRetry
    BY <1>2, <1>4 DEF BookRetry
  <1>5. CASE BookWriteOff
    BY <1>2, <1>5 DEF BookWriteOff, NextSlot
  <1> QED BY <1>1, <1>3, <1>4, <1>5 DEF Book

\* The arm works on the rock of the cycle in hand and lets it go over its slot.
LEMMA AdvanceInv ==
    ASSUME BridgeInv, Advance
    PROVE  BridgeInv'
  <1>1. /\ pc = "advance" /\ pc' = "feed" /\ enabled' \in {enabled, TRUE}
        /\ UNCHANGED <<at, supply, consumed, attempts, course, cycle, gate, target>>
    BY DEF Advance
  <1>2. hull' \in Nat /\ station' \in Int /\ parked' \in BOOLEAN
    BY BridgeAssumption DEF Advance, Hull, Greater, BridgeInv, TypeOK
  <1>3. ASSUME arm' \in {"idle", "reaching", "carrying", "released", "done", "failed"},
               fixed' \in [Rocks -> BOOLEAN], laid' \in [Rocks -> Slots \cup {-1}],
               OneDynamicRock', OneStonePerSlot', Stones',
               arm' = arm \/ (Busy /\ arm' # "idle")
        PROVE  BridgeInv'
    <2>1. TypeOK'
      BY <1>1, <1>2, <1>3, ZenonT(60) DEF BridgeInv, TypeOK, supply, course, cycle
    <2>2. CycleInHand' /\ CourseWaitsForArm' /\ BoundedRetries'
      BY <1>1 DEF BridgeInv, CycleInHand, CourseWaitsForArm, BoundedRetries, cycle, course
    <2>3. Staging'
      BY <1>1, <1>3 DEF BridgeInv, Staging, Busy, cycle
    <2> QED BY <1>3, <2>1, <2>2, <2>3 DEF BridgeInv
  <1>4. ASSUME Busy
        PROVE  /\ activeSlot \in Slots /\ activeRock \in Rocks /\ target = activeRock
               /\ activeSlot = placed
    BY <1>4 DEF BridgeInv, TypeOK, Staging, CycleInHand, CourseWaitsForArm, Slots
  <1>5. CASE Grip \/ GrabFails
    <2>1. /\ arm = "reaching" /\ arm' \in {"carrying", "failed"}
          /\ fixed' = [fixed EXCEPT ![target] = FALSE] /\ UNCHANGED laid
      BY <1>5 DEF Grip, GrabFails
    <2>2. Busy /\ target = activeRock /\ activeRock \in Rocks
      BY <1>4, <2>1 DEF Busy
    <2>3. fixed' \in [Rocks -> BOOLEAN] /\ OneDynamicRock' /\ OneStonePerSlot'
      BY <1>1, <2>1, <2>2
      DEF BridgeInv, TypeOK, OneDynamicRock, OneStonePerSlot, cycle
    <2>4. Stones'
      BY <1>1, <2>1 DEF BridgeInv, Stones, cycle, course
    <2> QED BY <1>3, <2>1, <2>2, <2>3, <2>4 DEF BridgeInv, TypeOK
  <1>6. CASE Release
    <2>1. /\ arm = "carrying" /\ arm' = "released"
          /\ laid' = [laid EXCEPT ![target] = activeSlot] /\ UNCHANGED fixed
      BY <1>6 DEF Release
    <2>2. /\ Busy /\ target = activeRock /\ activeRock \in Rocks
          /\ activeSlot \in Slots /\ activeSlot = placed
      BY <1>4, <2>1 DEF Busy
    <2>3. /\ laid' \in [Rocks -> Slots \cup {-1}]
          /\ laid'[activeRock] = placed
          /\ \A r \in Rocks : r # activeRock => laid'[r] = laid[r]
      BY <2>1, <2>2 DEF BridgeInv, TypeOK
    <2>4. \A r \in Rocks : r # activeRock => laid[r] < placed
      BY <2>2, BridgeAssumption DEF BridgeInv, TypeOK, Stones, Slots
    <2>5. OneStonePerSlot'
      <3> SUFFICES ASSUME NEW r \in Rocks, NEW q \in Rocks, laid'[r] >= 0, laid'[r] = laid'[q],
                          r # q
                   PROVE  FALSE
        BY DEF OneStonePerSlot
      <3>1. CASE r = activeRock
        <4>1. laid'[r] = placed
          BY <2>3, <3>1
        <4>2. laid'[q] = laid[q] /\ laid[q] < placed
          BY <2>3, <2>4, <3>1
        <4>3. placed \in Int
          BY BridgeAssumption DEF BridgeInv, TypeOK
        <4>4. placed < placed
          BY <4>1, <4>2
        <4> QED BY <4>3, <4>4
      <3>2. CASE q = activeRock
        <4>1. laid'[q] = placed
          BY <2>3, <3>2
        <4>2. laid'[r] = laid[r] /\ laid[r] < placed
          BY <2>3, <2>4, <3>2
        <4>3. placed \in Int
          BY BridgeAssumption DEF BridgeInv, TypeOK
        <4>4. placed < placed
          BY <4>1, <4>2
        <4> QED BY <4>3, <4>4
      <3>3. CASE r # activeRock /\ q # activeRock
        BY <2>3, <3>3 DEF BridgeInv, OneStonePerSlot
      <3> QED BY <3>1, <3>2, <3>3
    <2>6. Stones'
      BY <1>1, <2>1, <2>2, <2>3 DEF BridgeInv, Stones, CycleInHand, cycle, course
    <2>7. OneDynamicRock'
      BY <1>1, <2>1 DEF BridgeInv, OneDynamicRock, cycle
    <2> QED BY <1>3, <2>1, <2>2, <2>3, <2>5, <2>6, <2>7 DEF BridgeInv, TypeOK
  <1>7. CASE Stow \/ ArmWaits
    <2>1. /\ (arm = "released" /\ arm' = "done") \/ arm' = arm
          /\ UNCHANGED <<fixed, laid>>
      BY <1>7 DEF Stow, ArmWaits
    <2>2. OneDynamicRock' /\ OneStonePerSlot' /\ Stones'
      BY <1>1, <2>1 DEF BridgeInv, OneDynamicRock, OneStonePerSlot, Stones, cycle, course
    <2> QED BY <1>3, <2>1, <2>2 DEF BridgeInv, TypeOK, Busy
  <1> QED BY <1>5, <1>6, <1>7 DEF Advance, ArmUpdate

LEMMA NextInv ==
    ASSUME BridgeInv, [TimelyNext]_vars
    PROVE  BridgeInv'
  <1>1. CASE Throttled \/ UNCHANGED vars
    BY <1>1
    DEF Throttled, vars, BridgeInv, TypeOK, CycleInHand, Staging, Stones, Busy,
        OneDynamicRock, CourseWaitsForArm, OneStonePerSlot, BoundedRetries, world, supply,
        course, cycle, armBodies
  <1> QED
    BY <1>1, FeedInv, TakeCommandInv, BookInv, PublishInv, AdvanceInv
    DEF TimelyNext, Loop

\* Without late commands every step is timely.
LEMMA NextIsTimely ==
    ASSUME ~LateCommands, BridgeInv, [Next]_vars
    PROVE  [TimelyNext]_vars
  <1>1. ASSUME NEW c \in {NoCommand} \cup [seq : {lastSeq, lastSeq + 1}, slot : Slots,
                                           rock : Rocks \cup {NoRock}],
               TakeCommand(c)
        PROVE  Timely(c)
    <2>1. c.seq \in Nat
      BY DEF NoCommand, BridgeInv, TypeOK
    <2>2. c = NoCommand => ~Accepts(c)
      BY DEF NoCommand, Accepts, BridgeInv, TypeOK
    <2> QED BY <1>1, <2>1, <2>2 DEF TakeCommand, Timely
  <1> QED BY <1>1 DEF Next, TimelyNext

----------------------------------------------------------------------------
(* Any commands.  What does not rest on the commands coming in time: late   *)
(* ones may leave a stone uncounted and a rock loose, but neither is a used *)
(* stone taken up again nor does the course move under the arm.             *)

\* A stone let go is used up, and the one in hand lies in no slot before the arm lets
\* it go.
StonesUsed ==
    /\ \A r \in Rocks : laid[r] >= 0 => r \in consumed
    /\ activeSlot >= 0 /\ arm \notin {"released", "done"} => laid[activeRock] = -1

\* The part of BridgeInv that is inductive for any commands.
HandInv ==
    /\ TypeOK /\ CycleInHand /\ Staging
    /\ CourseWaitsForArm /\ BoundedRetries /\ StonesUsed

\* A step whose command, if it takes one, carries a number.
Numbered(c) == Accepts(c) => c.seq \in Nat
AnyNext == Loop \/ \E c : TakeCommand(c) /\ Numbered(c)

LEMMA HandStarts == Init => HandInv
  <1>1. Init => StonesUsed
    BY DEF Init, StonesUsed
  <1> QED BY <1>1, InitInv DEF BridgeInv, HandInv

LEMMA FeedHand ==
    ASSUME HandInv, NEW delivered \in SUBSET (Rocks \ feedstock), NEW clear \in BOOLEAN,
           Feed(delivered, clear)
    PROVE  HandInv'
  <1>1. PICK gone \in SUBSET feedstock' :
             consumed' = consumed \cup gone /\ fixed' = [r \in Rocks |-> r \in gone \/ fixed[r]]
    BY DEF Feed, Stranded
  <1>2. /\ pc = "feed" /\ pc' = IF enabled THEN "command" ELSE "publish"
        /\ feedstock' = feedstock \cup delivered
        /\ UNCHANGED <<enabled, world, attempts, course, cycle, gate, arm, target, laid>>
    BY DEF Feed
  <1>3. selected' \in Rocks \cup {NoRock}
    BY <1>2 DEF Feed, InReach, Furthest, HandInv, TypeOK
  <1>4. TypeOK'
    BY <1>1, <1>2, <1>3 DEF HandInv, TypeOK, world, course, cycle
  <1>5. CycleInHand' /\ Staging' /\ StonesUsed'
    BY <1>1, <1>2
    DEF HandInv, CycleInHand, Staging, StonesUsed, Busy, TypeOK, cycle, course
  <1>6. CourseWaitsForArm' /\ BoundedRetries'
    BY <1>1, <1>2
    DEF HandInv, TypeOK, CourseWaitsForArm, BoundedRetries, cycle, course
  <1> QED BY <1>4, <1>5, <1>6 DEF HandInv

\* The rock of an accepted command is unused, whatever cycle it cuts short.
LEMMA TakeCommandHand ==
    ASSUME HandInv, NEW c, Numbered(c), TakeCommand(c)
    PROVE  HandInv'
  <1>1. CASE Ignore(c)
    BY <1>1
    DEF Ignore, HandInv, TypeOK, CycleInHand, Staging, StonesUsed, Busy,
        CourseWaitsForArm, BoundedRetries, world, supply, course, cycle, armBodies
  <1>2. ASSUME NEW starts \in BOOLEAN, Accept(c, starts)
        PROVE  HandInv'
    <2>1. /\ ~Busy /\ c.seq > lastSeq /\ c.slot = placed /\ c.slot \in Slots
          /\ c.rock \in Rocks \ consumed
      BY <1>2, BridgeAssumption
      DEF Accept, Accepts, ReadySlot, Spare, Slots, HandInv, TypeOK
    <2>2. c.seq \in Nat
      BY <1>2 DEF Accept, Numbered
    <2>3. laid[c.rock] = -1 /\ attempts[c.rock] < MaxAttempts
      BY <2>1, BridgeAssumption DEF HandInv, TypeOK, StonesUsed, BoundedRetries, Slots
    <2>4. /\ pc = "command" /\ pc' = "book"
          /\ lastSeq' = c.seq /\ activeSlot' = c.slot /\ activeRock' = c.rock
          /\ consumed' = consumed \cup {c.rock} /\ target' = c.rock
          /\ arm' = IF starts THEN "reaching" ELSE "failed"
          /\ fixed' = [r \in Rocks |-> IF r = c.rock THEN starts ELSE r # target /\ fixed[r]]
          /\ UNCHANGED <<enabled, world, supply, attempts, course, settledSeq, gate, laid>>
      BY <1>2 DEF Accept
    <2>5. TypeOK'
      BY <2>1, <2>2, <2>4 DEF HandInv, TypeOK, world, supply, course
    <2>6. CycleInHand'
      BY <2>1, <2>2, <2>3, <2>4, BridgeAssumption DEF HandInv, TypeOK, CycleInHand, Slots
    <2>7. Staging'
      BY <2>1, <2>4 DEF HandInv, Staging, Busy, Slots
    <2>8. StonesUsed'
      BY <2>1, <2>3, <2>4 DEF HandInv, StonesUsed
    <2>9. CourseWaitsForArm' /\ BoundedRetries'
      BY <2>1, <2>4 DEF HandInv, CourseWaitsForArm, BoundedRetries, course
    <2> QED BY <2>5, <2>6, <2>7, <2>8, <2>9 DEF HandInv
  <1> QED BY <1>1, <1>2 DEF TakeCommand

\* A rock goes back to the pool only after a failed grab, which laid no stone.
LEMMA BookHand ==
    ASSUME HandInv, Book
    PROVE  HandInv'
  <1>1. CASE NothingToBook
    BY <1>1
    DEF NothingToBook, Settling, HandInv, TypeOK, CycleInHand, Staging, StonesUsed, Busy,
        CourseWaitsForArm, BoundedRetries, world, supply, course, cycle, armBodies
  <1>2. ASSUME Settling, HandBack,
               (placed' = activeSlot + 1 /\ offset' = 0) \/ UNCHANGED <<placed, offset>>,
               arm = "done" =>
                   placed' = activeSlot + 1 /\ UNCHANGED <<consumed, attempts>>,
               arm = "failed" =>
                   /\ attempts' = [attempts EXCEPT ![activeRock] = @ + 1]
                   /\ \/ attempts[activeRock] + 1 < MaxAttempts
                         /\ consumed' = consumed \ {activeRock}
                      \/ UNCHANGED consumed
        PROVE  HandInv'
    <2>1. /\ activeSlot \in Slots /\ activeRock \in Rocks /\ activeRock \in consumed
          /\ arm \in {"done", "failed"}
          /\ placed = activeSlot /\ attempts[activeRock] < MaxAttempts
      BY <1>2 DEF Settling, HandInv, TypeOK, CycleInHand, CourseWaitsForArm, Slots
    <2>2. /\ pc = "book" /\ pc' = "publish"
          /\ settledSeq' = lastSeq
          /\ activeSlot' = -1 /\ activeRock' = NoRock /\ target' = NoRock
          /\ fixed' = [fixed EXCEPT ![activeRock] = TRUE]
          /\ UNCHANGED <<enabled, world, supply, lastSeq, offsetSlot, starved, starvedSlot,
                         spareAtStarve, unservable, gate, arm, laid>>
      BY <1>2 DEF HandBack
    <2>3. placed' \in 0..NSlots /\ offset' \in Int
      BY <1>2, <2>1, BridgeAssumption DEF HandInv, TypeOK, Slots
    <2>4. /\ attempts' \in [Rocks -> 0..MaxAttempts] /\ consumed' \subseteq Rocks
          /\ BoundedRetries'
      BY <1>2, <2>1, BridgeAssumption DEF HandInv, TypeOK, BoundedRetries
    <2>5. TypeOK'
      BY <2>2, <2>3, <2>4, ZenonT(60) DEF HandInv, TypeOK, world, supply
    <2>6. CycleInHand' /\ Staging' /\ CourseWaitsForArm'
      BY <2>1, <2>2, BridgeAssumption
      DEF HandInv, TypeOK, CycleInHand, Staging, CourseWaitsForArm, Busy
    <2>7. StonesUsed'
      BY <1>2, <2>1, <2>2 DEF HandInv, StonesUsed, Slots
    <2> QED BY <2>4, <2>5, <2>6, <2>7 DEF HandInv
  <1>3. CASE BookLaid
    BY <1>2, <1>3 DEF BookLaid, NextSlot
  <1>4. CASE BookRetry
    BY <1>2, <1>4 DEF BookRetry
  <1>5. CASE BookWriteOff
    BY <1>2, <1>5 DEF BookWriteOff, NextSlot
  <1> QED BY <1>1, <1>3, <1>4, <1>5 DEF Book

\* The course is given up only under an idle arm, which has no cycle in hand by then.
LEMMA PublishHand ==
    ASSUME HandInv, PublishSome
    PROVE  HandInv'
  <1>1. PICK r \in Rocks \cup {NoRock}, beside \in BOOLEAN, keepoutOver \in BOOLEAN,
             unservableOver \in BOOLEAN, starvedOver \in BOOLEAN, futile \in BOOLEAN :
             Publish(r, beside, keepoutOver, unservableOver, starvedOver, futile)
    BY DEF PublishSome
  <1>2. TypeOK' /\ (placed' = placed \/ (Idling /\ placed < placed'))
    BY <1>1, PublishMovesOn DEF HandInv
  <1>3. /\ pc = "publish" /\ pc' = "advance"
        /\ UNCHANGED <<enabled, consumed, attempts, activeSlot, activeRock, lastSeq,
                       settledSeq, arm, target, fixed, laid>>
    BY <1>1 DEF Publish, cycle, armBodies
  <1>4. activeSlot >= 0 => placed' = placed
    BY <1>2, <1>3 DEF HandInv, TypeOK, Staging, Idling
  <1>5. (CycleInHand /\ Staging /\ StonesUsed /\ BoundedRetries)'
    BY <1>3 DEF HandInv, CycleInHand, Staging, StonesUsed, BoundedRetries, Busy
  <1>6. CourseWaitsForArm'
    BY <1>3, <1>4 DEF HandInv, CourseWaitsForArm
  <1> QED BY <1>2, <1>5, <1>6 DEF HandInv

\* The arm lets go of the rock of the cycle in hand, over its slot.
LEMMA AdvanceHand ==
    ASSUME HandInv, Advance
    PROVE  HandInv'
  <1>1. /\ pc = "advance" /\ pc' = "feed" /\ enabled' \in {enabled, TRUE}
        /\ UNCHANGED <<at, supply, consumed, attempts, course, cycle, gate, target>>
    BY DEF Advance
  <1>2. hull' \in Nat /\ station' \in Int /\ parked' \in BOOLEAN
    BY BridgeAssumption DEF Advance, Hull, Greater, HandInv, TypeOK
  <1>3. ASSUME arm' \in {"idle", "reaching", "carrying", "released", "done", "failed"},
               fixed' \in [Rocks -> BOOLEAN], laid' \in [Rocks -> Slots \cup {-1}],
               StonesUsed', arm' = arm \/ (Busy /\ arm' # "idle")
        PROVE  HandInv'
    <2>1. TypeOK'
      BY <1>1, <1>2, <1>3, ZenonT(60) DEF HandInv, TypeOK, supply, course, cycle
    <2>2. CycleInHand' /\ CourseWaitsForArm' /\ BoundedRetries'
      BY <1>1 DEF HandInv, CycleInHand, CourseWaitsForArm, BoundedRetries, cycle, course
    <2>3. Staging'
      BY <1>1, <1>3 DEF HandInv, Staging, Busy, cycle
    <2> QED BY <1>3, <2>1, <2>2, <2>3 DEF HandInv
  <1>4. ASSUME Busy
        PROVE  activeSlot \in Slots /\ activeRock \in Rocks /\ target = activeRock
    BY <1>4 DEF HandInv, TypeOK, Staging, CycleInHand, Slots
  <1>5. CASE Grip \/ GrabFails
    <2>1. /\ arm = "reaching" /\ arm' \in {"carrying", "failed"}
          /\ fixed' = [fixed EXCEPT ![target] = FALSE] /\ UNCHANGED laid
      BY <1>5 DEF Grip, GrabFails
    <2>2. Busy
      BY <2>1 DEF Busy
    <2>3. fixed' \in [Rocks -> BOOLEAN] /\ StonesUsed'
      BY <1>1, <1>4, <2>1, <2>2 DEF HandInv, TypeOK, StonesUsed, cycle
    <2> QED BY <1>3, <2>1, <2>2, <2>3 DEF HandInv, TypeOK
  <1>6. CASE Release
    <2>1. /\ arm = "carrying" /\ arm' = "released"
          /\ laid' = [laid EXCEPT ![target] = activeSlot] /\ UNCHANGED fixed
      BY <1>6 DEF Release
    <2>2. Busy
      BY <2>1 DEF Busy
    <2>3. laid' \in [Rocks -> Slots \cup {-1}]
      BY <1>4, <2>1, <2>2 DEF HandInv, TypeOK
    <2>4. StonesUsed'
      BY <1>1, <1>4, <2>1, <2>2 DEF HandInv, TypeOK, StonesUsed, CycleInHand, cycle
    <2> QED BY <1>3, <2>1, <2>2, <2>3, <2>4 DEF HandInv, TypeOK
  <1>7. CASE Stow \/ ArmWaits
    <2>1. /\ (arm = "released" /\ arm' = "done") \/ arm' = arm
          /\ UNCHANGED <<fixed, laid>>
      BY <1>7 DEF Stow, ArmWaits
    <2>2. StonesUsed'
      BY <1>1, <2>1 DEF HandInv, StonesUsed, cycle
    <2> QED BY <1>3, <2>1, <2>2 DEF HandInv, TypeOK, Busy
  <1> QED BY <1>5, <1>6, <1>7 DEF Advance, ArmUpdate

LEMMA NextHand ==
    ASSUME HandInv, [AnyNext]_vars
    PROVE  HandInv'
  <1>1. CASE Throttled \/ UNCHANGED vars
    BY <1>1
    DEF Throttled, vars, HandInv, TypeOK, CycleInHand, Staging, StonesUsed, Busy,
        CourseWaitsForArm, BoundedRetries, world, supply, course, cycle, armBodies
  <1> QED
    BY <1>1, FeedHand, TakeCommandHand, BookHand, PublishHand, AdvanceHand
    DEF AnyNext, Loop

\* The commands of the specification are numbered.
LEMMA NextIsNumbered ==
    ASSUME HandInv, [Next]_vars
    PROVE  [AnyNext]_vars
  <1>1. ASSUME NEW c \in {NoCommand} \cup [seq : {lastSeq, lastSeq + 1}, slot : Slots,
                                           rock : Rocks \cup {NoRock}]
        PROVE  Numbered(c)
    BY DEF NoCommand, HandInv, TypeOK, Numbered
  <1> QED BY <1>1 DEF Next, AnyNext

LEMMA HandInvariant == Spec => []HandInv
  <1>1. HandInv /\ [Next]_vars => HandInv'
    BY NextIsNumbered, NextHand
  <1> QED BY <1>1, HandStarts, PTL DEF Spec

\* Whatever commands come, and whenever: the variables keep their types and no rock is
\* tried more often than max_grab_attempts allows.
THEOREM RetriesAreBounded == Spec => [](TypeOK /\ BoundedRetries)
  <1>1. HandInv => TypeOK /\ BoundedRetries
    BY DEF HandInv
  <1> QED BY <1>1, HandInvariant, PTL

\* PublishBuildTopics: no way of giving a slot up moves the course while the arm works,
\* whatever commands come.
THEOREM CourseHoldsStill == Spec => []CourseWaitsForArm
  <1>1. HandInv => CourseWaitsForArm
    BY DEF HandInv
  <1> QED BY <1>1, HandInvariant, PTL

\* A rock is freed for another attempt only when its grab failed, which leaves it in no
\* slot.
LEMMA StoneStays ==
    ASSUME HandInv, [AnyNext]_vars
    PROVE  \A r \in Rocks : laid[r] >= 0 => laid'[r] = laid[r] /\ r \in consumed'
  <1> SUFFICES ASSUME NEW r \in Rocks, laid[r] >= 0
               PROVE  laid'[r] = laid[r] /\ r \in consumed'
    OBVIOUS
  <1>1. r \in consumed
    BY DEF HandInv, StonesUsed
  <1>2. ASSUME NEW delivered \in SUBSET (Rocks \ feedstock), NEW clear \in BOOLEAN,
               Feed(delivered, clear)
        PROVE  laid'[r] = laid[r] /\ r \in consumed'
    BY <1>1, <1>2 DEF Feed
  <1>3. CASE Book
    <2>1. CASE BookLaid \/ BookWriteOff \/ NothingToBook
      BY <1>1, <2>1 DEF BookLaid, BookWriteOff, NothingToBook, HandBack, armBodies
    <2>2. CASE BookRetry
      <3>1. laid' = laid /\ consumed' = consumed \ {activeRock}
        BY <2>2 DEF BookRetry, HandBack
      <3>2. laid[activeRock] = -1
        BY <2>2 DEF BookRetry, Settling, HandInv, StonesUsed
      <3> QED BY <1>1, <3>1, <3>2
    <2> QED BY <1>3, <2>1, <2>2 DEF Book
  <1>4. CASE Throttled \/ UNCHANGED vars
    BY <1>1, <1>4 DEF Throttled, vars, armBodies
  <1>5. CASE PublishSome
    BY <1>1, <1>5 DEF PublishSome, Publish, armBodies
  <1>6. CASE Advance
    <2>1. consumed' = consumed
      BY <1>6 DEF Advance
    <2>2. CASE Release
      <3>1. laid' = [laid EXCEPT ![target] = activeSlot] /\ arm = "carrying"
        BY <2>2 DEF Release
      <3>2. target = activeRock /\ laid[activeRock] = -1
        BY <3>1 DEF HandInv, CycleInHand, StonesUsed, Staging, Busy
      <3>3. r # target
        BY <3>2
      <3> QED BY <1>1, <2>1, <3>1, <3>3 DEF HandInv, TypeOK
    <2>3. CASE ~Release
      BY <1>1, <1>6, <2>1, <2>3 DEF Advance, ArmUpdate, Grip, GrabFails, Stow, ArmWaits
    <2> QED BY <2>2, <2>3
  <1>7. ASSUME NEW c, TakeCommand(c)
        PROVE  laid'[r] = laid[r] /\ r \in consumed'
    BY <1>1, <1>7 DEF TakeCommand, Ignore, Accept, armBodies
  <1> QED BY <1>2, <1>3, <1>4, <1>5, <1>6, <1>7 DEF AnyNext, Loop

\* A stone in the wall is never taken up again, whatever commands come.
THEOREM LaidStays == Spec => LaidStaysLaid
  <1>1. HandInv /\ [Next]_vars =>
            [\A r \in Rocks : laid[r] >= 0 => laid'[r] = laid[r] /\ r \in consumed']_vars
    BY NextIsNumbered, StoneStays
  <1> QED BY <1>1, HandInvariant, PTL DEF Spec, LaidStaysLaid

----------------------------------------------------------------------------
(* How far the course may jump.                                            *)

Slides == -MaxSlide..MaxSlide

\* The fetch slide is bounded, and the starvation clock is never that of a slot ahead.
SlideInv == offset \in Slides /\ starvedSlot <= placed

LEMMA FetchSlides ==
    ASSUME TypeOK, NEW c \in Courses, c.offset \in Slides, NEW r \in Rocks \cup {NoRock}
    PROVE  /\ Fetch(c, r) \in Courses /\ Fetch(c, r).offset \in Slides
           /\ Fetch(c, r).placed = c.placed
           /\ Fetch(c, r).open = c.open /\ Fetch(c, r).starved = c.starved
  <1>1. Fetch(c, r) \in Courses /\ Fetch(c, r).placed = c.placed
    BY FetchKeeps
  <1>2. ASSUME r \in Rocks PROVE Slide(r) \in Slides
    BY <1>2, BridgeAssumption DEF Slide, Clamp, Lesser, Greater, Slides, TypeOK
  <1>3. CASE Fetch(c, r) = c
    BY <1>1, <1>3
  <1>4. CASE Fetch(c, r) # c
    <2>1. /\ Fetch(c, r) = [c EXCEPT !.offset = Slide(r), !.offsetSlot = c.placed]
          /\ r \in Rocks
      BY <1>4 DEF Fetch
    <2> QED BY <1>1, <1>2, <2>1 DEF Courses
  <1> QED BY <1>3, <1>4

\* A resynchronisation ends where the hull stands, the slide taken for its sign.
LEMMA ResyncLands ==
    ASSUME TypeOK, NEW c \in Courses, c.offset \in Slides, Resync(c) # c
    PROVE  /\ Resync(c).placed <= hull + MaxSlide
           /\ Resync(c).offset = 0 /\ ~Resync(c).open
  <1> DEFINE end == Lesser(c.placed + Past(c), NSlots)
  <1>1. Resync(c) = ResumeAt(end, FALSE)
    BY DEF Resync
  <1>2. /\ c.placed \in Int /\ hull \in Int /\ c.offset \in Int /\ NSlots \in Int
        /\ MaxSlide \in Int
    BY BridgeAssumption DEF Courses, TypeOK
  <1>3. end <= hull + MaxSlide
    BY <1>2 DEF Lesser, Past, Slides
  <1> QED BY <1>1, <1>3 DEF ResumeAt

\* A starved slot is given up only while the starvation clock runs for it.
LEMMA AbandonOne ==
    ASSUME TypeOK, NEW c \in Courses, c.offset \in Slides, NEW before \in BOOLEAN,
           NEW over \in BOOLEAN, NEW futile \in BOOLEAN
    PROVE  /\ Abandon(c, before, over, futile).offset \in Slides
           /\ \/ Abandon(c, before, over, futile).placed = c.placed
              \/ /\ before /\ c.open
                 /\ Abandon(c, before, over, futile).placed = c.placed + 1
  <1>1. \/ /\ c.open /\ before
           /\ Abandon(c, before, over, futile) = ResumeAt(c.placed + 1, c.open)
        \/ Abandon(c, before, over, futile)
             = [c EXCEPT !.starved = (c.starved \/ (Starving(c) /\ c.open))]
    BY DEF Abandon
  <1>2. 0 \in Slides
    BY BridgeAssumption DEF Slides
  <1>3. CASE /\ c.open /\ before
             /\ Abandon(c, before, over, futile) = ResumeAt(c.placed + 1, c.open)
    <2>1. /\ ResumeAt(c.placed + 1, c.open).offset = 0
          /\ ResumeAt(c.placed + 1, c.open).placed = c.placed + 1
      BY DEF ResumeAt
    <2> QED BY <1>2, <1>3, <2>1
  <1>4. CASE Abandon(c, before, over, futile)
             = [c EXCEPT !.starved = (c.starved \/ (Starving(c) /\ c.open))]
    BY <1>4 DEF Courses
  <1> QED BY <1>1, <1>3, <1>4

\* One publication moves the course by one slot at most, or to the hull.
LEMMA PublishJumps ==
    ASSUME TypeOK, SlideInv, NEW r \in Rocks \cup {NoRock}, NEW beside \in BOOLEAN,
           NEW keepoutOver \in BOOLEAN, NEW unservableOver \in BOOLEAN,
           NEW starvedOver \in BOOLEAN, NEW futile \in BOOLEAN,
           Publish(r, beside, keepoutOver, unservableOver, starvedOver, futile)
    PROVE  /\ SlideInv'
           /\ placed' > placed + 1 => placed' <= hull + MaxSlide
  <1> DEFINE c1 == SkipUnservable(Course, unservableOver)
             c2 == ResetStarved(c1)
             f  == Fetch(c2, r)
             c3 == Resync(f)
             c4 == Abandon(c3, c2.starved, starvedOver, futile)
  <1>1. /\ Course \in Courses /\ Course.placed = placed /\ Course.offset = offset
        /\ Course.open = TRUE
    BY DEF Course, Courses, TypeOK
  <1>2. /\ c1 \in Courses /\ c1.offset = offset /\ c1.open = TRUE
        /\ c1.placed = placed \/ c1.placed = placed + 1
    <2>1. c1 \in Courses
      BY <1>1, SkipMovesOn
    <2>2. CASE c1 = Course
      BY <1>1, <2>1, <2>2
    <2>3. CASE c1 = [Course EXCEPT !.placed = @ + 1]
      BY <1>1, <2>1, <2>3 DEF Courses
    <2> QED BY <2>2, <2>3 DEF SkipUnservable
  <1>3. /\ c2 \in Courses /\ c2.placed = c1.placed /\ c2.offset = offset /\ c2.open = TRUE
        /\ c2.starved => starvedSlot = c1.placed
    <2>1. c2 = [c1 EXCEPT !.starved = @ /\ starvedSlot = c1.placed /\ ~Busy /\ selected = NoRock]
      BY DEF ResetStarved
    <2>2. c2 \in Courses /\ c2.placed = c1.placed
      BY <1>2, ResetKeeps
    <2> HIDE DEF c1
    <2> QED BY <1>2, <2>1, <2>2 DEF Courses
  <1> HIDE DEF c1, c2
  <1>4. /\ f \in Courses /\ f.offset \in Slides /\ f.placed = c1.placed /\ f.open = TRUE
    BY <1>3, FetchSlides DEF SlideInv
  <1> HIDE DEF f
  <1>5. c3 \in Courses /\ (c3.placed = f.placed \/ f.placed < c3.placed)
    BY <1>4, ResyncMovesOn DEF MovesOn
  <1>6. \/ c3 = f
        \/ c3.placed <= hull + MaxSlide /\ c3.offset = 0 /\ ~c3.open
    BY <1>4, ResyncLands
  <1>7. c3.offset \in Slides
    BY <1>4, <1>6, BridgeAssumption DEF Slides
  <1> HIDE DEF c3
  <1>8. /\ c4.offset \in Slides
        /\ c4.placed = c3.placed \/ (c2.starved /\ c3.open /\ c4.placed = c3.placed + 1)
    <2>1. c2.starved \in BOOLEAN
      BY <1>3 DEF Courses
    <2> QED BY <1>5, <1>7, <2>1, AbandonOne
  <1>9. placed' = c4.placed /\ offset' = c4.offset /\ starvedSlot' = c1.placed
    BY DEF Publish, c1, c2, f, c3
  <1> HIDE DEF c4
  <1>10. /\ placed \in Int /\ c1.placed \in Int /\ c3.placed \in Int /\ hull \in Int
         /\ MaxSlide \in Int /\ starvedSlot <= placed
    BY <1>2, <1>5, BridgeAssumption DEF Courses, TypeOK, SlideInv
  <1>11. starvedSlot' <= placed'
    BY <1>4, <1>5, <1>8, <1>9, <1>10
  <1>12. ASSUME placed' > placed + 1 PROVE placed' <= hull + MaxSlide
    <2>1. CASE c3 = f
      <3>1. c2.starved => c1.placed = placed
        BY <1>2, <1>3, <1>10
      <3>2. c4.placed <= placed + 1
        BY <1>2, <1>4, <1>8, <1>10, <2>1, <3>1
      <3> QED BY <1>2, <1>8, <1>9, <1>10, <1>12, <3>2
    <2>2. CASE c3.placed <= hull + MaxSlide /\ ~c3.open
      BY <1>8, <1>9, <2>2
    <2> QED BY <1>6, <2>1, <2>2
  <1> QED BY <1>8, <1>9, <1>11, <1>12 DEF SlideInv

LEMMA SlideNext ==
    ASSUME HandInv, SlideInv, [AnyNext]_vars
    PROVE  /\ SlideInv'
           /\ placed' > placed + 1 => placed' <= hull + MaxSlide
  <1>1. CASE PublishSome
    BY <1>1, PublishJumps DEF PublishSome, HandInv
  <1>2. CASE Book
    <2>1. \/ UNCHANGED <<placed, offset, starvedSlot>>
          \/ /\ activeSlot >= 0 /\ placed' = activeSlot + 1 /\ offset' = 0
             /\ starvedSlot' = starvedSlot
      BY <1>2
      DEF Book, BookLaid, BookRetry, BookWriteOff, NothingToBook, Settling, HandBack, NextSlot,
          course
    <2>2. placed \in Int /\ starvedSlot \in Int /\ 0 \in Slides
      BY BridgeAssumption DEF HandInv, TypeOK, Slides
    <2> QED BY <2>1, <2>2 DEF HandInv, CourseWaitsForArm, SlideInv
  <1>3. CASE UNCHANGED course
    <2>1. placed \in Int
      BY BridgeAssumption DEF HandInv, TypeOK
    <2> QED BY <1>3, <2>1 DEF course, SlideInv
  <1>4. CASE ~PublishSome /\ ~Book
    <2>1. UNCHANGED course
      BY <1>4
      DEF AnyNext, Loop, Feed, Throttled, Advance, TakeCommand, Ignore, Accept, vars
    <2> QED BY <1>3, <2>1
  <1> QED BY <1>1, <1>2, <1>4

\* PublishBuildTopics, "write off every slot already driven past": what the comment says
\* of a jump fails by no more than the longest fetch slide, whatever commands come.
THEOREM JumpsAreShort == Spec => JumpsWithinSlide
  <1>1. Init => SlideInv
    BY BridgeAssumption DEF Init, SlideInv, Slides
  <1>2. HandInv /\ SlideInv /\ [Next]_vars
            => SlideInv' /\ [placed' > placed + 1 => placed' <= hull + MaxSlide]_vars
    BY NextIsNumbered, SlideNext
  <1> QED BY <1>1, <1>2, HandInvariant, PTL DEF Spec, JumpsWithinSlide

----------------------------------------------------------------------------
(* The arm the bridge drives.                                              *)

LEMMA ArmSteps ==
    ASSUME HandInv, [AnyNext]_vars
    PROVE  [Arm!Next]_(Arm!vars)
  <1> DEFINE Held == IF arm = "carrying" THEN target ELSE NoRock
  <1>1. CASE Advance
    <2>1. target' = target /\ (Busy => target \in Rocks)
      BY <1>1 DEF Advance, HandInv, TypeOK, Staging, CycleInHand
    <2>2. CASE Grip
      BY <2>1, <2>2 DEF Grip, Busy, Arm!Next, Arm!Grip
    <2>3. CASE GrabFails
      BY <2>1, <2>3 DEF GrabFails, Arm!Next, Arm!Fail
    <2>4. CASE Release
      BY <2>1, <2>4 DEF Release, Arm!Next, Arm!Release
    <2>5. CASE Stow
      BY <2>1, <2>5 DEF Stow, Arm!Next, Arm!Finish
    <2>6. CASE ArmWaits
      BY <2>1, <2>6 DEF ArmWaits, Arm!vars
    <2> QED BY <1>1, <2>2, <2>3, <2>4, <2>5, <2>6 DEF Advance, ArmUpdate
  <1>2. CASE Book
    <2>1. arm' = arm /\ (target' = target \/ arm \in {"done", "failed"})
      BY <1>2
      DEF Book, BookLaid, BookRetry, BookWriteOff, NothingToBook, Settling, HandBack, armBodies
    <2> QED BY <2>1 DEF Arm!vars
  <1>3. ASSUME NEW c, NEW starts \in BOOLEAN, Accept(c, starts)
        PROVE  Arm!Next
    <2>1. arm \in {"idle", "done", "failed"} /\ arm' \in {"reaching", "failed"}
      BY <1>3 DEF Accept, Accepts, Busy, HandInv, TypeOK
    <2> QED BY <2>1 DEF Arm!Next, Arm!Begin
  <1>4. ASSUME NEW c, TakeCommand(c)
        PROVE  Arm!Next \/ UNCHANGED <<arm, target>>
    BY <1>3, <1>4 DEF TakeCommand, Ignore, armBodies
  <1>5. UNCHANGED <<arm, target>> => UNCHANGED Arm!vars
    BY DEF Arm!vars
  <1>6. CASE ~Advance /\ ~Book
    BY <1>4, <1>5, <1>6
    DEF AnyNext, Loop, Feed, Throttled, PublishSome, Publish, vars, armBodies
  <1> QED BY <1>1, <1>2, <1>6

\* LrvArm as BuilderArmRosBridge sees it: whatever commands come, the bridge starts, waits
\* for and books cycles of ArmCycle, which LrvArmProofs shows the phase machine to run.
THEOREM ArmKeepsToCycle == Spec => ArmIsCycle
  <1>1. Init => Arm!Init
    BY DEF Init, Arm!Init
  <1>2. HandInv /\ [Next]_vars => [Arm!Next]_(Arm!vars)
    BY NextIsNumbered, ArmSteps
  <1> QED BY <1>1, <1>2, HandInvariant, PTL DEF Spec, ArmIsCycle, Arm!Spec

----------------------------------------------------------------------------
(* Theorems.                                                               *)

LEMMA BridgeInvariant == ASSUME ~LateCommands PROVE Spec => []BridgeInv
  <1>1. BridgeInv /\ [Next]_vars => BridgeInv'
    BY NextIsTimely, NextInv
  <1> QED BY <1>1, InitInv, PTL DEF Spec

\* A stone behind the course has been handed back, so it is a fixed body again.
LEMMA StonesAreCounted ==
    ASSUME BridgeInv PROVE LaidIsCounted
  BY DEF BridgeInv, Stones, OneDynamicRock, LaidIsCounted, TypeOK

\* For any feedstock, course and geometry: at most one rock of the build is dynamic and
\* it is the one of the cycle in hand; no skip moves the course under a working arm; a
\* slot receives at most one stone; every stone laid is counted; retries are bounded.
THEOREM BridgeSafety ==
    ASSUME ~LateCommands
    PROVE  Spec => [](/\ TypeOK /\ OneDynamicRock /\ CourseWaitsForArm /\ OneStonePerSlot
                      /\ LaidIsCounted /\ BoundedRetries)
  <1>1. BridgeInv => /\ TypeOK /\ OneDynamicRock /\ CourseWaitsForArm /\ OneStonePerSlot
                     /\ LaidIsCounted /\ BoundedRetries
    BY StonesAreCounted DEF BridgeInv
  <1> QED BY <1>1, BridgeInvariant, PTL

\* The parts of it that the runs check, each on its own.  BuilderArmRosBridge keeps every
\* stone fixed but the one its gripper works on.
COROLLARY OnlyOneIsDynamic == ASSUME ~LateCommands PROVE Spec => []OneDynamicRock
  BY BridgeSafety, PTL

\* ConsumeCommand: no slot is ever filled by two stones.
COROLLARY SlotsHoldOneStone == ASSUME ~LateCommands PROVE Spec => []OneStonePerSlot
  BY BridgeSafety, PTL

\* BookCompletion: every stone the arm has laid is counted in the course.
COROLLARY EveryStoneIsCounted == ASSUME ~LateCommands PROVE Spec => []LaidIsCounted
  BY BridgeSafety, PTL

----------------------------------------------------------------------------
(* The bridge implements WallCourse.                                       *)

LEMMA AnyOfSingle == \A r : AnyOf({r}) = r
  BY DEF AnyOf

LEMMA AnyOfIn == \A S : S # {} => AnyOf(S) \in S
  BY DEF AnyOf

\* The wall is read off laid and placed.
LEMMA SameWall ==
    ASSUME placed' = placed, \A k \in Slots : k < placed => StonesOn(k)' = StonesOn(k)
    PROVE  UNCHANGED <<placed, wallOf>>
  <1>1. \A k \in Slots :
            (IF k < placed' /\ StonesOn(k)' # {} THEN AnyOf(StonesOn(k)') ELSE NoRock)
            = (IF k < placed /\ StonesOn(k) # {} THEN AnyOf(StonesOn(k)) ELSE NoRock)
    OBVIOUS
  <1>2. wallOf' = [k \in Slots |->
            IF k < placed' /\ StonesOn(k)' # {} THEN AnyOf(StonesOn(k)') ELSE NoRock]
    BY DEF wallOf, AnyOf
  <1>3. wallOf' = wallOf
    BY <1>1, <1>2 DEF wallOf
  <1> QED BY <1>3

LEMMA EndOfGap ==
    ASSUME NEW p \in Nat, NEW q \in Nat, NSlots \in Nat, p < q, q <= NSlots
    PROVE  q - 1 \in Slots /\ q > p /\ (q - 1) + 1 = q
  BY DEF Slots

\* Moving the course past slots no stone was released over leaves gaps.
LEMMA GapStep ==
    ASSUME BridgeInv, laid' = laid, placed' \in 0..NSlots, placed < placed',
           \A r \in Rocks : laid[r] < placed
    PROVE  \E k \in Slots : Wall!LeaveGaps(k + 1)
  <1>0. placed \in Nat /\ placed' \in Nat /\ NSlots \in Nat /\ placed' <= NSlots
    BY BridgeAssumption DEF BridgeInv, TypeOK
  <1>1. placed' - 1 \in Slots /\ placed' > placed /\ (placed' - 1) + 1 = placed'
    BY <1>0, EndOfGap
  <1>2. \A k \in Slots : StonesOn(k)' = StonesOn(k)
    BY DEF StonesOn
  <1>3. \A k \in Slots : k >= placed => StonesOn(k) = {}
    <2> SUFFICES ASSUME NEW k \in Slots, k >= placed, NEW r \in Rocks, laid[r] = k
                 PROVE  FALSE
      BY DEF StonesOn
    <2>1. k < placed
      OBVIOUS
    <2>2. k \in Int /\ placed \in Int
      BY BridgeAssumption DEF Slots, BridgeInv, TypeOK
    <2> QED BY <2>1, <2>2
  <1>4. \A k \in Slots :
            (IF k < placed' /\ StonesOn(k)' # {} THEN AnyOf(StonesOn(k)') ELSE NoRock)
            = (IF k < placed /\ StonesOn(k) # {} THEN AnyOf(StonesOn(k)) ELSE NoRock)
    <2> SUFFICES ASSUME NEW k \in Slots
                 PROVE  StonesOn(k) # {} => (k < placed' <=> k < placed)
      BY <1>2
    <2>1. StonesOn(k) # {} => k < placed
      BY <1>3, BridgeAssumption DEF Slots, BridgeInv, TypeOK
    <2> QED BY <2>1, BridgeAssumption DEF Slots, BridgeInv, TypeOK
  <1>5. wallOf' = [k \in Slots |->
            IF k < placed' /\ StonesOn(k)' # {} THEN AnyOf(StonesOn(k)') ELSE NoRock]
    BY DEF wallOf, AnyOf
  <1>6. wallOf' = wallOf
    BY <1>4, <1>5 DEF wallOf
  <1>7. Wall!LeaveGaps((placed' - 1) + 1)
    <2> DEFINE n == (placed' - 1) + 1
    <2>1. n = placed' /\ n - 1 \in Slots
      BY <1>1
    <2> HIDE DEF n
    <2>2. Wall!LeaveGaps(n)
      BY <1>1, <1>6, <2>1 DEF Wall!LeaveGaps
    <2> QED BY <2>2 DEF n
  <1> QED BY <1>1, <1>7

\* Booking a stone puts it into the slot the course stands at.
LEMMA LayStep ==
    ASSUME BridgeInv, BookLaid
    PROVE  activeRock \in Rocks /\ Wall!Lay(activeRock)
  <1>1. /\ activeSlot \in Slots /\ activeRock \in Rocks /\ placed = activeSlot
        /\ laid[activeRock] = placed
        /\ placed' = placed + 1 /\ laid' = laid
        /\ \A r \in Rocks : r # activeRock => laid[r] < placed
    <2>1. activeSlot \in Slots /\ activeRock \in Rocks /\ placed = activeSlot
      BY DEF BookLaid, Settling, BridgeInv, TypeOK, CycleInHand, CourseWaitsForArm, Slots
    <2>2. laid[activeRock] = placed /\ placed' = placed + 1 /\ laid' = laid
      BY <2>1 DEF BookLaid, Settling, HandBack, NextSlot, BridgeInv, Stones
    <2>3. \A r \in Rocks : r # activeRock => laid[r] < placed
      BY <2>1, BridgeAssumption DEF BridgeInv, TypeOK, Stones, Slots
    <2> QED BY <2>1, <2>2, <2>3
  <1>2. \A k \in Slots : StonesOn(k)' = StonesOn(k)
    BY <1>1 DEF StonesOn
  <1>3. placed \in Int /\ \A k \in Slots : k \in Int
    BY <1>1 DEF Slots
  <1>4. StonesOn(placed) = {activeRock}
    <2>1. ASSUME NEW r \in Rocks, laid[r] = placed, r # activeRock
          PROVE  FALSE
      <3>1. placed < placed
        BY <1>1, <2>1
      <3> QED BY <3>1, <1>3
    <2> QED BY <1>1, <2>1 DEF StonesOn
  <1>5. wallOf' = [k \in Slots |->
            IF k < placed' /\ StonesOn(k)' # {} THEN AnyOf(StonesOn(k)') ELSE NoRock]
    BY DEF wallOf, AnyOf
  <1>6. wallOf' = [wallOf EXCEPT ![placed] = activeRock]
    <2>1. \A k \in Slots : k # placed => (k < placed' <=> k < placed)
      BY <1>1, <1>3
    <2>2. \A k \in Slots : k # placed =>
            (IF k < placed' /\ StonesOn(k)' # {} THEN AnyOf(StonesOn(k)') ELSE NoRock)
            = (IF k < placed /\ StonesOn(k) # {} THEN AnyOf(StonesOn(k)) ELSE NoRock)
      BY <1>2, <2>1
    <2>3. \A k \in Slots : k = placed => k < placed' /\ StonesOn(k)' = {activeRock}
      BY <1>1, <1>2, <1>3, <1>4
    <2>4. \A k \in Slots :
            (IF k < placed' /\ StonesOn(k)' # {} THEN AnyOf(StonesOn(k)') ELSE NoRock)
            = IF k = placed THEN activeRock ELSE wallOf[k]
      <3> SUFFICES ASSUME NEW k \in Slots
                   PROVE  (IF k < placed' /\ StonesOn(k)' # {} THEN AnyOf(StonesOn(k)')
                           ELSE NoRock)
                          = IF k = placed THEN activeRock ELSE wallOf[k]
        OBVIOUS
      <3>1. CASE k = placed
        BY <2>3, <3>1, AnyOfSingle
      <3>2. CASE k # placed
        BY <2>2, <3>2 DEF wallOf
      <3> QED BY <3>1, <3>2
    <2>5. wallOf' = [k \in Slots |-> IF k = placed THEN activeRock ELSE wallOf[k]]
      BY <1>5, <2>4
    <2> QED BY <2>5 DEF wallOf
  <1>7. \A k \in Slots : wallOf[k] # activeRock
    <2> SUFFICES ASSUME NEW k \in Slots, wallOf[k] = activeRock
                 PROVE  FALSE
      OBVIOUS
    <2>1. k < placed /\ activeRock \in StonesOn(k)
      BY <1>1, AnyOfIn, BridgeAssumption DEF wallOf
    <2>2. placed < placed
      BY <1>1, <2>1 DEF StonesOn
    <2> QED BY <1>3, <2>2
  <1> QED BY <1>1, <1>6, <1>7 DEF Wall!Lay

\* While the arm is idle and nothing is in hand, every stone lies behind the course.
LEMMA IdleStones ==
    ASSUME BridgeInv, activeSlot < 0
    PROVE  \A r \in Rocks : laid[r] < placed
  <1>1. activeRock \notin Rocks
    BY DEF BridgeInv, TypeOK, CycleInHand, Slots
  <1> QED BY <1>1, BridgeAssumption DEF BridgeInv, TypeOK, Stones, Slots

\* The rock being put down is not in the wall until its cycle is booked.
LEMMA AdvanceStutters ==
    ASSUME BridgeInv, Advance
    PROVE  UNCHANGED <<placed, wallOf>>
  <1>1. placed' = placed
    BY DEF Advance, course
  <1>2. CASE Release
    <2>1. /\ laid' = [laid EXCEPT ![target] = activeSlot] /\ arm = "carrying"
      BY <1>2 DEF Release
    <2>2. /\ target = activeRock /\ laid[activeRock] = -1 /\ activeSlot = placed
          /\ placed \in Int /\ activeRock \in Rocks
      BY <2>1, BridgeAssumption
      DEF BridgeInv, TypeOK, CycleInHand, Stones, Staging, Busy, CourseWaitsForArm
    <2>3. \A k \in Slots : k < placed => k # placed /\ k # -1
      BY <2>2 DEF Slots
    <2>4. \A k \in Slots, r \in Rocks : k < placed => (laid'[r] = k <=> laid[r] = k)
      BY <2>1, <2>2, <2>3 DEF BridgeInv, TypeOK
    <2>5. \A k \in Slots : k < placed => StonesOn(k)' = StonesOn(k)
      BY <2>4 DEF StonesOn
    <2> QED BY <1>1, <2>5, SameWall
  <1>3. CASE ~Release
    <2>1. laid' = laid
      BY <1>3 DEF Advance, ArmUpdate, Grip, GrabFails, Stow, ArmWaits
    <2>2. \A k \in Slots : StonesOn(k)' = StonesOn(k)
      BY <2>1 DEF StonesOn
    <2> QED BY <1>1, <2>2, SameWall
  <1> QED BY <1>2, <1>3

\* A step that leaves the stones and the course alone leaves the wall alone.
LEMMA OtherStutters ==
    ASSUME placed' = placed, laid' = laid
    PROVE  UNCHANGED <<placed, wallOf>>
  <1>1. \A k \in Slots : StonesOn(k)' = StonesOn(k)
    BY DEF StonesOn
  <1> QED BY <1>1, SameWall

LEMMA StepsWall ==
    ASSUME BridgeInv, [TimelyNext]_vars
    PROVE  Wall!Next \/ UNCHANGED <<placed, wallOf>>
  <1>1. CASE Book
    <2>1. CASE BookLaid
      BY <2>1, LayStep DEF Wall!Next
    <2>2. CASE BookWriteOff
      <3>1. /\ activeSlot \in Slots /\ activeRock \in Rocks /\ placed = activeSlot
            /\ laid[activeRock] = -1 /\ placed' = placed + 1 /\ laid' = laid
        BY <2>2
        DEF BookWriteOff, Settling, HandBack, NextSlot, BridgeInv, TypeOK, CycleInHand,
            CourseWaitsForArm, Stones, Slots
      <3>2. \A r \in Rocks : laid[r] < placed
        BY <3>1, BridgeAssumption DEF BridgeInv, TypeOK, Stones, Slots
      <3>3. placed' \in 0..NSlots /\ placed < placed'
        BY <3>1, BridgeAssumption DEF Slots
      <3> QED BY <3>1, <3>2, <3>3, GapStep DEF Wall!Next
    <2>3. CASE BookRetry \/ NothingToBook
      BY <2>3, OtherStutters DEF BookRetry, NothingToBook, HandBack, course, armBodies
    <2> QED BY <1>1, <2>1, <2>2, <2>3 DEF Book
  <1>2. CASE PublishSome
    <2>1. PICK r \in Rocks \cup {NoRock}, beside \in BOOLEAN, keepoutOver \in BOOLEAN,
               unservableOver \in BOOLEAN, starvedOver \in BOOLEAN, futile \in BOOLEAN :
               Publish(r, beside, keepoutOver, unservableOver, starvedOver, futile)
      BY <1>2 DEF PublishSome
    <2>2. TypeOK' /\ (placed' = placed \/ (Idling /\ placed < placed'))
      BY <2>1, PublishMovesOn DEF BridgeInv
    <2>3. pc = "publish" /\ laid' = laid
      BY <2>1 DEF Publish, armBodies
    <2>4. CASE placed' = placed
      BY <2>3, <2>4, OtherStutters
    <2>5. CASE Idling /\ placed < placed'
      <3>1. activeSlot < 0
        BY <2>3, <2>5 DEF Idling, BridgeInv, TypeOK, Staging, Slots
      <3>2. placed' \in 0..NSlots
        BY <2>2 DEF TypeOK
      <3> QED BY <2>3, <2>5, <3>1, <3>2, IdleStones, GapStep DEF Wall!Next
    <2> QED BY <2>2, <2>4, <2>5
  <1>3. CASE Advance
    BY <1>3, AdvanceStutters
  <1>4. CASE Throttled \/ UNCHANGED vars
    BY <1>4, OtherStutters DEF Throttled, vars, course, armBodies
  <1>5. ASSUME NEW delivered \in SUBSET (Rocks \ feedstock), NEW clear \in BOOLEAN,
               Feed(delivered, clear)
        PROVE  UNCHANGED <<placed, wallOf>>
    BY <1>5, OtherStutters DEF Feed, course
  <1>6. ASSUME NEW c, TakeCommand(c)
        PROVE  UNCHANGED <<placed, wallOf>>
    BY <1>6, OtherStutters DEF TakeCommand, Ignore, Accept, course, armBodies
  <1> QED BY <1>1, <1>2, <1>3, <1>4, <1>5, <1>6 DEF TimelyNext, Loop

LEMMA StartsWall == Init => Wall!Init
  <1> SUFFICES ASSUME Init PROVE Wall!Init
    OBVIOUS
  <1>1. placed = 0 /\ \A k \in Slots : ~(k < placed)
    BY BridgeAssumption DEF Init, Slots
  <1>2. wallOf = [k \in Slots |-> NoRock]
    BY <1>1 DEF wallOf
  <1> QED BY <1>1, <1>2 DEF Wall!Init

\* The bridge implements the wall it promises: slots are decided in order, once, by one
\* stone or a gap, and no stone is used twice.
THEOREM ImplementsWallCourse == ASSUME ~LateCommands PROVE Spec => ImplementsWall
  <1>1. BridgeInv /\ [Next]_vars => [Wall!Next]_(Wall!vars)
    BY NextIsTimely, StepsWall DEF Wall!vars
  <1> QED BY <1>1, StartsWall, BridgeInvariant, PTL DEF Spec, ImplementsWall, Wall!Spec

----------------------------------------------------------------------------
(* What WallCourse promises.                                               *)

\* The wall keeps its type.
WallInv ==
    /\ Wall!StonesAreDistinct
    /\ placed \in Int /\ wallOf \in [Slots -> Rocks \cup {NoRock}]

LEMMA WallSteps ==
    ASSUME WallInv, [Wall!Next]_(Wall!vars)
    PROVE  WallInv' /\ \A k \in Slots : k < placed => wallOf'[k] = wallOf[k]
  <1>1. NoRock \notin Rocks /\ Slots \subseteq Int
    BY BridgeAssumption DEF Slots
  <1>2. ASSUME NEW r \in Rocks, Wall!Lay(r)
        PROVE  WallInv' /\ \A k \in Slots : k < placed => wallOf'[k] = wallOf[k]
    <2>1. /\ placed \in Slots /\ \A k \in Slots : wallOf[k] # r
          /\ wallOf' = [wallOf EXCEPT ![placed] = r] /\ placed' = placed + 1
      BY <1>2 DEF Wall!Lay
    <2>2. /\ wallOf' \in [Slots -> Rocks \cup {NoRock}]
          /\ wallOf'[placed] = r
          /\ \A k \in Slots : k # placed => wallOf'[k] = wallOf[k]
      BY <2>1 DEF WallInv
    <2>3. placed' \in Int /\ \A k \in Slots : k >= placed' => k >= placed /\ k # placed
      BY <1>1, <2>1
    <2>4. Wall!StonesAreDistinct'
      BY <2>1, <2>2, <2>3 DEF WallInv, Wall!StonesAreDistinct
    <2>5. \A k \in Slots : k < placed => k # placed
      BY <1>1
    <2> QED BY <2>2, <2>3, <2>4, <2>5 DEF WallInv
  <1>3. ASSUME NEW j \in Slots, Wall!LeaveGaps(j + 1)
        PROVE  WallInv' /\ \A k \in Slots : k < placed => wallOf'[k] = wallOf[k]
    <2>1. placed' = j + 1 /\ j + 1 > placed /\ wallOf' = wallOf
      BY <1>3 DEF Wall!LeaveGaps
    <2>2. placed' \in Int /\ \A k \in Slots : k >= placed' => k >= placed
      BY <1>1, <2>1 DEF WallInv
    <2> QED BY <2>1, <2>2 DEF WallInv, Wall!StonesAreDistinct
  <1>4. CASE UNCHANGED Wall!vars
    BY <1>4 DEF Wall!vars, WallInv, Wall!StonesAreDistinct
  <1> QED BY <1>2, <1>3, <1>4 DEF Wall!Next

\* Of any WallCourse: no stone is booked twice, no slot before its turn, and what is decided
\* stays.
THEOREM CoursesAreFinal == Wall!Spec => []Wall!StonesAreDistinct /\ Wall!DecidedForGood
  <1>1. Wall!Init => WallInv
    BY BridgeAssumption DEF Wall!Init, WallInv, Wall!StonesAreDistinct
  <1>2. WallInv /\ [Wall!Next]_(Wall!vars)
            => WallInv' /\ [\A k \in Slots : k < placed => wallOf'[k] = wallOf[k]]_(Wall!vars)
    BY WallSteps
  <1>3. WallInv => Wall!StonesAreDistinct
    BY DEF WallInv
  <1> QED BY <1>1, <1>2, <1>3, PTL DEF Wall!Spec, Wall!DecidedForGood

\* m_placed_count and what BookCompletion counts: the wall the bridge books only ever grows
\* at its end.
COROLLARY WallIsFinal ==
    ASSUME ~LateCommands
    PROVE  Spec => []Wall!StonesAreDistinct /\ Wall!DecidedForGood
  BY ImplementsWallCourse, CoursesAreFinal, PTL DEF ImplementsWall

=============================================================================
