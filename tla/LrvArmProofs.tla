---------------------------- MODULE LrvArmProofs ----------------------------
(***************************************************************************)
(* Theorems about the arm of LrvArm, for any set of rocks, any resolution  *)
(* of the clock and any number of commands.                                *)
(***************************************************************************)
EXTENDS LrvArm, TLAPS

\* A busy arm works on a real rock body.
WorksOnARock == IsBusy => target \in Rocks

\* The inductive invariant behind the safety properties of a single cycle.
CycleInv == TypeOK /\ WeldDiscipline /\ TargetHeldStill /\ StatusTellsPhase /\ WorksOnARock

----------------------------------------------------------------------------
(* Bodies of the rocks stay well-typed through RemoveRockLock. *)

\* Freeing a rock, or making it collide, keeps the flags functions on Rocks.
LEMMA FreedType ==
    ASSUME TypeOK, NEW t
    PROVE  /\ Freed(t) \in [Rocks -> BOOLEAN]
           /\ Solid(t) \in [Rocks -> BOOLEAN]
  BY DEF TypeOK, Freed, Solid

\* The initial state satisfies the invariant.
LEMMA InitInv == Init => CycleInv
  <1> SUFFICES ASSUME Init PROVE CycleInv
    OBVIOUS
  <1>1. phase \in Phases /\ seq \in 0..MaxSeq
    BY ArmAssumption DEF Init, Phases
  <1>2. status \in [state : 0..2, error : {0}]
    BY DEF Init, Idle
  <1>3. TypeOK
    BY <1>1, <1>2 DEF Init, TypeOK
  <1>4. WeldDiscipline /\ TargetHeldStill
    BY DEF Init, WeldDiscipline, TargetHeldStill
  <1>5. StatusTellsPhase /\ WorksOnARock
    BY DEF Init, Idle, StatusTellsPhase, WorksOnARock, IsBusy, Busy
  <1> QED BY <1>3, <1>4, <1>5 DEF CycleInv

\* A failing cycle reports its code, drops the weld and frees the target.
LEMMA FailInv ==
    ASSUME CycleInv, UNCHANGED direct, NEW code \in 1..5, FailNow(code)
    PROVE  CycleInv'
  <1>1. TypeOK'
    BY FreedType DEF FailNow, FinishFailed, RemoveRockLock, Tick, CycleInv, TypeOK, Phases
  <1>2. (WeldDiscipline /\ TargetHeldStill /\ StatusTellsPhase /\ WorksOnARock)'
    BY DEF FailNow, FinishFailed, RemoveRockLock, Tick, WeldDiscipline, TargetHeldStill,
       StatusTellsPhase, WorksOnARock, IsBusy, Busy
  <1> QED BY <1>1, <1>2 DEF CycleInv

\* A phase that goes on changes nothing but the clocks.
LEMMA WaitInv ==
    ASSUME CycleInv, UNCHANGED direct, Wait
    PROVE  CycleInv'
  BY DEF Wait, Tick, bodies, CycleInv, TypeOK, WeldDiscipline, TargetHeldStill,
     StatusTellsPhase, WorksOnARock, IsBusy

\* A move between two phases on the same side of the grip keeps the bodies as they are.
LEMMA EnterInv ==
    ASSUME CycleInv, UNCHANGED direct, IsBusy, NEW p \in Busy, Enter(p),
           closed' \in Nat, bent' \in BOOLEAN, UNCHANGED <<bodies, status, seq>>,
           p \in {"LIFTING", "PLACING", "OPENING"} <=> phase \in {"LIFTING", "PLACING", "OPENING"},
           p \in {"APPROACH", "CLOSING"} => phase \in {"APPROACH", "CLOSING"}
    PROVE  CycleInv'
  <1>1. TypeOK'
    BY DEF Enter, bodies, CycleInv, TypeOK, Phases
  <1>2. (WeldDiscipline /\ TargetHeldStill)'
    BY DEF Enter, bodies, CycleInv, WeldDiscipline, TargetHeldStill
  <1>3. (StatusTellsPhase /\ WorksOnARock)'
    BY DEF Enter, bodies, CycleInv, StatusTellsPhase, WorksOnARock, IsBusy, Busy
  <1> QED BY <1>1, <1>2, <1>3 DEF CycleInv

\* Starting a cycle, whether the command is accepted or fails at once.
LEMMA StartInv ==
    ASSUME CycleInv, NEW r \in Rocks, NEW verdict \in {0, 2, 5}, Start(r, verdict)
    PROVE  CycleInv'
  <1>1. TypeOK'
    <2>1. fixed' \in [Rocks -> BOOLEAN] /\ collides' \in [Rocks -> BOOLEAN]
      BY FreedType DEF Start, CycleInv
    <2>2. status' \in [state : 0..2, error : {0}] \cup [state : {3}, error : 1..5]
      <3>1. CASE verdict = 0
        BY <3>1 DEF Start
      <3>2. CASE verdict # 0
        BY <3>2 DEF Start
      <3> QED BY <3>1, <3>2
    <2>3. phase' \in Phases
      BY DEF Start, Phases, Busy
    <2>4. /\ total' \in Nat /\ age' \in Nat /\ closed' \in Nat /\ bent' \in BOOLEAN
          /\ target' \in Rocks /\ weld' \in Rocks \cup {NoRock}
      BY DEF Start
    <2>5. seq' \in 0..MaxSeq /\ direct' \in BOOLEAN
      BY ArmAssumption DEF Start, CycleInv, TypeOK
    <2> QED
      BY <2>1, <2>2, <2>3, <2>4, <2>5 DEF TypeOK
  <1>2. WeldDiscipline'
    BY DEF Start, WeldDiscipline
  <1>3. TargetHeldStill'
    BY FreedType DEF Start, CycleInv, TargetHeldStill
  <1>4. (StatusTellsPhase /\ WorksOnARock)'
    BY DEF Start, StatusTellsPhase, WorksOnARock, IsBusy, Busy
  <1> QED BY <1>1, <1>2, <1>3, <1>4 DEF CycleInv

\* A command without a rock.
LEMMA StartNullInv ==
    ASSUME CycleInv, StartNull
    PROVE  CycleInv'
  <1>1. TypeOK'
    BY ArmAssumption DEF StartNull, clocks, CycleInv, TypeOK, Phases
  <1>2. (WeldDiscipline /\ TargetHeldStill /\ StatusTellsPhase /\ WorksOnARock)'
    BY DEF StartNull, WeldDiscipline, TargetHeldStill, StatusTellsPhase, WorksOnARock,
       IsBusy, Busy
  <1> QED BY <1>1, <1>2 DEF CycleInv

----------------------------------------------------------------------------
(* Update keeps the invariant, phase by phase. *)

\* The judgement at the end of the approach: wait, give up, or close the fingers.
LEMMA ApproachOutcomes ==
    ASSUME TypeOK, NEW settled \in BOOLEAN, NEW err \in {"in", "short", "gross"},
           ApproachBent(settled, err)
    PROVE  \/ Wait /\ age + 1 < CloseTimeout
           \/ FailNow(2)
           \/ Enter("CLOSING") /\ UNCHANGED <<bent, closed, bodies, status, seq>>
  <1>1. age \in Nat /\ CloseTimeout \in Nat
    BY ArmAssumption DEF TypeOK, CloseTimeout
  <1>2. CASE ~settled /\ age + 1 < CloseTimeout
    BY <1>1, <1>2 DEF ApproachBent
  <1>3. CASE (settled \/ age + 1 >= CloseTimeout) /\ err = "gross"
    BY <1>3 DEF ApproachBent
  <1>4. CASE (settled \/ age + 1 >= CloseTimeout) /\ err = "short"
    <2>1. IF age + 1 >= CloseTimeout THEN FailNow(2) ELSE Wait
      BY <1>4 DEF ApproachBent
    <2> QED BY <1>1, <2>1
  <1>5. CASE (settled \/ age + 1 >= CloseTimeout) /\ err = "in"
    BY <1>5 DEF ApproachBent
  <1> QED BY <1>1, <1>2, <1>3, <1>4, <1>5

\* Reaching for the rock: the body stays frozen until the cycle fails or grips it.
LEMMA ApproachInv ==
    ASSUME CycleInv, UNCHANGED direct,
           NEW settled \in BOOLEAN, NEW err \in {"in", "short", "gross"},
           ApproachUnbent \/ ApproachBent(settled, err)
    PROVE  CycleInv'
  <1>1. CASE ApproachUnbent
    <2>1. CASE Elapsed(BendTime)
      <3>1. /\ Enter("APPROACH") /\ bent' = TRUE
            /\ UNCHANGED <<closed, bodies, status, seq>>
        BY <1>1, <2>1 DEF ApproachUnbent
      <3>2. IsBusy /\ phase = "APPROACH" /\ closed' \in Nat
        BY <1>1, <3>1 DEF ApproachUnbent, In, IsBusy, Busy, CycleInv, TypeOK
      <3> QED BY <3>1, <3>2, EnterInv DEF Busy
    <2>2. CASE ~Elapsed(BendTime)
      BY <1>1, <2>2, WaitInv DEF ApproachUnbent
    <2> QED BY <2>1, <2>2
  <1>2. CASE ApproachBent(settled, err)
    <2>1. phase = "APPROACH" /\ IsBusy
      BY <1>2 DEF ApproachBent, In, IsBusy, Busy
    <2>2. \/ Wait \/ FailNow(2)
          \/ Enter("CLOSING") /\ UNCHANGED <<bent, closed, bodies, status, seq>>
      BY <1>2, ApproachOutcomes DEF CycleInv
    <2>3. CASE Enter("CLOSING") /\ UNCHANGED <<bent, closed, bodies, status, seq>>
      <3>1. closed' \in Nat /\ bent' \in BOOLEAN
        BY <2>3 DEF CycleInv, TypeOK
      <3> QED BY <2>1, <2>3, <3>1, EnterInv DEF Busy
    <2> QED BY <2>2, <2>3, WaitInv, FailInv
  <1> QED BY <1>1, <1>2

\* The grip welds the target, unfixed and out of the collision system.
LEMMA ClosingInv ==
    ASSUME CycleInv, UNCHANGED direct, NEW gripped \in BOOLEAN, Closing(gripped)
    PROVE  CycleInv'
  <1>1. phase = "CLOSING" /\ target \in Rocks
    BY DEF Closing, In, CycleInv, WorksOnARock, IsBusy, Busy
  <1>2. CASE /\ LockRock /\ Enter("LIFTING")
             /\ closed' = closed + 1
             /\ UNCHANGED <<bent, target, status, seq>>
    <2>1. TypeOK'
      BY <1>1, <1>2, FreedType DEF LockRock, Enter, CycleInv, TypeOK, Phases, Busy
    <2>2. WeldDiscipline'
      BY <1>1, <1>2, ArmAssumption DEF LockRock, Enter, Freed, CycleInv, TypeOK, WeldDiscipline
    <2>3. TargetHeldStill' /\ StatusTellsPhase' /\ WorksOnARock'
      BY <1>1, <1>2 DEF Enter, CycleInv, TargetHeldStill, StatusTellsPhase, WorksOnARock,
         IsBusy, Busy
    <2> QED BY <2>1, <2>2, <2>3 DEF CycleInv
  <1>3. CASE FailNow(3)
    BY <1>3, FailInv
  <1>4. CASE /\ Tick /\ closed' = closed + 1
             /\ UNCHANGED <<phase, bent, bodies, status, seq>>
    BY <1>4 DEF Tick, bodies, CycleInv, TypeOK, WeldDiscipline, TargetHeldStill,
       StatusTellsPhase, WorksOnARock, IsBusy
  <1> QED BY <1>2, <1>3, <1>4 DEF Closing

\* Carrying the rock keeps it welded, until the pads have backed off.
LEMMA CarryInv ==
    ASSUME CycleInv, UNCHANGED direct, NEW b \in BOOLEAN, Lifting(b) \/ Placing(b)
    PROVE  CycleInv'
  <1>1. phase \in {"LIFTING", "PLACING"} /\ IsBusy
    BY DEF Lifting, Placing, In, IsBusy, Busy
  <1>2. \/ Wait
        \/ Enter("PLACING") /\ UNCHANGED <<bent, closed, bodies, status, seq>>
        \/ Enter("OPENING") /\ closed' = 0 /\ UNCHANGED <<bent, bodies, status, seq>>
    BY DEF Lifting, Placing
  <1>3. CASE Enter("PLACING") /\ UNCHANGED <<bent, closed, bodies, status, seq>>
    <2>1. closed' \in Nat /\ bent' \in BOOLEAN
      BY <1>3 DEF CycleInv, TypeOK
    <2> QED BY <1>1, <1>3, <2>1, EnterInv DEF Busy
  <1>4. CASE Enter("OPENING") /\ closed' = 0 /\ UNCHANGED <<bent, bodies, status, seq>>
    <2>1. closed' \in Nat /\ bent' \in BOOLEAN
      BY <1>4 DEF CycleInv, TypeOK
    <2> QED BY <1>1, <1>4, <2>1, EnterInv DEF Busy
  <1> QED BY <1>2, <1>3, <1>4, WaitInv

\* Letting go: the weld goes and the rock is a free, colliding body again.
LEMMA OpeningInv ==
    ASSUME CycleInv, UNCHANGED direct, NEW backedOff \in BOOLEAN, Opening(backedOff)
    PROVE  CycleInv'
  <1>1. phase = "OPENING"
    BY DEF Opening, In
  <1>2. CASE /\ RemoveRockLock /\ Enter("RELEASING")
             /\ UNCHANGED <<bent, closed, target, status, seq>>
    <2>1. TypeOK'
      BY <1>2, FreedType DEF RemoveRockLock, Enter, CycleInv, TypeOK, Phases, Busy
    <2>2. (WeldDiscipline /\ TargetHeldStill)'
      BY <1>2 DEF RemoveRockLock, Enter, WeldDiscipline, TargetHeldStill
    <2>3. (StatusTellsPhase /\ WorksOnARock)'
      BY <1>1, <1>2 DEF Enter, CycleInv, StatusTellsPhase, WorksOnARock, IsBusy, Busy
    <2> QED BY <2>1, <2>2, <2>3 DEF CycleInv
  <1> QED BY <1>2, WaitInv DEF Opening

\* Once the rock is let go the arm only folds itself up and reports.
LEMMA FoldInv ==
    ASSUME CycleInv, UNCHANGED direct,
           NEW folded \in BOOLEAN, Releasing \/ Retracting(folded) \/ Stowing
    PROVE  CycleInv'
  <1>1. phase \in {"RELEASING", "RETRACTING", "STOWING"} /\ IsBusy
    BY DEF Releasing, Retracting, Stowing, In, IsBusy, Busy
  <1>2. CASE \E p \in {"RETRACTING", "STOWING"} :
                Enter(p) /\ UNCHANGED <<bent, closed, bodies, status, seq>>
    <2>1. PICK p \in {"RETRACTING", "STOWING"} :
                Enter(p) /\ UNCHANGED <<bent, closed, bodies, status, seq>>
      BY <1>2
    <2>2. closed' \in Nat /\ bent' \in BOOLEAN
      BY <2>1 DEF CycleInv, TypeOK
    <2>3. p \in Busy /\ p \notin {"LIFTING", "PLACING", "OPENING", "APPROACH", "CLOSING"}
      BY <2>1 DEF Busy
    <2> QED BY <1>1, <2>1, <2>2, <2>3, EnterInv
  <1>3. CASE /\ Tick /\ phase' = "DONE" /\ status' = [state |-> 2, error |-> 0]
             /\ UNCHANGED <<bent, closed, bodies, seq>>
    <2>1. status' \in [state : 0..2, error : {0}]
      BY <1>3
    <2>2. TypeOK'
      BY <1>3, <2>1 DEF Tick, bodies, CycleInv, TypeOK, Phases
    <2>3. (WeldDiscipline /\ TargetHeldStill)'
      BY <1>1, <1>3 DEF bodies, CycleInv, WeldDiscipline, TargetHeldStill
    <2>4. (StatusTellsPhase /\ WorksOnARock)'
      BY <1>3 DEF StatusTellsPhase, WorksOnARock, IsBusy, Busy
    <2> QED BY <2>2, <2>3, <2>4 DEF CycleInv
  <1> QED BY <1>2, <1>3, WaitInv DEF Releasing, Retracting, Stowing

\* Every Update keeps the invariant.
LEMMA UpdateInv ==
    ASSUME CycleInv, Update
    PROVE  CycleInv'
  <1>0. UNCHANGED direct
    BY DEF Update
  <1>1. CASE UpdateTimeout
    BY <1>0, <1>1, FailInv DEF UpdateTimeout
  <1>2. CASE ApproachUnbent
    BY <1>0, <1>2, ApproachInv
  <1>3. ASSUME NEW settled \in BOOLEAN, NEW err \in {"in", "short", "gross"},
               ApproachBent(settled, err)
        PROVE  CycleInv'
    BY <1>0, <1>3, ApproachInv
  <1>4. ASSUME NEW gripped \in BOOLEAN, Closing(gripped)
        PROVE  CycleInv'
    BY <1>0, <1>4, ClosingInv
  <1>5. ASSUME NEW b \in BOOLEAN, Lifting(b) \/ Placing(b)
        PROVE  CycleInv'
    BY <1>0, <1>5, CarryInv
  <1>6. ASSUME NEW backedOff \in BOOLEAN, Opening(backedOff)
        PROVE  CycleInv'
    BY <1>0, <1>6, OpeningInv
  <1>7. ASSUME NEW folded \in BOOLEAN, Releasing \/ Retracting(folded) \/ Stowing
        PROVE  CycleInv'
    BY <1>0, <1>7, FoldInv
  <1> QED
    BY <1>1, <1>2, <1>3, <1>4, <1>5, <1>6, <1>7 DEF Update

\* The arm's owner settles the rock of a finished cycle only, which no weld holds.
LEMMA OwnerInv ==
    ASSUME CycleInv, DirectFingers \/ Settle
    PROVE  CycleInv'
  <1>1. CASE DirectFingers
    BY <1>1 DEF DirectFingers, clocks, bodies, CycleInv, TypeOK, WeldDiscipline,
       TargetHeldStill, StatusTellsPhase, WorksOnARock, IsBusy
  <1>2. CASE Settle
    <2>1. phase \in {"DONE", "FAILED"} /\ UNCHANGED <<phase, weld, status>>
      BY <1>2 DEF Settle
    <2>2. TypeOK'
      BY <1>2 DEF Settle, clocks, CycleInv, TypeOK
    <2>3. (WeldDiscipline /\ TargetHeldStill)'
      BY <2>1 DEF CycleInv, WeldDiscipline, TargetHeldStill
    <2>4. (StatusTellsPhase /\ WorksOnARock)'
      BY <2>1 DEF CycleInv, StatusTellsPhase, WorksOnARock, IsBusy, Busy
    <2> QED BY <2>2, <2>3, <2>4 DEF CycleInv
  <1> QED BY <1>1, <1>2

\* The invariant is inductive.
LEMMA NextInv == CycleInv /\ [Next]_vars => CycleInv'
  <1> SUFFICES ASSUME CycleInv, [Next]_vars PROVE CycleInv'
    OBVIOUS
  <1>1. CASE StartNull
    BY <1>1, StartNullInv
  <1>2. ASSUME NEW r \in Rocks, NEW verdict \in {0, 2, 5}, Start(r, verdict)
        PROVE  CycleInv'
    BY <1>2, StartInv
  <1>3. CASE Update
    BY <1>3, UpdateInv
  <1>4. CASE DirectFingers \/ Settle
    BY <1>4, OwnerInv
  <1>5. CASE UNCHANGED vars
    BY <1>5 DEF vars, CycleInv, TypeOK, WeldDiscipline, TargetHeldStill,
       StatusTellsPhase, WorksOnARock, IsBusy
  <1> QED BY <1>1, <1>2, <1>3, <1>4, <1>5 DEF Next

\* In every reachable state the weld of LrvArm bonds exactly the carried rock, the
\* target is held still while the arm servos onto it, the status tells the phase, and
\* the variables have their types.
THEOREM CycleSafety == Spec => [](TypeOK /\ WeldDiscipline /\ TargetHeldStill /\ StatusTellsPhase)
  <1>1. CycleInv => TypeOK /\ WeldDiscipline /\ TargetHeldStill /\ StatusTellsPhase
    BY DEF CycleInv
  <1> QED BY <1>1, InitInv, NextInv, PTL DEF Spec

\* LrvArm.cpp: the parts of it that the runs check, each on its own.  A weld exists exactly
\* in the phases that carry a rock, and its rock is free to move and does not collide.
COROLLARY WeldIsDisciplined == Spec => []WeldDiscipline
  BY CycleSafety, PTL

\* LrvArm::StartPickPlace: the rock of a cycle is frozen until the fingers hold it.
COROLLARY TargetIsHeld == Spec => []TargetHeldStill
  BY CycleSafety, PTL

----------------------------------------------------------------------------
(* The time budget: how late each phase can be, in seconds and ticks.      *)

\* In phase p at most entry ticks had gone by when it began and it lasts at most limit.
Within(p, entry, limit) == phase = p => total <= entry + age /\ age <= limit

Budget ==
    /\ phase = "APPROACH" /\ ~bent => total <= age /\ age <= TicksPerSecond
    /\ phase = "APPROACH" /\ bent => /\ total <= TicksPerSecond + 1 + age
                                    /\ age + 1 <= 8 * TicksPerSecond
    /\ Within("CLOSING", 9 * TicksPerSecond + 1, CloseTravel)
    /\ phase = "CLOSING" => age <= closed
    /\ Within("LIFTING", 11 * TicksPerSecond + 2, LiftDelay + MaxLift)
    /\ Within("PLACING", 22 * TicksPerSecond + 3, 6 * TicksPerSecond)
    /\ Within("OPENING", 28 * TicksPerSecond + 4, TicksPerSecond)
    /\ Within("RELEASING", 29 * TicksPerSecond + 5, TicksPerSecond)
    /\ Within("RETRACTING", 30 * TicksPerSecond + 6, 4 * TicksPerSecond)
    /\ Within("STOWING", 34 * TicksPerSecond + 7, 2 * TicksPerSecond)

\* It holds of a run without direct commands, which may restart the closing travel for ever.
BudgetInv == ~direct => Budget /\ status.error # 4

\* The roundings of the durations that are not whole seconds.
LEMMA Durations ==
    /\ TicksPerSecond \in Nat /\ TicksPerSecond >= 1
    /\ CloseTravel \in Nat /\ CloseTravel <= 2 * TicksPerSecond
    /\ LiftDelay \in Nat /\ LiftDelay <= 2 * TicksPerSecond
    /\ BackoffTimeout \in Nat /\ BackoffTimeout <= TicksPerSecond
    /\ MaxLift \in Nat /\ MaxLift <= 9 * TicksPerSecond
  BY ArmAssumption DEF CloseTravel, LiftDelay, BackoffTimeout

\* A cycle within its budget is inside total_timeout.
LEMMA BudgetInTime ==
    ASSUME TypeOK, Budget, IsBusy
    PROVE  InTime
  BY Durations DEF TypeOK, Budget, Within, IsBusy, Busy, InTime, TotalTimeout

\* Every Update keeps a cycle within its budget.
LEMMA UpdateBudget ==
    ASSUME CycleInv, ~direct, BudgetInv, Update
    PROVE  BudgetInv'
  <1> USE Durations DEF CycleInv, TypeOK, BudgetInv, Budget, Within, Elapsed
  <1>1. CASE UpdateTimeout
    BY <1>1, BudgetInTime DEF UpdateTimeout
  <1>2. CASE ApproachUnbent
    BY <1>2 DEF ApproachUnbent, In, Enter, Wait, Tick, bodies, BendTime
  <1>3. ASSUME NEW settled \in BOOLEAN, NEW err \in {"in", "short", "gross"},
               ApproachBent(settled, err)
        PROVE  BudgetInv'
    <2>1. phase = "APPROACH" /\ bent
      BY <1>3 DEF ApproachBent, In
    <2>2. \/ Wait /\ age + 1 < CloseTimeout
          \/ FailNow(2)
          \/ Enter("CLOSING") /\ UNCHANGED <<bent, closed, bodies, status, seq>>
      BY <1>3, ApproachOutcomes
    <2>3. CASE Wait /\ age + 1 < CloseTimeout
      BY <2>1, <2>3 DEF Wait, Tick, bodies, CloseTimeout
    <2>4. CASE FailNow(2)
      BY <2>4 DEF FailNow, FinishFailed
    <2>5. CASE Enter("CLOSING") /\ UNCHANGED <<bent, closed, bodies, status, seq>>
      BY <2>1, <2>5 DEF Enter
    <2> QED BY <2>2, <2>3, <2>4, <2>5
  <1>4. ASSUME NEW gripped \in BOOLEAN, Closing(gripped)
        PROVE  BudgetInv'
    BY <1>4 DEF Closing, In, Enter, Tick, bodies, FailNow, FinishFailed, RemoveRockLock
  <1>5. ASSUME NEW raised \in BOOLEAN, Lifting(raised)
        PROVE  BudgetInv'
    BY <1>5 DEF Lifting, In, Enter, Wait, Tick, bodies
  <1>6. ASSUME NEW settled \in BOOLEAN, Placing(settled)
        PROVE  BudgetInv'
    BY <1>6 DEF Placing, In, Enter, Wait, Tick, bodies, PlaceTimeout
  <1>7. ASSUME NEW backedOff \in BOOLEAN, Opening(backedOff)
        PROVE  BudgetInv'
    BY <1>7 DEF Opening, In, Enter, Wait, Tick, bodies
  <1>8. CASE Releasing
    BY <1>8 DEF Releasing, In, Enter, Wait, Tick, bodies, ReleaseHold
  <1>9. ASSUME NEW folded \in BOOLEAN, Retracting(folded)
        PROVE  BudgetInv'
    BY <1>9 DEF Retracting, In, Enter, Wait, Tick, bodies, RetractTimeout
  <1>10. CASE Stowing
    BY <1>10 DEF Stowing, In, Enter, Wait, Tick, bodies, StowHold
  <1> QED
    BY <1>1, <1>2, <1>3, <1>4, <1>5, <1>6, <1>7, <1>8, <1>9, <1>10 DEF Update

\* Whether direct commands are sent is settled for the run.
LEMMA SameDirect == [Next]_vars => direct' = direct
  BY DEF Next, StartNull, Start, Update, DirectFingers, Settle, vars

\* Without direct finger commands no step of the arm or its callers breaks the budget.
LEMMA NextBudget == CycleInv /\ BudgetInv /\ [Next]_vars => BudgetInv'
  <1> SUFFICES ASSUME CycleInv, BudgetInv, [Next]_vars, ~direct PROVE BudgetInv'
    BY SameDirect DEF BudgetInv
  <1> USE DEF BudgetInv, Budget, Within
  <1>1. CASE StartNull
    BY <1>1 DEF StartNull
  <1>2. ASSUME NEW r \in Rocks, NEW verdict \in {0, 2, 5}, Start(r, verdict)
        PROVE  BudgetInv'
    BY <1>2, Durations DEF Start
  <1>3. CASE Update
    BY <1>3, UpdateBudget
  <1>4. CASE Settle
    BY <1>4 DEF Settle, clocks
  <1>5. CASE UNCHANGED vars
    BY <1>5 DEF vars
  <1> QED BY <1>1, <1>2, <1>3, <1>4, <1>5 DEF Next, DirectFingers

\* A cycle no direct command interferes with never runs into total_timeout, whatever the
\* sensors say and however fine the clock: the time-outs of the phases add up to less.
THEOREM NoTimeout == Spec => []NeverTimesOut
  <1>1. Init => BudgetInv
    BY DEF Init, BudgetInv, Budget, Within, Idle
  <1>2. BudgetInv => NeverTimesOut
    BY DEF BudgetInv, NeverTimesOut
  <1>3. CycleInv /\ BudgetInv /\ [Next]_vars => BudgetInv'
    BY NextBudget
  <1> QED BY <1>1, <1>2, <1>3, InitInv, NextInv, PTL DEF Spec

----------------------------------------------------------------------------
(* What the arm may set free. *)

\* An owner that calls ForgetTargetRock leaves the arm no settled rock to free: the
\* rock it still remembers between cycles is one it has let go and nobody fixed since.
Forgotten ==
    /\ phase = "IDLE" => target = NoRock
    /\ phase \in {"RELEASING", "RETRACTING", "STOWING", "DONE", "FAILED"} /\ target \in Rocks
          => ~fixed[target]

\* Every Update leaves the rock it has let go free, and frees no other.
LEMMA UpdateFrees ==
    ASSUME CycleInv, Forgotten, Update
    PROVE  Forgotten' /\ \A r \in Rocks : fixed[r] /\ ~fixed'[r] => r = target'
  <1> DEFINE Goal == Forgotten' /\ \A r \in Rocks : fixed[r] /\ ~fixed'[r] => r = target'
  <1>1. ASSUME UNCHANGED <<target, fixed>>,
               phase' \in Busy \ {"RELEASING", "RETRACTING", "STOWING"}
        PROVE  Goal
    BY <1>1 DEF Forgotten, Busy
  <1>2. ASSUME NEW code \in Nat, FailNow(code) PROVE Goal
    BY <1>2 DEF FailNow, FinishFailed, RemoveRockLock, Freed, Forgotten, CycleInv, TypeOK
  <1>3. ASSUME UNCHANGED <<target, fixed>>,
               phase \in {"RELEASING", "RETRACTING", "STOWING"}, phase' # "IDLE"
        PROVE  Goal
    BY <1>3 DEF Forgotten
  <1>4. CASE UpdateTimeout
    BY <1>4, <1>2 DEF UpdateTimeout
  <1>5. CASE ApproachUnbent
    BY <1>5, <1>1 DEF ApproachUnbent, In, Enter, Wait, bodies, Busy
  <1>6. ASSUME NEW settled \in BOOLEAN, NEW err \in {"in", "short", "gross"},
               ApproachBent(settled, err)
        PROVE  Goal
    <2>1. \/ FailNow(2)
          \/ UNCHANGED <<target, fixed>> /\ phase' \in {"APPROACH", "CLOSING"}
      BY <1>6, ApproachOutcomes DEF ApproachBent, In, Enter, Wait, bodies, CycleInv
    <2> QED BY <2>1, <1>1, <1>2 DEF Busy
  <1>7. ASSUME NEW gripped \in BOOLEAN, Closing(gripped) PROVE Goal
    <2>1. CASE LockRock /\ Enter("LIFTING") /\ UNCHANGED target
      BY <2>1 DEF LockRock, Enter, Freed, Forgotten, CycleInv, TypeOK
    <2>2. CASE FailNow(3)
      BY <2>2, <1>2
    <2>3. CASE UNCHANGED <<phase, bodies>>
      BY <1>7, <2>3, <1>1 DEF Closing, In, bodies, Busy
    <2> QED BY <1>7, <2>1, <2>2, <2>3 DEF Closing
  <1>8. ASSUME NEW b \in BOOLEAN, Lifting(b) \/ Placing(b) PROVE Goal
    BY <1>8, <1>1 DEF Lifting, Placing, In, Enter, Wait, bodies, Busy
  <1>9. ASSUME NEW backedOff \in BOOLEAN, Opening(backedOff) PROVE Goal
    <2>1. CASE RemoveRockLock /\ Enter("RELEASING") /\ UNCHANGED target
      BY <2>1 DEF RemoveRockLock, Enter, Freed, Forgotten, CycleInv, TypeOK
    <2>2. CASE Wait
      BY <1>9, <2>2, <1>1 DEF Opening, In, Wait, bodies, Busy
    <2> QED BY <1>9, <2>1, <2>2 DEF Opening
  <1>10. ASSUME NEW folded \in BOOLEAN, Releasing \/ Retracting(folded) \/ Stowing
         PROVE  Goal
    BY <1>10, <1>3 DEF Releasing, Retracting, Stowing, In, Enter, Wait, bodies
  <1> QED
    BY <1>4, <1>5, <1>6, <1>7, <1>8, <1>9, <1>10 DEF Update

\* The same for every step, when the owner makes the arm forget the rocks it settles.
LEMMA NextFrees ==
    ASSUME Forgets, CycleInv, Forgotten, [Next]_vars
    PROVE  Forgotten' /\ \A r \in Rocks : fixed[r] /\ ~fixed'[r] => r = target'
  <1> DEFINE Goal == Forgotten' /\ \A r \in Rocks : fixed[r] /\ ~fixed'[r] => r = target'
  <1>1. CASE StartNull
    BY <1>1, ArmAssumption DEF StartNull, Forgotten
  <1>2. ASSUME NEW r \in Rocks, NEW verdict \in {0, 2, 5}, Start(r, verdict)
        PROVE  Goal
    <2>1. target \in Rocks => ~fixed[target]
      BY <1>2, ArmAssumption DEF Start, IsBusy, Busy, Phases, CycleInv, TypeOK, Forgotten
    <2>2. fixed' = [fixed EXCEPT ![r] = (verdict = 0)]
      <3>1. Freed(target) = fixed
        BY <2>1 DEF Freed, CycleInv, TypeOK
      <3> QED BY <1>2, <3>1 DEF Start
    <2>3. Forgotten'
      BY <1>2, <2>2 DEF Start, Forgotten, CycleInv, TypeOK
    <2>4. \A q \in Rocks : fixed[q] /\ ~fixed'[q] => q = target'
      BY <1>2, <2>2 DEF Start, CycleInv, TypeOK
    <2> QED BY <2>3, <2>4
  <1>3. CASE Update
    BY <1>3, UpdateFrees
  <1>4. CASE DirectFingers \/ UNCHANGED vars
    BY <1>4 DEF DirectFingers, bodies, vars, Forgotten
  <1>5. CASE Settle
    <2>1. weld = NoRock
      BY <1>5 DEF Settle, CycleInv, WeldDiscipline
    <2>2. target' = NoRock /\ \A r \in Rocks : fixed[r] => fixed'[r]
      BY <1>5, <2>1 DEF Settle, CycleInv, TypeOK
    <2> QED BY <2>2, ArmAssumption DEF Forgotten
  <1> QED BY <1>1, <1>2, <1>3, <1>4, <1>5 DEF Next

\* With ForgetTargetRock called on every rock that is settled, no later command frees a
\* rock other than its own: the laid stones stay fixed whatever the builder does next.
THEOREM SettledStaysFixed ==
    ASSUME Forgets
    PROVE  Spec => FreesOnlyItsTarget
  <1>1. Init => Forgotten
    BY DEF Init, Forgotten
  <1>2. CycleInv /\ Forgotten /\ [Next]_vars => Forgotten'
    BY NextFrees
  <1>3. CycleInv /\ Forgotten /\ [Next]_vars
          => [\A r \in Rocks : fixed[r] /\ ~fixed'[r] => r = target']_vars
    BY NextFrees
  <1> QED
    BY <1>1, <1>2, <1>3, InitInv, NextInv, PTL DEF Spec, FreesOnlyItsTarget

----------------------------------------------------------------------------
(* The phase machine implements the coarse cycle.                          *)

\* The cycle as it is seen in a run without direct commands.
Quiet == INSTANCE ArmCycle WITH stage <- stageOf, held <- weld

\* There, every step is a step of ArmCycle or none.
LEMMA QuietStep ==
    ASSUME ~direct, CycleInv, BudgetInv, [Next]_vars
    PROVE  [Quiet!Next]_Quiet!vars
  <1> USE DEF Quiet!Next, Quiet!vars, stageOf
  <1>1. weld = NoRock <=> phase \notin {"LIFTING", "PLACING", "OPENING"}
    BY DEF CycleInv, WeldDiscipline
  <1>2. CASE StartNull
    BY <1>2, <1>1 DEF StartNull, IsBusy, Busy, Phases, CycleInv, TypeOK, Quiet!Begin
  <1>3. ASSUME NEW r \in Rocks, NEW verdict \in {0, 2, 5}, Start(r, verdict)
        PROVE  Quiet!Begin
    BY <1>3 DEF Start, IsBusy, Busy, Phases, CycleInv, TypeOK, Quiet!Begin
  <1>4. CASE UpdateTimeout
    BY <1>4, BudgetInTime DEF UpdateTimeout, CycleInv, BudgetInv
  <1>5. ASSUME NEW code \in Nat, FailNow(code), phase \in {"APPROACH", "CLOSING"}
        PROVE  Quiet!Fail
    BY <1>5, <1>1 DEF FailNow, FinishFailed, RemoveRockLock, Quiet!Fail
  <1>6. CASE UNCHANGED <<phase, weld>>
    BY <1>6
  <1>7. CASE ApproachUnbent
    BY <1>7 DEF ApproachUnbent, In, Enter, Wait, bodies
  <1>8. ASSUME NEW settled \in BOOLEAN, NEW err \in {"in", "short", "gross"},
               ApproachBent(settled, err)
        PROVE  Quiet!Fail \/ UNCHANGED Quiet!vars
    <2>1. phase = "APPROACH"
      BY <1>8 DEF ApproachBent, In
    <2>2. \/ Wait \/ FailNow(2)
          \/ Enter("CLOSING") /\ UNCHANGED <<bent, closed, bodies, status, seq>>
      BY <1>8, ApproachOutcomes DEF CycleInv
    <2>3. CASE Wait
      BY <2>3 DEF Wait, bodies
    <2>4. CASE Enter("CLOSING") /\ UNCHANGED <<bent, closed, bodies, status, seq>>
      BY <2>1, <2>4 DEF Enter, bodies
    <2> QED BY <2>1, <2>2, <2>3, <2>4, <1>5
  <1>9. ASSUME NEW gripped \in BOOLEAN, Closing(gripped)
        PROVE  Quiet!Grip \/ Quiet!Fail \/ UNCHANGED Quiet!vars
    <2>1. phase = "CLOSING" /\ target \in Rocks
      BY <1>9 DEF Closing, In, CycleInv, WorksOnARock, IsBusy, Busy
    <2>2. CASE LockRock /\ Enter("LIFTING")
      BY <2>1, <2>2 DEF LockRock, Enter, Quiet!Grip
    <2>3. CASE FailNow(3)
      BY <2>1, <2>3, <1>5
    <2>4. CASE UNCHANGED <<phase, bodies>>
      BY <2>4 DEF bodies
    <2> QED BY <1>9, <2>2, <2>3, <2>4 DEF Closing
  <1>10. ASSUME NEW b \in BOOLEAN, Lifting(b) \/ Placing(b)
         PROVE  UNCHANGED Quiet!vars
    BY <1>10 DEF Lifting, Placing, In, Enter, Wait, bodies
  <1>11. ASSUME NEW backedOff \in BOOLEAN, Opening(backedOff)
         PROVE  Quiet!Release \/ UNCHANGED Quiet!vars
    BY <1>11 DEF Opening, In, Enter, Wait, bodies, RemoveRockLock, Quiet!Release
  <1>12. ASSUME NEW folded \in BOOLEAN, Releasing \/ Retracting(folded) \/ Stowing
         PROVE  Quiet!Finish \/ UNCHANGED Quiet!vars
    BY <1>12 DEF Releasing, Retracting, Stowing, In, Enter, Wait, bodies, Quiet!Finish
  <1>13. CASE Settle \/ UNCHANGED vars
    BY <1>13, <1>6 DEF Settle, vars
  <1> QED
    BY <1>2, <1>3, <1>4, <1>7, <1>8, <1>9, <1>10, <1>11, <1>12, <1>13
    DEF Next, Update, DirectFingers

\* So it is in every run, since one with direct commands maps to an arm that stays idle.
LEMMA StepRefines ==
    ASSUME CycleInv, BudgetInv, [Next]_vars
    PROVE  [Cycle!Next]_Cycle!vars
  <1>1. CASE direct
    BY <1>1, SameDirect DEF Cycle!vars
  <1>2. CASE ~direct
    <2>1. [Quiet!Next]_Quiet!vars /\ ~direct'
      BY <1>2, QuietStep, SameDirect
    <2> QED
      BY <1>2, <2>1
      DEF Quiet!Next, Quiet!vars, Quiet!Begin, Quiet!Grip, Quiet!Fail, Quiet!Release, Quiet!Finish,
          Cycle!Next, Cycle!vars, Cycle!Begin, Cycle!Grip, Cycle!Fail, Cycle!Release, Cycle!Finish
  <1> QED BY <1>1, <1>2

\* LrvArm implements the safety part of ArmCycle (the first conjunct of ImplementsCycle):
\* without direct commands a cycle fails only before the grip and is done only after the
\* release.
THEOREM ImplementsArmCycle == Spec => Cycle!Spec
  <1>1. Init => Cycle!Init
    BY DEF Init, Cycle!Init, stageOf
  <1>2. Init => BudgetInv
    BY DEF Init, BudgetInv, Budget, Within, Idle
  <1>3. CycleInv /\ BudgetInv /\ [Next]_vars => BudgetInv'
    BY NextBudget
  <1>4. CycleInv /\ BudgetInv /\ [Next]_vars => [Cycle!Next]_Cycle!vars
    BY StepRefines
  <1> QED
    BY <1>1, <1>2, <1>3, <1>4, InitInv, NextInv, PTL DEF Spec, Cycle!Spec
=============================================================================
