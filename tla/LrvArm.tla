------------------------------- MODULE LrvArm -------------------------------
(***************************************************************************)
(* The arm of src/LrvArm.cpp: the phase machine of one pick/place cycle,   *)
(* the weld that bonds a rock to the end effector, and the fixed/collision *)
(* flags of the rock bodies the arm switches.  StartPickPlace is Start,    *)
(* Update is one action per phase, and the owner of the arm (a ROS bridge) *)
(* re-fixes the rock of a finished cycle.                                  *)
(*                                                                         *)
(* Time is counted in ticks of TicksPerSecond per second.  Update runs     *)
(* every 0.5 ms in the code; here it runs once a tick, so each phase lasts *)
(* up to one tick longer than in the code and the sum the total timeout is *)
(* compared with is an over-estimate.  Sensor readings (gripper speed,     *)
(* gripper error, pad contact, joint and finger positions) are free.       *)
(***************************************************************************)
EXTENDS Naturals

CONSTANTS
    Rocks, NoRock,      \* rock bodies; NoRock is the null pointer
    TicksPerSecond,     \* resolution of the model's clock
    MaxLift,            \* longest ramp of LIFTING, ticks (lift_theta2 at lift_speed)
    MaxSeq,             \* bound on the commands of a behaviour
    Forgets             \* TRUE: the owner calls ForgetTargetRock when it settles a rock

ASSUME ArmAssumption ==
    /\ NoRock \notin Rocks
    /\ TicksPerSecond \in Nat \ {0}
    /\ MaxLift \in 0..(9 * TicksPerSecond)   \* at most 4.5 rad to cross
    /\ MaxSeq \in Nat
    /\ Forgets \in BOOLEAN

VARIABLES
    phase,      \* m_phase
    total,      \* ticks since m_start_time
    age,        \* ticks since m_phase_time
    bent,       \* m_bent_arm
    closed,     \* m_close_pos, in ticks of closing travel
    target,     \* m_target_rock
    weld,       \* the rock m_rock_lock bonds to the end effector, or NoRock
    fixed,      \* ChBody::IsFixed of each rock
    collides,   \* ChBody::IsCollisionEnabled of each rock
    status,     \* m_status: state and error_code (success is state = 2)
    seq,        \* m_status.command_seq
    direct      \* whether 5-element direct commands are sent in this run

clocks == <<total, age>>
bodies == <<target, weld, fixed, collides>>
vars == <<phase, total, age, bent, closed, target, weld, fixed, collides, status, seq,
          direct>>

----------------------------------------------------------------------------
(* Durations of LrvArm.cpp, in ticks. *)

TotalTimeout   == 45 * TicksPerSecond
BendTime       == TicksPerSecond          \* approach_2_time 1.0 s
CloseTimeout   == 8 * TicksPerSecond      \* close_timeout
CloseTravel    == (145 * TicksPerSecond) \div 100   \* finger_close_pos at finger_close_speed
LiftDelay      == (3 * TicksPerSecond) \div 2
PlaceTimeout   == 6 * TicksPerSecond
BackoffTimeout == TicksPerSecond \div 2
ReleaseHold    == TicksPerSecond
\* Mutated forms, here and below, are faults the properties must expose: this one
\* mistypes the retract timeout.
RetractTimeoutMistyped == 40 * TicksPerSecond

RetractTimeout == 4 * TicksPerSecond
StowHold       == 2 * TicksPerSecond

Busy == {"APPROACH", "CLOSING", "LIFTING", "PLACING", "OPENING", "RELEASING",
         "RETRACTING", "STOWING"}
Phases == Busy \cup {"IDLE", "DONE", "FAILED"}

IsBusy == phase \in Busy

Idle == [state |-> 0, error |-> 0]

----------------------------------------------------------------------------
(* RemoveRockLock: the weld goes, and the target rock becomes a free,      *)
(* colliding body.  It acts on m_target_rock whether or not a weld exists. *)

Freed(t) == IF t \in Rocks THEN [fixed EXCEPT ![t] = FALSE] ELSE fixed
Solid(t) == IF t \in Rocks THEN [collides EXCEPT ![t] = TRUE] ELSE collides

RemoveRockLock ==
    /\ weld' = NoRock
    /\ fixed' = Freed(target)
    /\ collides' = Solid(target)

FinishFailed(code) ==
    /\ RemoveRockLock
    /\ closed' = 0
    /\ phase' = "FAILED"
    /\ status' = [state |-> 3, error |-> code]

Init ==
    /\ phase = "IDLE" /\ total = 0 /\ age = 0 /\ bent = FALSE /\ closed = 0
    /\ target = NoRock /\ weld = NoRock
    /\ fixed = [r \in Rocks |-> TRUE] /\ collides = [r \in Rocks |-> TRUE]
    /\ status = Idle /\ seq = 0
    /\ direct \in BOOLEAN

----------------------------------------------------------------------------
(* StartPickPlace, called by a bridge only while the arm is not busy.      *)

\* A null rock (bad index): the reference is dropped before OpenGripper runs.
StartNull ==
    /\ ~IsBusy /\ seq < MaxSeq
    /\ seq' = seq + 1
    /\ target' = NoRock
    /\ phase' = "FAILED" /\ status' = [state |-> 3, error |-> 1]
    /\ weld' = NoRock /\ closed' = 0
    /\ UNCHANGED <<clocks, bent, fixed, collides, direct>>

\* Mutated: the new target is frozen before OpenGripper runs, which frees it again.
StartFreezesFirst(r, verdict) ==
    /\ ~IsBusy /\ seq < MaxSeq
    /\ seq' = seq + 1
    /\ target' = r /\ weld' = NoRock
    /\ total' = 0 /\ age' = 0 /\ bent' = FALSE /\ closed' = 0
    /\ collides' = [Solid(target) EXCEPT ![r] = TRUE]
    /\ fixed' = [Freed(target) EXCEPT ![r] = FALSE]
    /\ phase' = IF verdict = 0 THEN "APPROACH" ELSE "FAILED"
    /\ status' = IF verdict = 0 THEN [state |-> 1, error |-> 0]
                                ELSE [state |-> 3, error |-> verdict]
    /\ UNCHANGED direct

\* OpenGripper on the PREVIOUS target, then the new one is frozen in place.
\* A missing solved pose fails with 2, a pose out of the reach envelope with 5;
\* both fail through OpenGripper, which frees the new target again.
Start(r, verdict) ==
    /\ ~IsBusy /\ seq < MaxSeq
    /\ seq' = seq + 1
    /\ target' = r /\ weld' = NoRock
    /\ total' = 0 /\ age' = 0 /\ bent' = FALSE /\ closed' = 0
    /\ collides' = [Solid(target) EXCEPT ![r] = TRUE]
    /\ fixed' = [Freed(target) EXCEPT ![r] = (verdict = 0)]
    /\ phase' = IF verdict = 0 THEN "APPROACH" ELSE "FAILED"
    /\ status' = IF verdict = 0 THEN [state |-> 1, error |-> 0]
                                ELSE [state |-> 3, error |-> verdict]
    /\ UNCHANGED direct

----------------------------------------------------------------------------
(* Update.  Elapsed(d): d ticks of the phase have gone by at this Update.  *)

Elapsed(d) == age + 1 > d
InTime == total + 1 <= TotalTimeout

\* The phase is p and the cycle is still inside total_timeout.
In(p) == phase = p /\ InTime

Tick == total' = total + 1 /\ age' = age + 1
Enter(p) == phase' = p /\ total' = total + 1 /\ age' = 0
FailNow(code) == FinishFailed(code) /\ Tick /\ UNCHANGED <<bent, target, seq>>

\* The phase goes on: only the clocks move.
Wait == Tick /\ UNCHANGED <<phase, bent, closed, bodies, status, seq>>

\* Mutated: a cycle out of time is tried again from the start.
UpdateTimeoutRetries ==
    /\ IsBusy /\ ~InTime
    /\ RemoveRockLock
    /\ phase' = "APPROACH" /\ total' = 0 /\ age' = 0
    /\ UNCHANGED <<bent, closed, target, status, seq>>

UpdateTimeout ==
    /\ IsBusy /\ ~InTime
    /\ FailNow(4)

ApproachUnbent ==
    /\ In("APPROACH") /\ ~bent
    /\ IF Elapsed(BendTime)
       THEN Enter("APPROACH") /\ bent' = TRUE /\ UNCHANGED <<closed, bodies, status, seq>>
       ELSE Wait

\* settled: the gripper is quiet; err: its distance to the target ("in" within
\* grab_accept_dist, "short" up to divergence_abort, "gross" beyond).
ApproachBent(settled, err) ==
    /\ In("APPROACH") /\ bent
    /\ LET judged == settled \/ age + 1 >= CloseTimeout IN
       CASE ~judged -> Wait
         [] judged /\ err = "gross" -> FailNow(2)
         [] judged /\ err = "short" ->
              IF age + 1 >= CloseTimeout THEN FailNow(2) ELSE Wait
         [] judged /\ err = "in" ->
              Enter("CLOSING") /\ UNCHANGED <<bent, closed, bodies, status, seq>>

\* Mutated: the bonded rock goes on colliding with the fingers.
LockRockSolid ==
    /\ weld' = target
    /\ fixed' = Freed(target)
    /\ UNCHANGED collides

\* TryLockRock: the target is unfixed and stops colliding, then it is welded.
LockRock ==
    /\ weld' = target
    /\ fixed' = Freed(target)
    /\ collides' = [collides EXCEPT ![target] = FALSE]

\* gripped: contact was seen, both fingers are near and the pads close enough.
Closing(gripped) ==
    /\ In("CLOSING")
    /\ CASE gripped -> /\ LockRock /\ Enter("LIFTING")
                       /\ closed' = closed + 1
                       /\ UNCHANGED <<bent, target, status, seq>>
         [] ~gripped /\ closed >= CloseTravel -> FailNow(3)
         [] OTHER -> /\ Tick /\ closed' = closed + 1
                     /\ UNCHANGED <<phase, bent, bodies, status, seq>>

\* raised: the ramp has reached lift_theta2.  It does so within MaxLift ticks.
Lifting(raised) ==
    /\ In("LIFTING")
    /\ (raised => Elapsed(LiftDelay))
    /\ (~raised => age < LiftDelay + MaxLift)
    /\ IF raised THEN Enter("PLACING") /\ UNCHANGED <<bent, closed, bodies, status, seq>>
                 ELSE Wait

Placing(settled) ==
    /\ In("PLACING")
    /\ IF settled \/ Elapsed(PlaceTimeout)
       THEN Enter("OPENING") /\ closed' = 0 /\ UNCHANGED <<bent, bodies, status, seq>>
       ELSE Wait

\* Mutated: pads that do not back off in time fail the cycle, rock in hand.
OpeningFails(backedOff) ==
    /\ In("OPENING")
    /\ CASE backedOff -> /\ RemoveRockLock /\ Enter("RELEASING")
                         /\ UNCHANGED <<bent, closed, target, status, seq>>
         [] ~backedOff /\ Elapsed(BackoffTimeout) -> FailNow(3)
         [] OTHER -> Wait

\* The weld outlives the grip until the pads have backed off.
Opening(backedOff) ==
    /\ In("OPENING")
    /\ IF backedOff \/ Elapsed(BackoffTimeout)
       THEN RemoveRockLock /\ Enter("RELEASING") /\ UNCHANGED <<bent, closed, target, status, seq>>
       ELSE Wait

Releasing ==
    /\ In("RELEASING")
    /\ IF Elapsed(ReleaseHold)
       THEN Enter("RETRACTING") /\ UNCHANGED <<bent, closed, bodies, status, seq>>
       ELSE Wait

Retracting(folded) ==
    /\ In("RETRACTING")
    /\ IF folded \/ Elapsed(RetractTimeout)
       THEN Enter("STOWING") /\ UNCHANGED <<bent, closed, bodies, status, seq>>
       ELSE Wait

Stowing ==
    /\ In("STOWING")
    /\ IF Elapsed(StowHold)
       THEN /\ Tick /\ phase' = "DONE" /\ status' = [state |-> 2, error |-> 0]
            /\ UNCHANGED <<bent, closed, bodies, seq>>
       ELSE Wait

Update ==
    /\ UNCHANGED direct
    /\ \/ UpdateTimeout
       \/ ApproachUnbent
       \/ \E settled \in BOOLEAN, err \in {"in", "short", "gross"} : ApproachBent(settled, err)
       \/ \E gripped \in BOOLEAN : Closing(gripped)
       \/ \E raised \in BOOLEAN : Lifting(raised)
       \/ \E settled \in BOOLEAN : Placing(settled)
       \/ \E backedOff \in BOOLEAN : Opening(backedOff)
       \/ Releasing
       \/ \E folded \in BOOLEAN : Retracting(folded)
       \/ Stowing

----------------------------------------------------------------------------
(* The arm's callers. *)

\* A 5-element arm_cmd in the middle of a cycle: SetFingerClosure overwrites
\* m_close_pos, so the closing travel starts over.
DirectFingers ==
    /\ direct /\ closed # 0
    /\ closed' = 0
    /\ UNCHANGED <<phase, clocks, bent, bodies, status, seq, direct>>

\* Mutated: the owner does not make the arm forget the rock.
SettleRemembers ==
    /\ phase = "DONE" \/ (Forgets /\ phase = "FAILED")
    /\ target # NoRock
    /\ fixed' = [fixed EXCEPT ![target] = TRUE]
    /\ collides' = [collides EXCEPT ![target] = TRUE]
    /\ UNCHANGED <<phase, clocks, bent, closed, target, weld, status, seq, direct>>

\* The owner fixes the rock of a finished cycle where it lies: the builder's
\* bridge when it books the completion or the failure, the rover's rig when a
\* rock it delivered and dumped has come to rest.  Only the bridge then calls
\* ForgetTargetRock, which refuses while a weld exists.
Settle ==
    /\ phase = "DONE" \/ (Forgets /\ phase = "FAILED")
    /\ target # NoRock
    /\ fixed' = [fixed EXCEPT ![target] = TRUE]
    /\ collides' = [collides EXCEPT ![target] = TRUE]
    /\ target' = IF Forgets /\ weld = NoRock THEN NoRock ELSE target
    /\ UNCHANGED <<phase, clocks, bent, closed, weld, status, seq, direct>>

Next ==
    \/ StartNull
    \/ \E r \in Rocks, verdict \in {0, 2, 5} : Start(r, verdict)
    \/ Update
    \/ DirectFingers
    \/ Settle

\* Update is issued every physics step of the simulation loop, whatever else
\* happens, so a busy arm never waits for ever for its next Update.
Spec == Init /\ [][Next]_vars /\ WF_vars(Update)

----------------------------------------------------------------------------
(* Properties *)

TypeOK ==
    /\ phase \in Phases
    /\ total \in Nat /\ age \in Nat /\ closed \in Nat
    /\ bent \in BOOLEAN
    /\ target \in Rocks \cup {NoRock} /\ weld \in Rocks \cup {NoRock}
    /\ fixed \in [Rocks -> BOOLEAN] /\ collides \in [Rocks -> BOOLEAN]
    /\ status \in [state : 0..2, error : {0}] \cup [state : {3}, error : 1..5]
    /\ seq \in 0..MaxSeq
    /\ direct \in BOOLEAN

\* A weld exists exactly while the rock is carried, it bonds the rock the cycle
\* is for, and that rock is a dynamic body that collides with nothing (the
\* comments of TryLockRock and of the OPENING phase).
WeldDiscipline ==
    /\ (weld # NoRock) <=> (phase \in {"LIFTING", "PLACING", "OPENING"})
    /\ weld # NoRock => /\ weld = target
                        /\ ~fixed[weld]
                        /\ ~collides[weld]

\* The rock stays frozen while the arm servos onto it, so the approach cannot
\* shove it (StartPickPlace).
TargetHeldStill ==
    phase \in {"APPROACH", "CLOSING"} => fixed[target] /\ collides[target]

\* The status the controllers read agrees with the phase: busy exactly while a
\* phase runs, done and failed exactly in those phases.
StatusTellsPhase ==
    /\ status.state = 1 <=> IsBusy
    /\ status.state = 2 <=> phase = "DONE"
    /\ status.state = 3 <=> phase = "FAILED"

\* The per-phase bounds add up to less than total_timeout, so a cycle that no
\* direct command disturbs never runs into it: it cannot lose a rock it is carrying
\* or report a laid rock as failed.
NeverTimesOut == ~direct => status.error # 4

\* The arm sets free no body but the one it is working on: a rock its owner has
\* settled (a laid stone, delivered feedstock) is never unfixed by a later command
\* for another rock.  ForgetTargetRock is what buys this.
FreesOnlyItsTarget ==
    [][\A r \in Rocks : fixed[r] /\ ~fixed'[r] => r = target']_vars

\* A busy arm always finishes its cycle, though a direct command restarts the closing
\* travel at any time.
CycleEnds == IsBusy ~> ~IsBusy

\* Where the cycle stands, as the bridges see it.
stageOf ==
    CASE phase = "IDLE" -> "idle"
      [] phase \in {"APPROACH", "CLOSING"} -> "reaching"
      [] phase \in {"LIFTING", "PLACING", "OPENING"} -> "carrying"
      [] phase \in {"RELEASING", "RETRACTING", "STOWING"} -> "released"
      [] phase = "DONE" -> "done"
      [] phase = "FAILED" -> "failed"

\* A run with direct commands may fail rock in hand.  It is not claimed to be a cycle: it
\* maps to an arm that nobody commands.
Cycle == INSTANCE ArmCycle WITH stage <- IF direct THEN "idle" ELSE stageOf,
                                held <- IF direct THEN NoRock ELSE weld

\* Without direct commands every step of the phase machine is a step of ArmCycle or none:
\* a cycle fails only before the rock is gripped, succeeds only after it was released, and
\* under the code's scheduling always moves on.
ImplementsCycle == Cycle!FairSpec
=============================================================================
