--------------------------- MODULE HarvestMission ---------------------------
(***************************************************************************)
(* One collector's harvest: the driving node (pure_pursuit_controller.py), *)
(* the manipulator node (manipulator_controller.py), and in the simulation *)
(* the arm bridge, the trailer bridge and the trailer's dump cycle.        *)
(*                                                                         *)
(* targetPos and arm_status repeat the simulation's state many times a     *)
(* second: their readers take it where it stands, at any later time, which *)
(* is what a delayed message does.  The other topics carry events:         *)
(* pickup_request, target_done, mission_done, at_home, arm_cmd,            *)
(* trailer_cmd.                                                            *)
(***************************************************************************)
EXTENDS TrailerDump, Sequences, FiniteSets

CONSTANTS
    MaxHarvest, \* bound on the harvests: the rocks put out after it are not announced
    Depth,      \* bound on the arm commands in flight
    Deadlines   \* which deadlines may strike: of the driver's "target", of a "command"

ASSUME MissionAssumption ==
    MaxHarvest \in Nat /\ Depth \in Nat \ {0} /\ Deadlines \subseteq {"target", "command"}

VARIABLES
    \* the driving node
    targets,    \* len(self.targets)
    target,     \* target_index, NoTarget when none is selected
    waiting,    \* waiting_for_target_done
    requested,  \* last_pickup_request_index = target_index
    finished,   \* its completed_targets
    returning,  \* returning_home
    parked,     \* parked_at_home
    \* the manipulator node
    numTargets, \* num_targets
    active,     \* self.active: [seq, target, seen], or Inactive
    completed,  \* its completed_targets
    missionDone,    \* mission_done
    dumpRequested,  \* dump_requested
    commandSeq, \* command_seq, counted from its seed
    \* the arm bridge
    armStatus,  \* [seq, state, target]; seq is also m_last_started_seq
    \* messages in flight
    requests,   \* pickup_request
    answers,    \* how many target_done: they carry no index
    goHome,     \* mission_done, to the driver
    atHome,     \* at_home
    armCmd,     \* arm_cmd: [seq, target]
    trailerCmd  \* trailer_cmd

driver == <<targets, target, waiting, requested, finished, returning, parked>>
manipulator == <<numTargets, active, completed, missionDone, dumpRequested, commandSeq>>
topics == <<requests, answers, goHome, atHome, armCmd, trailerCmd>>
vars == <<dumpVars, driver, manipulator, armStatus, topics>>

NoTarget == -1
Inactive == [seq |-> 0, target |-> NoTarget, seen |-> FALSE]

Init ==
    /\ DumpInit
    /\ targets = 0 /\ target = NoTarget /\ waiting = FALSE /\ requested = FALSE
    /\ finished = {} /\ returning = FALSE /\ parked = FALSE
    /\ numTargets = 0 /\ active = Inactive /\ completed = {} /\ missionDone = FALSE
    /\ dumpRequested = FALSE /\ commandSeq = 0
    /\ armStatus = [seq |-> 0, state |-> 0, target |-> NoTarget]
    /\ requests = <<>> /\ answers = 0 /\ goHome = FALSE /\ atHome = FALSE
    /\ armCmd = <<>> /\ trailerCmd = FALSE

----------------------------------------------------------------------------
(* The driving node. *)

\* A leg of driving takes minutes of wall time: by its end the messages sent before have
\* arrived and both nodes know the rocks that are out.
CaughtUp ==
    /\ requests = <<>> /\ answers = 0 /\ armCmd = <<>> /\ ~goHome /\ ~atHome
    /\ targets = RockCount /\ numTargets = RockCount

\* on_target_pos: a list that grew is a new harvest.
DriverTargets ==
    /\ targets < RockCount /\ harvest < MaxHarvest
    /\ targets' = RockCount
    /\ IF targets > 0
       THEN returning' = FALSE /\ parked' = FALSE
       ELSE UNCHANGED <<returning, parked>>
    /\ UNCHANGED <<dumpVars, target, waiting, requested, finished, manipulator, armStatus, topics>>

\* The bookkeeping on_target_done and abandon_current_target share.
LeaveTarget ==
    /\ finished' = finished \cup {target}
    /\ target' = NoTarget /\ waiting' = FALSE /\ requested' = FALSE
    /\ UNCHANGED <<targets, returning, parked>>

\* Without a selected target it is ignored.
OnTargetDone ==
    /\ answers > 0 /\ answers' = answers - 1
    /\ IF target = NoTarget THEN UNCHANGED driver ELSE LeaveTarget
    /\ UNCHANGED <<dumpVars, manipulator, armStatus, requests, goHome, atHome, armCmd, trailerCmd>>

OnMissionDone ==
    /\ goHome /\ goHome' = FALSE
    /\ returning' = TRUE
    /\ UNCHANGED <<dumpVars, targets, target, waiting, requested, finished, parked, manipulator,
                   armStatus, requests, answers, atHome, armCmd, trailerCmd>>

\* on_timer on the way out: target_done_timeout_sim_s has passed since the selection.
Abandon ==
    /\ "target" \in Deadlines
    /\ ~returning /\ target # NoTarget
    /\ LeaveTarget
    /\ UNCHANGED <<dumpVars, manipulator, armStatus, topics>>

Remaining == 0..(targets - 1) \ finished

\* on_timer driving: the target in hand, or the nearest remaining one; on arrival at a
\* usable angle it latches and waits.
Pursue(arrived) ==
    /\ ~returning /\ ~waiting
    /\ arrived => CaughtUp
    /\ \E t \in IF target # NoTarget THEN {target} ELSE Remaining : target' = t
    /\ waiting' = arrived
    /\ UNCHANGED <<dumpVars, targets, requested, finished, returning, parked, manipulator,
                   armStatus, topics>>

\* on_timer waiting: one pickup request, once at a full stop.
Request ==
    /\ ~returning /\ waiting /\ ~requested
    /\ requests' = Append(requests, target) /\ requested' = TRUE
    /\ UNCHANGED <<dumpVars, targets, target, waiting, finished, returning, parked, manipulator,
                   armStatus, answers, goHome, atHome, armCmd, trailerCmd>>

\* drive_home: stopped in the drop band it parks, and then asserts its arrival in
\* every tick.
ReportHome ==
    /\ returning
    /\ parked \/ CaughtUp
    /\ parked' = TRUE /\ atHome' = TRUE
    /\ UNCHANGED <<dumpVars, targets, target, waiting, requested, finished, returning,
                   manipulator, armStatus, requests, answers, goHome, armCmd, trailerCmd>>

Driver ==
    \/ DriverTargets \/ OnTargetDone \/ OnMissionDone \/ Abandon
    \/ (\E arrived \in BOOLEAN : Pursue(arrived)) \/ Request \/ ReportHome

----------------------------------------------------------------------------
(* The manipulator node. *)

\* Mutated: the latches of the last harvest are kept.
ManipulatorTargetsLatched ==
    /\ numTargets < RockCount /\ harvest < MaxHarvest
    /\ numTargets' = RockCount
    /\ dumpRequested' = FALSE
    /\ UNCHANGED <<dumpVars, driver, active, completed, missionDone, commandSeq, armStatus, topics>>

\* on_target_pos: a list that grew clears the latches of the last harvest.
ManipulatorTargets ==
    /\ numTargets < RockCount /\ harvest < MaxHarvest
    /\ numTargets' = RockCount
    /\ IF numTargets > 0
       THEN missionDone' = FALSE /\ dumpRequested' = FALSE
       ELSE UNCHANGED <<missionDone, dumpRequested>>
    /\ UNCHANGED <<dumpVars, driver, active, completed, commandSeq, armStatus, topics>>

\* publish_target_done and maybe_publish_mission_done.  Its own mission_done comes back
\* to the node too, which finds mission_done already set.
PublishTargetDone(t) ==
    /\ completed' = completed \cup {t}
    /\ answers' = answers + 1
    /\ IF ~missionDone /\ numTargets > 0 /\ Cardinality(completed') >= numTargets
       THEN missionDone' = TRUE /\ goHome' = TRUE
       ELSE UNCHANGED <<missionDone, goHome>>

Command(a) == [seq |-> a.seq, target |-> a.target]

\* Mutated: an unsolvable request is only logged.
OnPickupRequestBareReturn(solvable) ==
    /\ requests # <<>> /\ requests' = Tail(requests)
    /\ Len(armCmd) < Depth
    /\ LET t == Head(requests)
       IN IF t \in completed \/ active # Inactive \/ ~solvable
          THEN UNCHANGED <<manipulator, answers, goHome, armCmd>>
          ELSE /\ commandSeq' = commandSeq + 1
               /\ active' = [seq |-> commandSeq', target |-> t, seen |-> FALSE]
               /\ armCmd' = Append(armCmd, Command(active'))
               /\ UNCHANGED <<numTargets, completed, missionDone, dumpRequested, answers, goHome>>
    /\ UNCHANGED <<dumpVars, driver, armStatus, atHome, trailerCmd>>

\* A request for an answered target, or beside an active one, is ignored.  One without a
\* grab pose is answered at once (skip_failed_targets); the others are commanded.
OnPickupRequest(solvable) ==
    /\ requests # <<>> /\ requests' = Tail(requests)
    /\ Len(armCmd) < Depth
    /\ LET t == Head(requests)
       IN IF t \in completed \/ active # Inactive
          THEN UNCHANGED <<manipulator, answers, goHome, armCmd>>
          ELSE IF ~solvable
          THEN PublishTargetDone(t)
               /\ UNCHANGED <<numTargets, active, dumpRequested, commandSeq, armCmd>>
          ELSE /\ commandSeq' = commandSeq + 1
               /\ active' = [seq |-> commandSeq', target |-> t, seen |-> FALSE]
               /\ armCmd' = Append(armCmd, Command(active'))
               /\ UNCHANGED <<numTargets, completed, missionDone, dumpRequested, answers, goHome>>
    /\ UNCHANGED <<dumpVars, driver, armStatus, atHome, trailerCmd>>

\* Mutated: a failed command is not answered.
OnArmStatusSilent ==
    /\ active # Inactive /\ armStatus.seq = active.seq
    /\ IF armStatus.state = 2
       THEN PublishTargetDone(armStatus.target) /\ active' = Inactive
       ELSE /\ active' = IF armStatus.state = 3 THEN Inactive ELSE [active EXCEPT !.seen = TRUE]
            /\ UNCHANGED <<completed, missionDone, answers, goHome>>
    /\ UNCHANGED <<dumpVars, driver, numTargets, dumpRequested, commandSeq, armStatus,
                   requests, atHome, armCmd, trailerCmd>>

\* Done or failed, the target is answered (skip_failed_targets).
OnArmStatus ==
    /\ active # Inactive /\ armStatus.seq = active.seq
    /\ IF armStatus.state \in {2, 3}
       THEN PublishTargetDone(armStatus.target) /\ active' = Inactive
       ELSE /\ active' = [active EXCEPT !.seen = TRUE]
            /\ UNCHANGED <<completed, missionDone, answers, goHome>>
    /\ UNCHANGED <<dumpVars, driver, numTargets, dumpRequested, commandSeq, armStatus,
                   requests, atHome, armCmd, trailerCmd>>

\* on_timer: republished until its status is seen.
Republish ==
    /\ active # Inactive /\ ~active.seen /\ Len(armCmd) < Depth
    /\ armCmd' = Append(armCmd, Command(active))
    /\ UNCHANGED <<dumpVars, driver, manipulator, armStatus, requests, answers, goHome, atHome,
                   trailerCmd>>

\* on_timer: command_timeout_sim_s or command_timeout_s.
GiveUp ==
    /\ "command" \in Deadlines /\ active # Inactive
    /\ PublishTargetDone(active.target) /\ active' = Inactive
    /\ UNCHANGED <<dumpVars, driver, numTargets, dumpRequested, commandSeq, armStatus,
                   requests, atHome, armCmd, trailerCmd>>

\* Mutated: every report of the arrival asks for a dump.
OnAtHomeAgain ==
    /\ atHome /\ atHome' = FALSE
    /\ dumpRequested' = (dumpRequested \/ missionDone)
    /\ trailerCmd' = (trailerCmd \/ missionDone)
    /\ UNCHANGED <<dumpVars, driver, numTargets, active, completed, missionDone, commandSeq,
                   armStatus, requests, answers, goHome, armCmd>>

\* One dump request per mission.
OnAtHome ==
    /\ atHome /\ atHome' = FALSE
    /\ IF dumpRequested \/ ~missionDone
       THEN UNCHANGED <<dumpRequested, trailerCmd>>
       ELSE dumpRequested' = TRUE /\ trailerCmd' = TRUE
    /\ UNCHANGED <<dumpVars, driver, numTargets, active, completed, missionDone, commandSeq,
                   armStatus, requests, answers, goHome, armCmd>>

Manipulator ==
    \/ ManipulatorTargets \/ (\E solvable \in BOOLEAN : OnPickupRequest(solvable))
    \/ OnArmStatus \/ Republish \/ GiveUp \/ OnAtHome

----------------------------------------------------------------------------
(* The simulation. *)

\* Mutated: a copy of the last command starts it again.
ServeArmCmdAgain(n) ==
    LET c == armCmd[n]
    IN /\ armCmd' = SubSeq(armCmd, n + 1, Len(armCmd))
       /\ IF armStatus.state # 1 /\ c.seq >= armStatus.seq
          THEN \E s \in {1, 3} :
                  armStatus' = [seq |-> c.seq, state |-> s, target |-> c.target]
          ELSE UNCHANGED armStatus
       /\ UNCHANGED <<dumpVars, driver, manipulator, requests, answers, goHome, atHome, trailerCmd>>

\* RosArmBridge::Synchronize: spin_some serves n commands and the last one counts, if
\* the arm is free and it is newer than the last one started.  The arm may fail at once.
ServeArmCmd(n) ==
    LET c == armCmd[n]
    IN /\ armCmd' = SubSeq(armCmd, n + 1, Len(armCmd))
       /\ IF armStatus.state # 1 /\ c.seq > armStatus.seq
          THEN \E s \in {1, 3} :
                  armStatus' = [seq |-> c.seq, state |-> s, target |-> c.target]
          ELSE UNCHANGED armStatus
       /\ UNCHANGED <<dumpVars, driver, manipulator, requests, answers, goHome, atHome, trailerCmd>>

\* The cycle ends; a rock that was laid lies in the bed, or fell beside it.
ArmFinishes ==
    /\ armStatus.state = 1
    /\ \E s \in {2, 3} : armStatus' = [armStatus EXCEPT !.state = s]
    /\ \/ armStatus'.state = 2 /\ Loaded(armStatus.target)
       \/ UNCHANGED dumpVars
    /\ UNCHANGED <<driver, manipulator, topics>>

\* RosTrailerBridge::Synchronize.
ServeTrailerCmd ==
    /\ trailerCmd /\ harvest < MaxHarvest
    /\ trailerCmd' = FALSE
    /\ IF Ready THEN RequestTrailerDump ELSE UNCHANGED dumpVars
    /\ UNCHANGED <<driver, manipulator, armStatus, requests, answers, goHome, atHome, armCmd>>

Trailer ==
    /\ AdvanceDumpCycle \/ Slide \/ Freeze
    /\ UNCHANGED <<driver, manipulator, armStatus, topics>>

Simulation ==
    (\E n \in 1..Len(armCmd) : ServeArmCmd(n)) \/ ArmFinishes \/ ServeTrailerCmd \/ Trailer

Next == Driver \/ Manipulator \/ Simulation

----------------------------------------------------------------------------
(* Fairness: every node is spun and every timer fires, the simulation steps, a leg of  *)
(* driving ends and so does a cycle of the arm.  No deadline has to strike.            *)

Fairness ==
    /\ WF_vars(DriverTargets) /\ WF_vars(OnTargetDone) /\ WF_vars(OnMissionDone)
    /\ WF_vars(Pursue(TRUE)) /\ WF_vars(Request) /\ WF_vars(ReportHome)
    /\ WF_vars(ManipulatorTargets) /\ WF_vars(\E solvable \in BOOLEAN : OnPickupRequest(solvable))
    /\ WF_vars(OnArmStatus) /\ WF_vars(Republish) /\ WF_vars(OnAtHome)
    /\ WF_vars(\E n \in 1..Len(armCmd) : ServeArmCmd(n)) /\ WF_vars(ArmFinishes)
    /\ WF_vars(ServeTrailerCmd)
    /\ WF_vars(AdvanceDumpCycle /\ UNCHANGED <<driver, manipulator, armStatus, topics>>)

Spec == Init /\ [][Next]_vars /\ Fairness

----------------------------------------------------------------------------
(* Properties *)

TypeOK ==
    /\ DumpTypeOK
    /\ targets \in 0..RockCount /\ numTargets \in 0..RockCount
    /\ target \in Out \cup {NoTarget}
    /\ waiting => target # NoTarget
    /\ finished \subseteq Out /\ completed \subseteq Out
    /\ armStatus.seq <= commandSeq
    /\ Len(armCmd) <= Depth

\* The trailer only tips while the rover stands parked at the drop point.
ParkedWhileDumping == ~Ready => returning /\ parked

\* A dump begins only when every rock that is out has been answered: one dump per
\* harvest, with all of it.
DumpsWholeHarvest ==
    [][Ready /\ dump' = "openingGate" => completed = Out]_vars

\* "The manipulator is supposed to answer every pickup request with target_done": as long
\* as the driver skipped nothing of its own accord, a rover that waits for an answer has
\* its request, its command or its answer under way.
Skipped == finished \ completed
RequestIsAnswered ==
    waiting /\ requested /\ Skipped = {} =>
        \/ answers > 0
        \/ active.target = target
        \/ \E i \in 1..Len(requests) : requests[i] = target

\* Every harvest is collected, brought home and dumped, unless the driver skips a rock.
HarvestGoesOn ==
    [](Skipped = {}) => \A h \in 0..(MaxHarvest - 1) : harvest = h ~> harvest > h

\* "Every rock either collected or skipped -> tell the driver to go home": once nothing
\* remains for the driver it is sent home.
SentHome == (targets = RockCount /\ Remaining = {}) ~> returning

\* The mission uses its trailer as TrailerDump assumes: only rocks that lie about are
\* loaded.
ImplementsDump == DumpSpec

\* The mission keeps to the haul cycle.
Phase ==
    IF ~Ready THEN "tip"
    ELSE IF returning /\ targets = RockCount THEN "return" ELSE "collect"
Haul == INSTANCE HaulCycle WITH phase <- Phase, loads <- harvest
ImplementsHaul == Haul!Spec

=============================================================================
