-------------------------- MODULE BuilderArmCycle ---------------------------
(***************************************************************************)
(* The builder's arm bridge composed with the node that commands it        *)
(* (builder_arm_controller.py) over the ROS topics between them.           *)
(*                                                                         *)
(* PublishBuildTopics puts pick_target, place_target and arm_status on     *)
(* three topics.  Each is delivered on its own, in any order, and the      *)
(* controller's timer may fire between two deliveries; all three arrive    *)
(* before the next publication (20 ms of simulation, some 0.6 s of wall    *)
(* time).  arm_cmd is a queue of up to Depth commands: spin_some serves    *)
(* what has arrived and the bridge keeps the last one.                     *)
(***************************************************************************)
EXTENDS BuilderArmBridge, Sequences

CONSTANTS
    Depth,      \* bound on commands in flight (the topics have depth 10)
    MaxSeq,     \* bound on command_seq
    Timeouts    \* TRUE: a command may hit command_timeout_sim_s or command_timeout_s

ASSUME CycleAssumption == Depth \in Nat \ {0} /\ MaxSeq \in Nat /\ Timeouts \in BOOLEAN

VARIABLES
    topics,     \* the messages of the last publication
    fresh,      \* those of them the controller has not received yet
    seen,       \* pick_target, place_target as the controller knows them
    commandSeq, \* command_seq
    active,     \* self.active: [seq, slot, acked], or Inactive
    wire,       \* arm_cmd messages in flight
    working,    \* the command of the cycle the arm last accepted
    gaveUp      \* history: the controller has given a command up

controller == <<seen, commandSeq, active, gaveUp>>
cycleVars == <<vars, topics, fresh, controller, wire, working>>

Inactive == [seq |-> 0, slot |-> -1, acked |-> FALSE]
NoOrder == [seq |-> 0, slot |-> -1, rock |-> NoRock]

CycleInit ==
    /\ Init
    /\ topics = [pick |-> NoOffer, place |-> -1, status |-> [seq |-> 0, state |-> 0]]
    /\ fresh = {}
    /\ seen = [pick |-> NoOffer, place |-> -1]
    /\ commandSeq = 0 /\ active = Inactive
    /\ wire = <<>> /\ working = NoOrder /\ gaveUp = FALSE

----------------------------------------------------------------------------
(* The simulation's side. *)

\* Mutated: done is reported as soon as the rock is let go.
StatusNowEager ==
    [seq |-> lastSeq,
     state |-> CASE arm = "idle" -> 0 [] arm \in {"released", "done"} -> 2
                 [] arm = "failed" -> 3 [] OTHER -> 1]

\* arm_status as the controller reads it: 1 busy, 2 done, 3 failed.
StatusNow ==
    [seq |-> lastSeq,
     state |-> CASE arm = "idle" -> 0 [] arm = "done" -> 2 [] arm = "failed" -> 3 [] OTHER -> 1]

\* A message that repeats the last one on its topic changes nothing at its reader, so only
\* new contents are counted as undelivered.  Publications are 20 ms of simulation apart,
\* more than half a second of wall time: each is delivered before the next is made.
PublishTopics ==
    /\ fresh = {}
    /\ PublishSome
    /\ topics' = [pick |-> PickTarget(gate'),
                  place |-> Lesser(placed, NSlots - 1), status |-> StatusNow]
    /\ fresh' = {t \in DOMAIN topics : topics'[t] # topics[t]}
    /\ UNCHANGED <<controller, wire, working>>

\* A cycle the arm has begun takes seconds of simulation, minutes of wall time: by its
\* end the publication that reports it busy and the commands sent until then are in.
CaughtUp == fresh = {} /\ wire = <<>> /\ topics.status = StatusNow
ArmFinishes == arm \notin {"done", "failed"} /\ arm' \in {"done", "failed"}

\* What is left in flight when the settle window drops the commands that have arrived.
Dropped == {SubSeq(wire, n + 1, Len(wire)) : n \in 0..Len(wire)}

LoopRest ==
    /\ \/ \E delivered \in SUBSET (Rocks \ feedstock), clear \in BOOLEAN : Feed(delivered, clear)
       \/ Book
       \/ Throttled
       \/ Advance
    /\ ArmFinishes => CaughtUp
    /\ wire' \in IF pc = "feed" /\ ~enabled THEN Dropped ELSE {wire}
    /\ UNCHANGED <<topics, fresh, controller, working>>

\* spin_some serves the first n commands in flight; the last of them is pending.
ServeCommands(n) ==
    LET c == IF n = 0 THEN NoOrder ELSE wire[n]
    IN /\ TakeCommand(c)
       /\ wire' = SubSeq(wire, n + 1, Len(wire))
       /\ working' = IF lastSeq' # lastSeq THEN c ELSE working
       /\ UNCHANGED <<topics, fresh, controller>>

Simulation == PublishTopics \/ LoopRest \/ \E n \in 0..Len(wire) : ServeCommands(n)

----------------------------------------------------------------------------
(* The controller's side. *)

OnPickTarget ==
    /\ "pick" \in fresh /\ fresh' = fresh \ {"pick"}
    /\ seen' = [seen EXCEPT !.pick = topics.pick]
    /\ UNCHANGED <<vars, topics, commandSeq, active, gaveUp, wire, working>>

OnPlaceTarget ==
    /\ "place" \in fresh /\ fresh' = fresh \ {"place"}
    /\ seen' = [seen EXCEPT !.place = topics.place]
    /\ UNCHANGED <<vars, topics, commandSeq, active, gaveUp, wire, working>>

\* Mutated: the status of any command is taken for this one's.
OnStatusOfAny ==
    /\ "status" \in fresh /\ fresh' = fresh \ {"status"}
    /\ IF active = Inactive
       THEN UNCHANGED active
       ELSE IF topics.status.state \in {2, 3}
            THEN active' = Inactive
            ELSE active' = [active EXCEPT !.acked = TRUE]
    /\ UNCHANGED <<vars, topics, seen, commandSeq, gaveUp, wire, working>>

\* The status of another command is ignored; done or failed ends this one.
OnStatus ==
    /\ "status" \in fresh /\ fresh' = fresh \ {"status"}
    /\ IF active = Inactive \/ topics.status.seq # active.seq
       THEN UNCHANGED active
       ELSE IF topics.status.state \in {2, 3}
            THEN active' = Inactive
            ELSE active' = [active EXCEPT !.acked = TRUE]
    /\ UNCHANGED <<vars, topics, seen, commandSeq, gaveUp, wire, working>>

\* The message of publish_active: the slot of the active command and the x/y of the
\* pick_target known NOW.  The poses, which may be older than both, are left out.
Send(a) ==
    /\ Len(wire) < Depth
    /\ wire' = Append(wire, [seq |-> a.seq, slot |-> a.slot, rock |-> seen.pick.rock])

Solvable == seen.pick.ready /\ seen.place >= 0

\* on_timer with no command in hand: solve and send.  A target the solver refuses
\* sends nothing, which is this action not being taken.
Command ==
    /\ active = Inactive /\ Solvable /\ commandSeq < MaxSeq
    /\ commandSeq' = commandSeq + 1
    /\ active' = [seq |-> commandSeq', slot |-> seen.pick.slot, acked |-> FALSE]
    /\ Send(active')
    /\ UNCHANGED <<vars, topics, fresh, seen, gaveUp, working>>

\* supervise_active: republish until acknowledged, re-solved or with the last poses.
Republish ==
    /\ active # Inactive /\ ~active.acked
    /\ Send(active)
    /\ UNCHANGED <<vars, topics, fresh, seen, commandSeq, active, gaveUp, working>>

\* command_timeout_sim_s or command_timeout_s, counted from the time the command was
\* first sent; the last republication may still be in flight.
GiveUp ==
    /\ Timeouts /\ active # Inactive
    /\ active' = Inactive /\ gaveUp' = TRUE
    /\ UNCHANGED <<vars, topics, fresh, seen, commandSeq, wire, working>>

Controller ==
    \/ OnPickTarget \/ OnPlaceTarget \/ OnStatus
    \/ Command \/ Republish \/ GiveUp

CycleNext == Simulation \/ Controller

CycleSpec == CycleInit /\ [][CycleNext]_cycleVars

----------------------------------------------------------------------------
(* Properties *)

\* While no command is given up, none is served between the arm's finishing and the
\* booking of its cycle, so no completion is lost.  BuilderArmBridge with LateCommands
\* FALSE rests on this.
NoCommandInTheGap ==
    [][Unbooked /\ pc = "command" /\ ~gaveUp => lastSeq' = lastSeq]_cycleVars

\* A command starts one cycle at most, however often it was republished and however
\* late a copy arrives: the cycles the arm runs carry ever higher numbers.
Started == pc = "command" /\ consumed' # consumed
EachCommandStartsOnce == [][Started => working'.seq > working.seq]_cycleVars

\* While no command is given up, the arm only ever starts for the command the controller
\* is waiting for, whose completion it will therefore be told of.
StartsWhatIsAwaited == [][Started /\ ~gaveUp => working'.seq = active.seq]_cycleVars

\* A command the controller stops republishing was really accepted: nothing newer
\* started since, so the status it waits for will carry its number.
AckMeansAccepted == active.acked => lastSeq = active.seq

=============================================================================
