------------------------ MODULE BuilderArmCycleProofs ------------------------
(***************************************************************************)
(* Theorems about the bridge composed with its controller, for any course  *)
(* and rocks, any number of commands and of them in flight: what the       *)
(* numbers of the commands are good for, what of BuilderArmBridgeProofs    *)
(* the composition keeps always, and what until a command is given up.     *)
(***************************************************************************)
EXTENDS BuilderArmCycle, BuilderArmBridgeProofs

\* Every number in use was given by the controller, and the one it works with is the last.
Numbering ==
    /\ \E S : wire \in Seq(S)
    /\ lastSeq \in Nat /\ commandSeq \in Nat /\ topics.status.seq \in Nat
    /\ working.seq = lastSeq
    /\ topics.status.seq <= lastSeq /\ lastSeq <= commandSeq
    /\ \A i \in 1..Len(wire) : wire[i].seq \in 1..commandSeq
    /\ active = [seq |-> active.seq, slot |-> active.slot, acked |-> active.acked]
    /\ active.acked \in BOOLEAN
    /\ active # Inactive => active.seq = commandSeq /\ commandSeq > 0
    /\ active.acked => active # Inactive /\ lastSeq = active.seq

\* The controller waits for the cycle in hand: it has not been told of its end, and what
\* it sent before is settled.
Awaited ==
    /\ commandSeq <= lastSeq + 1
    /\ active = Inactive => lastSeq = commandSeq
    /\ activeSlot >= 0 => /\ active # Inactive /\ lastSeq = commandSeq
                          /\ topics.status.seq = lastSeq => topics.status.state \notin {2, 3}

\* The inductive invariant.
CycleInv == Numbering /\ (gaveUp \/ (Awaited /\ BridgeInv))

----------------------------------------------------------------------------
(* The queue of commands.                                                  *)

\* A message sent is the last of the queue.
LEMMA Sends ==
    ASSUME NEW S, NEW w \in Seq(S), NEW x
    PROVE  /\ \E T : Append(w, x) \in Seq(T)
           /\ Len(w) \in Nat /\ Len(Append(w, x)) = Len(w) + 1
           /\ \A i \in 1..Len(w) : Append(w, x)[i] = w[i]
           /\ Append(w, x)[Len(w) + 1] = x
  <1> DEFINE T == S \cup {x}
  <1>1. w \in Seq(T)
    OBVIOUS
  <1>2. Append(w, x) \in Seq(T)
    BY <1>1
  <1> QED BY <1>1, <1>2

\* What is left after n messages are the others, in their order.
LEMMA Serves ==
    ASSUME NEW S, NEW w \in Seq(S), NEW n \in 0..Len(w)
    PROVE  /\ SubSeq(w, n + 1, Len(w)) \in Seq(S)
           /\ Len(SubSeq(w, n + 1, Len(w))) = Len(w) - n
           /\ \A i \in 1..(Len(w) - n) : SubSeq(w, n + 1, Len(w))[i] = w[n + i]
  OBVIOUS

\* Dropping messages adds no number to the queue.
LEMMA ServedQueue ==
    ASSUME Numbering, commandSeq' = commandSeq,
           NEW n \in 0..Len(wire), wire' = SubSeq(wire, n + 1, Len(wire))
    PROVE  /\ \E S : wire' \in Seq(S)
           /\ \A i \in 1..Len(wire') : wire'[i].seq \in 1..commandSeq'
  <1>1. PICK S : wire \in Seq(S)
    BY DEF Numbering
  <1>2. Len(wire) \in Nat /\ n \in Nat
    BY <1>1
  <1>3. /\ wire' \in Seq(S) /\ Len(wire') = Len(wire) - n
        /\ \A i \in 1..(Len(wire) - n) : wire'[i] = wire[n + i]
    BY <1>1, Serves
  <1>4. \A i \in 1..Len(wire') : n + i \in 1..Len(wire) /\ wire'[i] = wire[n + i]
    BY <1>2, <1>3
  <1>5. \A i \in 1..Len(wire') : wire'[i].seq \in 1..commandSeq'
    BY <1>4 DEF Numbering
  <1> QED BY <1>3, <1>5

\* A command sent carries the controller's last number.
LEMMA SentQueue ==
    ASSUME Numbering, NEW a, Send(a), a.seq = commandSeq', commandSeq' \in Nat,
           commandSeq <= commandSeq', commandSeq' > 0
    PROVE  /\ \E S : wire' \in Seq(S)
           /\ \A i \in 1..Len(wire') : wire'[i].seq \in 1..commandSeq'
  <1> DEFINE x == [seq |-> a.seq, slot |-> a.slot, rock |-> seen.pick.rock]
  <1>1. PICK S : wire \in Seq(S)
    BY DEF Numbering
  <1>2. wire' = Append(wire, x)
    BY DEF Send
  <1>3. x.seq = commandSeq'
    OBVIOUS
  <1> HIDE DEF x
  <1>4. /\ \E T : wire' \in Seq(T)
        /\ Len(wire) \in Nat /\ Len(wire') = Len(wire) + 1
        /\ \A i \in 1..Len(wire) : wire'[i] = wire[i]
        /\ wire'[Len(wire) + 1] = x
    BY <1>1, <1>2, Sends
  <1>5. ASSUME NEW i \in 1..Len(wire')
        PROVE  wire'[i].seq \in 1..commandSeq'
    <2>1. CASE i = Len(wire) + 1
      BY <1>3, <1>4, <2>1
    <2>2. CASE i # Len(wire) + 1
      <3>1. i \in 1..Len(wire)
        BY <1>4, <2>2
      <3>2. wire'[i] = wire[i] /\ wire[i].seq \in 1..commandSeq
        BY <1>4, <3>1 DEF Numbering
      <3> QED BY <3>2 DEF Numbering
    <2> QED BY <2>1, <2>2
  <1> QED BY <1>4, <1>5

----------------------------------------------------------------------------
(* The simulation's steps.                                                 *)

\* What the bridge may be handed: nothing, or a command that was sent.
Handed(n) == IF n = 0 THEN NoOrder ELSE wire[n]

\* A command the bridge starts carries a number the controller gave, after its last one;
\* while nothing was given up it is the one awaited, and it comes to no cycle in hand.
LEMMA AcceptedIsAwaited ==
    ASSUME CycleInv, NEW n \in 0..Len(wire), Accepts(Handed(n))
    PROVE  /\ Handed(n).seq \in Nat
           /\ Handed(n).seq > lastSeq /\ Handed(n).seq <= commandSeq
           /\ ~gaveUp => /\ active # Inactive /\ Handed(n).seq = active.seq
                         /\ Handed(n).seq = commandSeq
                         /\ ~(activeSlot >= 0)
  <1>1. Handed(n).seq > lastSeq
    BY DEF Accepts
  <1>2. PICK S : wire \in Seq(S)
    BY DEF CycleInv, Numbering
  <1>3. n # 0
    BY <1>1 DEF Handed, NoOrder, CycleInv, Numbering
  <1>4. Handed(n) = wire[n] /\ n \in 1..Len(wire)
    BY <1>2, <1>3 DEF Handed
  <1>5. Handed(n).seq \in 1..commandSeq /\ commandSeq \in Nat /\ lastSeq \in Nat
    BY <1>4 DEF CycleInv, Numbering
  <1>6. CASE gaveUp
    BY <1>1, <1>5, <1>6
  <1>7. CASE ~gaveUp
    BY <1>1, <1>5, <1>7 DEF CycleInv, Numbering, Awaited
  <1> QED BY <1>6, <1>7

\* While nothing was given up, the simulation takes no command but a timely one.
LEMMA SimulationIsTimely ==
    ASSUME CycleInv, ~gaveUp, Simulation
    PROVE  TimelyNext
  <1>1. CASE PublishTopics
    BY <1>1 DEF PublishTopics, TimelyNext, Loop
  <1>2. CASE LoopRest
    BY <1>2 DEF LoopRest, TimelyNext, Loop
  <1>3. ASSUME NEW n \in 0..Len(wire), ServeCommands(n)
        PROVE  TimelyNext
    <2>1. TakeCommand(Handed(n))
      BY <1>3 DEF ServeCommands, Handed
    <2>2. Timely(Handed(n))
      BY AcceptedIsAwaited DEF Timely, Unbooked
    <2> QED BY <2>1, <2>2 DEF TimelyNext
  <1> QED BY <1>1, <1>2, <1>3 DEF Simulation

\* A step of the composition leaves the bridge alone or is one of the simulation, and is
\* timely while nothing was given up.
LEMMA StepIsTimely ==
    ASSUME CycleInv, ~gaveUp, [CycleNext]_cycleVars
    PROVE  [TimelyNext]_vars
  <1>1. CASE Simulation
    BY <1>1, SimulationIsTimely
  <1>2. CASE Controller \/ UNCHANGED cycleVars
    BY <1>2
    DEF Controller, OnPickTarget, OnPlaceTarget, OnStatus, Command, Republish, GiveUp, cycleVars
  <1> QED BY <1>1, <1>2 DEF CycleNext

\* The stages of the loop that hand out no command leave its number alone.
LEMMA LoopKeepsNumber ==
    ASSUME LoopRest \/ PublishTopics
    PROVE  /\ lastSeq' = lastSeq
           /\ activeSlot' = activeSlot \/ activeSlot' = -1
           /\ UNCHANGED <<commandSeq, active, gaveUp, working>>
  <1>1. CASE PublishTopics
    BY <1>1 DEF PublishTopics, PublishSome, Publish, controller, cycle
  <1>2. CASE LoopRest
    BY <1>2
    DEF LoopRest, controller, Feed, Book, BookLaid, BookRetry, BookWriteOff, NothingToBook,
        HandBack, Throttled, Advance, cycle
  <1> QED BY <1>1, <1>2

LEMMA LoopRestInv ==
    ASSUME CycleInv, LoopRest
    PROVE  Numbering' /\ (~gaveUp => Awaited')
  <1>1. /\ lastSeq' = lastSeq
        /\ activeSlot' = activeSlot \/ activeSlot' = -1
        /\ UNCHANGED <<commandSeq, active, gaveUp, working>>
    BY LoopKeepsNumber
  <1>2. topics' = topics /\ wire' \in Dropped \cup {wire}
    BY DEF LoopRest
  <1>3. /\ \E S : wire' \in Seq(S)
        /\ \A i \in 1..Len(wire') : wire'[i].seq \in 1..commandSeq'
    <2>1. CASE wire' = wire
      BY <1>1, <2>1 DEF CycleInv, Numbering
    <2>2. CASE wire' \in Dropped
      BY <1>1, <2>2, ServedQueue DEF CycleInv, Dropped
    <2> QED BY <1>2, <2>1, <2>2
  <1>4. Numbering'
    BY <1>1, <1>2, <1>3 DEF CycleInv, Numbering
  <1>5. ~gaveUp => Awaited'
    BY <1>1, <1>2 DEF CycleInv, Awaited
  <1> QED BY <1>4, <1>5

\* The status published while a cycle is in hand does not report its end.
LEMMA PublishTopicsInv ==
    ASSUME CycleInv, PublishTopics
    PROVE  Numbering' /\ (~gaveUp => Awaited')
  <1>1. /\ lastSeq' = lastSeq
        /\ UNCHANGED <<commandSeq, active, gaveUp, working>>
    BY LoopKeepsNumber
  <1>2. /\ topics'.status = StatusNow /\ wire' = wire
        /\ pc = "publish" /\ activeSlot' = activeSlot
    BY DEF PublishTopics, PublishSome, Publish, cycle
  <1>3. topics'.status.seq = lastSeq
    BY <1>2 DEF StatusNow
  <1>4. Numbering'
    BY <1>1, <1>2, <1>3 DEF CycleInv, Numbering
  <1>5. ASSUME ~gaveUp, activeSlot >= 0
        PROVE  topics'.status.state \notin {2, 3}
    <2>1. Busy
      BY <1>2, <1>5 DEF CycleInv, BridgeInv, Staging
    <2> QED BY <1>2, <2>1 DEF StatusNow, Busy
  <1>6. ~gaveUp => Awaited'
    BY <1>1, <1>2, <1>5 DEF CycleInv, Awaited
  <1> QED BY <1>4, <1>6

LEMMA ServeCommandsInv ==
    ASSUME CycleInv, NEW n \in 0..Len(wire), ServeCommands(n)
    PROVE  Numbering' /\ (~gaveUp => Awaited')
  <1>1. /\ TakeCommand(Handed(n))
        /\ wire' = SubSeq(wire, n + 1, Len(wire))
        /\ working' = IF lastSeq' # lastSeq THEN Handed(n) ELSE working
        /\ UNCHANGED <<topics, commandSeq, active, gaveUp>>
    BY DEF ServeCommands, Handed, controller
  <1>2. /\ \E S : wire' \in Seq(S)
        /\ \A i \in 1..Len(wire') : wire'[i].seq \in 1..commandSeq'
    BY <1>1, ServedQueue DEF CycleInv
  <1>3. CASE Ignore(Handed(n))
    <2>1. UNCHANGED <<lastSeq, activeSlot>>
      BY <1>3 DEF Ignore, cycle
    <2> QED BY <1>1, <1>2, <2>1 DEF CycleInv, Numbering, Awaited
  <1>4. ASSUME NEW starts \in BOOLEAN, Accept(Handed(n), starts)
        PROVE  Numbering' /\ (~gaveUp => Awaited')
    <2>1. Accepts(Handed(n)) /\ lastSeq' = Handed(n).seq /\ activeSlot' = Handed(n).slot
      BY <1>4 DEF Accept
    <2>2. /\ lastSeq' \in Nat /\ lastSeq' > lastSeq /\ lastSeq' <= commandSeq
          /\ ~gaveUp => active # Inactive /\ lastSeq' = commandSeq
      BY <2>1, AcceptedIsAwaited
    <2>3. working'.seq = lastSeq'
      BY <1>1, <2>1, <2>2 DEF CycleInv, Numbering
    <2>4. ~active.acked
      BY <2>2 DEF CycleInv, Numbering
    <2>5. Numbering'
      <3>1. topics'.status.seq <= lastSeq' /\ lastSeq' <= commandSeq'
        BY <1>1, <2>2 DEF CycleInv, Numbering
      <3>2. UNCHANGED <<topics, commandSeq, active>>
        BY <1>1
      <3> QED BY <1>2, <2>2, <2>3, <2>4, <3>1, <3>2 DEF CycleInv, Numbering
    <2>6. ~gaveUp => Awaited'
      BY <1>1, <2>2 DEF CycleInv, Numbering, Awaited
    <2> QED BY <2>5, <2>6
  <1> QED BY <1>1, <1>3, <1>4 DEF TakeCommand

----------------------------------------------------------------------------
(* The controller's steps.                                                 *)

\* An end is only reported of a cycle that is no longer in hand.
LEMMA OnStatusInv ==
    ASSUME CycleInv, OnStatus
    PROVE  Numbering' /\ (~gaveUp => Awaited')
  <1>1. /\ UNCHANGED <<topics, commandSeq, gaveUp, wire, working>>
        /\ UNCHANGED <<lastSeq, activeSlot>>
    BY DEF OnStatus, vars, cycle
  <1>2. CASE active' = active
    BY <1>1, <1>2 DEF CycleInv, Numbering, Awaited
  <1>3. CASE active' # active
    <2>1. active # Inactive /\ topics.status.seq = active.seq
      BY <1>3 DEF OnStatus
    <2>2. lastSeq = commandSeq /\ active.seq = lastSeq
      BY <2>1 DEF CycleInv, Numbering
    <2>3. CASE topics.status.state \in {2, 3}
      <3>1. active' = Inactive
        BY <2>1, <2>3 DEF OnStatus
      <3>2. Numbering'
        BY <1>1, <3>1 DEF CycleInv, Numbering, Inactive
      <3>3. ~gaveUp => ~(activeSlot >= 0)
        BY <2>1, <2>2, <2>3 DEF CycleInv, Awaited
      <3>4. ~gaveUp => Awaited'
        BY <1>1, <2>2, <3>1, <3>3 DEF CycleInv, Awaited
      <3> QED BY <3>2, <3>4
    <2>4. CASE topics.status.state \notin {2, 3}
      <3>1. active' = [active EXCEPT !.acked = TRUE]
        BY <2>1, <2>4 DEF OnStatus
      <3>2. active = [seq |-> active.seq, slot |-> active.slot, acked |-> active.acked]
        BY DEF CycleInv, Numbering
      <3>3. active' = [seq |-> active.seq, slot |-> active.slot, acked |-> TRUE]
        BY <3>1, <3>2
      <3>4. /\ active'.seq = active.seq /\ active'.slot = active.slot /\ active'.acked = TRUE
            /\ active' # Inactive
        BY <2>1, <3>3 DEF Inactive, CycleInv, Numbering
      <3>5. Numbering'
        BY <1>1, <2>1, <2>2, <3>3, <3>4 DEF CycleInv, Numbering
      <3>6. ~gaveUp => Awaited'
        BY <1>1, <2>1, <3>4 DEF CycleInv, Awaited
      <3> QED BY <3>5, <3>6
    <2> QED BY <2>3, <2>4
  <1> QED BY <1>2, <1>3

LEMMA CommandInv ==
    ASSUME CycleInv, Command
    PROVE  Numbering' /\ (~gaveUp => Awaited')
  <1>1. /\ active = Inactive /\ commandSeq' = commandSeq + 1
        /\ active' = [seq |-> commandSeq', slot |-> seen.pick.slot, acked |-> FALSE]
        /\ Send(active')
        /\ UNCHANGED <<topics, gaveUp, working, lastSeq, activeSlot>>
    BY DEF Command, vars, cycle
  <1>2. commandSeq \in Nat /\ lastSeq \in Nat /\ lastSeq <= commandSeq
    BY DEF CycleInv, Numbering
  <1>3. /\ active'.seq = commandSeq' /\ active'.slot = seen.pick.slot
        /\ active'.acked = FALSE /\ active' # Inactive
    BY <1>1, <1>2 DEF Inactive
  <1>4. /\ \E S : wire' \in Seq(S)
        /\ \A i \in 1..Len(wire') : wire'[i].seq \in 1..commandSeq'
    BY <1>1, <1>2, <1>3, SentQueue DEF CycleInv
  <1>5. Numbering'
    BY <1>1, <1>2, <1>3, <1>4 DEF CycleInv, Numbering
  <1>6. ~gaveUp => Awaited'
    BY <1>1, <1>2, <1>3 DEF CycleInv, Awaited
  <1> QED BY <1>5, <1>6

LEMMA ControllerInv ==
    ASSUME CycleInv, Controller
    PROVE  Numbering' /\ (~gaveUp' => ~gaveUp /\ Awaited')
  <1>1. CASE OnPickTarget \/ OnPlaceTarget
    BY <1>1 DEF OnPickTarget, OnPlaceTarget, vars, cycle, CycleInv, Numbering, Awaited
  <1>2. CASE OnStatus
    BY <1>2, OnStatusInv DEF OnStatus
  <1>3. CASE Command
    BY <1>3, CommandInv DEF Command
  <1>4. CASE Republish
    <2>1. /\ active # Inactive /\ Send(active)
          /\ UNCHANGED <<topics, commandSeq, active, gaveUp, working, lastSeq, activeSlot>>
      BY <1>4 DEF Republish, vars, cycle
    <2>2. /\ \E S : wire' \in Seq(S)
          /\ \A i \in 1..Len(wire') : wire'[i].seq \in 1..commandSeq'
      BY <2>1, SentQueue DEF CycleInv, Numbering
    <2> QED BY <2>1, <2>2 DEF CycleInv, Numbering, Awaited
  <1>5. CASE GiveUp
    <2>1. /\ active' = Inactive /\ gaveUp' = TRUE
          /\ UNCHANGED <<topics, commandSeq, wire, working, lastSeq, activeSlot>>
      BY <1>5 DEF GiveUp, vars, cycle
    <2> QED BY <2>1 DEF CycleInv, Numbering, Inactive
  <1> QED BY <1>1, <1>2, <1>3, <1>4, <1>5 DEF Controller

----------------------------------------------------------------------------
(* The invariant.                                                          *)

LEMMA CycleStarts == CycleInit => CycleInv
  <1> SUFFICES ASSUME CycleInit PROVE CycleInv
    OBVIOUS
  <1>1. BridgeInv
    BY InitInv DEF CycleInit
  <1>2. /\ lastSeq = 0 /\ activeSlot = -1 /\ commandSeq = 0 /\ active = Inactive
        /\ wire = <<>> /\ working = NoOrder /\ topics.status = [seq |-> 0, state |-> 0]
    BY DEF CycleInit, Init
  <1>3. \E S : wire \in Seq(S)
    <2>1. wire \in Seq({})
      BY <1>2
    <2> QED BY <2>1
  <1>4. Len(wire) = 0
    BY <1>2
  <1>5. Numbering
    BY <1>2, <1>3, <1>4 DEF Numbering, Inactive, NoOrder
  <1> QED BY <1>1, <1>2, <1>5 DEF CycleInv, Awaited

LEMMA CycleSteps == CycleInv /\ [CycleNext]_cycleVars => CycleInv'
  <1> SUFFICES ASSUME CycleInv, [CycleNext]_cycleVars PROVE CycleInv'
    OBVIOUS
  <1>1. ~gaveUp => BridgeInv'
    BY StepIsTimely, NextInv DEF CycleInv
  <1>2. CASE Simulation
    <2>1. gaveUp' = gaveUp
      BY <1>2, LoopKeepsNumber DEF Simulation, ServeCommands, controller
    <2> QED
      BY <1>1, <1>2, <2>1, LoopRestInv, PublishTopicsInv, ServeCommandsInv
      DEF Simulation, CycleInv
  <1>3. CASE Controller
    BY <1>1, <1>3, ControllerInv DEF CycleInv
  <1>4. CASE UNCHANGED cycleVars
    BY <1>1, <1>4 DEF cycleVars, vars, cycle, controller, CycleInv, Numbering, Awaited
  <1> QED BY <1>2, <1>3, <1>4 DEF CycleNext

LEMMA CycleInvariance == CycleSpec => []CycleInv
  BY CycleStarts, CycleSteps, PTL DEF CycleSpec

----------------------------------------------------------------------------
(* Theorems.                                                               *)

\* builder_arm_controller.py, on_status: a command the controller stops republishing was
\* accepted, and nothing newer started since.
THEOREM AcksAreTrue == CycleSpec => []AckMeansAccepted
  <1>1. CycleInv => AckMeansAccepted
    BY DEF CycleInv, Numbering, AckMeansAccepted
  <1> QED BY <1>1, CycleInvariance, PTL

\* A rock is booked out at the command stage only by a command that is accepted.
LEMMA StartIsAccepted ==
    ASSUME [CycleNext]_cycleVars, Started
    PROVE  \E n \in 0..Len(wire) :
              /\ ServeCommands(n) /\ Accepts(Handed(n)) /\ lastSeq' = Handed(n).seq
              /\ active' = active
  <1>1. pc = "command" /\ consumed' # consumed
    BY DEF Started
  <1>2. ~UNCHANGED cycleVars /\ ~Controller
    BY <1>1
    DEF Controller, OnPickTarget, OnPlaceTarget, OnStatus, Command, Republish, GiveUp,
        cycleVars, vars
  <1>3. ~PublishTopics /\ ~LoopRest
    BY <1>1
    DEF PublishTopics, PublishSome, Publish, LoopRest, Feed, Book, BookLaid, BookRetry,
        BookWriteOff, NothingToBook, HandBack, Throttled, Advance
  <1>4. PICK n \in 0..Len(wire) : ServeCommands(n)
    BY <1>2, <1>3 DEF CycleNext, Simulation
  <1>5. TakeCommand(Handed(n)) /\ active' = active
    BY <1>4 DEF ServeCommands, Handed, controller
  <1>6. Accepts(Handed(n)) /\ lastSeq' = Handed(n).seq
    BY <1>1, <1>5 DEF TakeCommand, Ignore, Accept
  <1> QED BY <1>4, <1>5, <1>6

\* BuilderArmRosBridge::ConsumeCommand: however often a command is republished and however
\* late a copy arrives, it starts one cycle at most.
THEOREM StartsOnce == CycleSpec => EachCommandStartsOnce
  <1>1. ASSUME CycleInv, CycleInv', [CycleNext]_cycleVars, Started
        PROVE  working'.seq > working.seq
    <2>1. PICK n \in 0..Len(wire) : Accepts(Handed(n)) /\ lastSeq' = Handed(n).seq
      BY <1>1, StartIsAccepted
    <2>2. lastSeq' > lastSeq
      BY <1>1, <2>1, AcceptedIsAwaited
    <2> QED BY <1>1, <2>2 DEF CycleInv, Numbering
  <1>2. CycleInv /\ CycleInv' /\ [CycleNext]_cycleVars
            => [Started => working'.seq > working.seq]_cycleVars
    BY <1>1
  <1> QED BY <1>2, CycleInvariance, PTL DEF CycleSpec, EachCommandStartsOnce

\* While no command is given up, the arm starts only for the command the controller waits
\* for, so its completion finds someone to be told.
THEOREM OnlyTheAwaitedStarts == CycleSpec => StartsWhatIsAwaited
  <1>1. ASSUME CycleInv, CycleInv', [CycleNext]_cycleVars, Started, ~gaveUp
        PROVE  working'.seq = active.seq
    <2>1. PICK n \in 0..Len(wire) : Accepts(Handed(n)) /\ lastSeq' = Handed(n).seq
      BY <1>1, StartIsAccepted
    <2>2. Handed(n).seq = active.seq
      BY <1>1, <2>1, AcceptedIsAwaited
    <2> QED BY <1>1, <2>1, <2>2 DEF CycleInv, Numbering
  <1>2. CycleInv /\ CycleInv' /\ [CycleNext]_cycleVars
            => [Started /\ ~gaveUp => working'.seq = active.seq]_cycleVars
    BY <1>1
  <1> QED BY <1>2, CycleInvariance, PTL DEF CycleSpec, StartsWhatIsAwaited

\* While no command is given up, none is accepted between the arm's finishing and the
\* booking of its cycle: what LateCommands = FALSE assumes of the bridge's commands.
THEOREM GapStaysClosed == CycleSpec => NoCommandInTheGap
  <1>1. ASSUME CycleInv, [CycleNext]_cycleVars, Unbooked, pc = "command", ~gaveUp
        PROVE  lastSeq' = lastSeq
    <2>1. CASE LoopRest \/ PublishTopics
      BY <2>1, LoopKeepsNumber
    <2>2. CASE Controller \/ UNCHANGED cycleVars
      BY <2>2
      DEF Controller, OnPickTarget, OnPlaceTarget, OnStatus, Command, Republish, GiveUp,
          cycleVars, vars, cycle
    <2>3. ASSUME NEW n \in 0..Len(wire), ServeCommands(n)
          PROVE  lastSeq' = lastSeq
      <3>1. TakeCommand(Handed(n))
        BY <2>3 DEF ServeCommands, Handed
      <3>2. ~Accepts(Handed(n))
        BY <1>1, AcceptedIsAwaited DEF Unbooked
      <3> QED BY <3>1, <3>2 DEF TakeCommand, Ignore, Accept, cycle
    <2> QED BY <1>1, <2>1, <2>2, <2>3 DEF CycleNext, Simulation
  <1>2. CycleInv /\ [CycleNext]_cycleVars
            => [Unbooked /\ pc = "command" /\ ~gaveUp => lastSeq' = lastSeq]_cycleVars
    BY <1>1
  <1> QED BY <1>2, CycleInvariance, PTL DEF CycleSpec, NoCommandInTheGap

----------------------------------------------------------------------------
(* What the composition keeps whatever is given up.                        *)

\* A step of the composition leaves the bridge alone or is one of the simulation, with a
\* numbered command if it takes one.
LEMMA StepIsNumbered ==
    ASSUME CycleInv, [CycleNext]_cycleVars
    PROVE  [AnyNext]_vars
  <1>1. CASE PublishTopics
    BY <1>1 DEF PublishTopics, AnyNext, Loop
  <1>2. CASE LoopRest
    BY <1>2 DEF LoopRest, AnyNext, Loop
  <1>3. ASSUME NEW n \in 0..Len(wire), ServeCommands(n)
        PROVE  AnyNext
    <2>1. TakeCommand(Handed(n))
      BY <1>3 DEF ServeCommands, Handed
    <2>2. Numbered(Handed(n))
      BY AcceptedIsAwaited DEF Numbered
    <2> QED BY <2>1, <2>2 DEF AnyNext
  <1>4. CASE Controller \/ UNCHANGED cycleVars
    BY <1>4
    DEF Controller, OnPickTarget, OnPlaceTarget, OnStatus, Command, Republish, GiveUp, cycleVars
  <1> QED BY <1>1, <1>2, <1>3, <1>4 DEF CycleNext, Simulation

LEMMA HandInComposition == CycleSpec => []HandInv
  <1>1. CycleInit => HandInv
    BY HandStarts DEF CycleInit
  <1>2. CycleInv /\ HandInv /\ [CycleNext]_cycleVars => HandInv'
    BY StepIsNumbered, NextHand
  <1> QED BY <1>1, <1>2, CycleInvariance, PTL DEF CycleSpec

\* PublishBuildTopics beside its controller: even when commands are given up and start
\* late, the course stands at the slot the arm works for and retries stay bounded.
THEOREM CompositionHoldsStill == CycleSpec => [](CourseWaitsForArm /\ BoundedRetries)
  <1>1. HandInv => CourseWaitsForArm /\ BoundedRetries
    BY DEF HandInv
  <1> QED BY <1>1, HandInComposition, PTL

\* ConsumeCommand beside its controller: a stone in the wall is never taken up again.
THEOREM CompositionLaysForGood == CycleSpec => LaidStaysLaid
  <1>1. CycleInv /\ HandInv /\ [CycleNext]_cycleVars =>
            [\A r \in Rocks : laid[r] >= 0 => laid'[r] = laid[r] /\ r \in consumed']_vars
    BY StepIsNumbered, StoneStays
  <1> QED BY <1>1, CycleInvariance, HandInComposition, PTL DEF CycleSpec, LaidStaysLaid

\* For as long as no command was given up, deadlines or not: every stone laid is counted,
\* no slot receives two and one rock at most is dynamic.
THEOREM CountsUntilGivenUp ==
    CycleSpec => [](~gaveUp => LaidIsCounted /\ OneStonePerSlot /\ OneDynamicRock)
  <1>1. CycleInv => (~gaveUp => LaidIsCounted /\ OneStonePerSlot /\ OneDynamicRock)
    BY StonesAreCounted DEF CycleInv, BridgeInv
  <1> QED BY <1>1, CycleInvariance, PTL

----------------------------------------------------------------------------
(* Without deadlines the composition keeps the promises of the bridge.     *)

\* Only a deadline makes the controller give a command up.
LEMMA NothingIsGivenUp ==
    ASSUME ~Timeouts
    PROVE  CycleSpec => []~gaveUp
  <1>1. CycleInit => ~gaveUp
    BY DEF CycleInit
  <1>2. ~gaveUp /\ [CycleNext]_cycleVars => ~gaveUp'
    BY DEF CycleNext, Simulation, PublishTopics, LoopRest, ServeCommands, Controller,
           OnPickTarget, OnPlaceTarget, OnStatus, Command, Republish, GiveUp, controller,
           cycleVars
  <1> QED BY <1>1, <1>2, PTL DEF CycleSpec

\* Bridge and controller together, any commands delayed or republished: every stone laid
\* is counted, no slot receives two and one rock at most is dynamic.
COROLLARY CompositionCounts ==
    ASSUME ~Timeouts
    PROVE  CycleSpec => [](LaidIsCounted /\ OneStonePerSlot /\ OneDynamicRock)
  BY CountsUntilGivenUp, NothingIsGivenUp, PTL

\* Bridge and controller together build the wall of WallCourse.
THEOREM CompositionBuildsWall ==
    ASSUME ~Timeouts
    PROVE  CycleSpec => ImplementsWall
  <1>1. CycleInit => Wall!Init
    BY StartsWall DEF CycleInit
  <1>2. CycleInv /\ ~gaveUp /\ [CycleNext]_cycleVars => [Wall!Next]_(Wall!vars)
    BY StepIsTimely, StepsWall DEF CycleInv, Wall!vars
  <1> QED
    BY <1>1, <1>2, CycleInvariance, NothingIsGivenUp, PTL
    DEF CycleSpec, ImplementsWall, Wall!Spec

=============================================================================
