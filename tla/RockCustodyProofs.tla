------------------------- MODULE RockCustodyProofs -------------------------
(***************************************************************************)
(* Theorems about RockCustody, for any rocks, heap and harvests: the soil  *)
(* domains follow the fixed flags, what moves is supported, what was in    *)
(* the bed at the request can tip out of it, and the builder's feedstock is left      *)
(* alone by all but the arms.                                              *)
(***************************************************************************)
EXTENDS RockCustody, TLAPS

Holds(a) == phase[a] \in {"carry", "opening"}

\* The rocks that are the builder's, or on their way to it.
Pile == Seed \cup settling \cup delivered

\* What ReconcileRockDomains takes to be there is there.
DomainsKept == domain = held \cup (Known \ seen)

\* A rock that moves freely collides; the rock the collector has let go of does until
\* somebody else has taken it.
FreeRocksCollide ==
    /\ (Known \ (fixed \cup asleep)) \ Welded \subseteq solid
    /\ phase["collector"] = "letgo" => target["collector"] \in solid \cup fixed \cup Welded

\* An arm that has a rock at all has one of its own side.
Targets ==
    /\ \A a \in Owners : phase[a] # "idle" => target[a] \in Known
    /\ phase["collector"] # "idle" => target["collector"] \in Born
    /\ At("bed") \subseteq Born
    /\ phase["builder"] = "idle" => target["builder"] = NoRock
    /\ phase["builder"] # "idle" => target["builder"] \in feedstock

\* Where the rocks of each party are: collector and builder never hold the same one.
Whereabouts ==
    /\ \A r \in Pile : place[r] \in {"site", "hand"} /\ r \notin carried
    /\ \A r \in carried : place[r] \in {"bed", "site"}
    /\ phase["collector"] = "reach" => place[target["collector"]] = "lane"
    /\ Holds("collector") => /\ place[target["collector"]] = "hand"
                             /\ target["collector"] \notin Pile

\* The load that still rides in the bed: awake for good, and free.
LoadIsLoose ==
    dumping => carried \cap At("bed") \subseteq (wakeful \cap solid) \ (fixed \cup asleep)

CustodyInv ==
    /\ TypeOK /\ DomainsKept /\ DomainIffMovable /\ FreeRocksCollide
    /\ Targets /\ Whereabouts /\ LoadIsLoose

----------------------------------------------------------------------------
(* What is shared by the actions.                                          *)

LEMMA Rocky ==
    ASSUME cycle \in 0..LastCycle
    PROVE  Known \subseteq Rocks /\ NoRock \notin Known /\ Seed \subseteq Known
  BY CustodyAssumption DEF Known, Born

\* A new harvest only adds rocks, and none that lay about before.
LEMMA NewRocks ==
    ASSUME cycle \in 0..LastCycle, cycle < LastCycle, cycle' = cycle + 1
    PROVE  /\ cycle' \in 0..LastCycle
           /\ Born' = Born \cup Loads[cycle'] /\ Known' = Known \cup Loads[cycle']
           /\ Loads[cycle'] \cap Known = {} /\ Loads[cycle'] \subseteq Rocks
  <1>1. cycle + 1 \in 0..LastCycle /\ LastCycle \in Nat /\ cycle \in Nat
    BY CustodyAssumption
  <1>2. 0..cycle' = (0..cycle) \cup {cycle'}
    BY <1>1
  <1>3. Born' = Born \cup Loads[cycle']
    BY <1>2 DEF Born
  <1>4. \A c \in 0..cycle : Loads[c] \cap Loads[cycle'] = {}
    BY <1>1, CustodyAssumption
  <1>5. Loads[cycle'] \cap Seed = {} /\ Loads[cycle'] \subseteq Rocks
    BY <1>1, CustodyAssumption
  <1> QED BY <1>1, <1>3, <1>4, <1>5 DEF Known, Born

LEMMA SameCycle == cycle' = cycle => Born' = Born /\ Known' = Known
  BY DEF Born, Known

\* What a step of an arm does to the flags: only its target changes, and what it lets go
\* of or takes hold of is free.
LEMMA ArmEffect ==
    ASSUME TypeOK, NEW a \in Owners, ArmStep(a), target[a] \in Known
    PROVE  /\ fixed' \in {fixed, fixed \ {target[a]}}
           /\ solid' \in {solid, solid \ {target[a]}, solid \cup {target[a]}}
           /\ phase' \in [Owners -> Phases]
           /\ \A b \in Owners : b # a => phase'[b] = phase[b]
           /\ phase'[a] # "idle" /\ phase[a] # "idle" /\ phase'[a] # "reach"
           /\ \A r \in Rocks : r # target[a] => place'[r] = place[r]
           /\ place' \in [Rocks -> {"lane", "hand", "bed", "site"}]
  BY DEF TypeOK, ArmStep, Lock, Open, LetGo, Fail, Done, RemoveRockLock, Busy, Below, Owners,
     Phases

----------------------------------------------------------------------------
(* Types.                                                                  *)

LEMMA CallsType == ASSUME Next PROVE pc' \in Calls
  BY DEF Next, Calls, UpdateRockCollisionActivation, UpdateDumpedRockFreeze, AdvanceDumpCycle,
     TrailerBridge, CollectorCommand, CollectorArm, UpdateFeedstock, ClearStrandedFeedstock,
     BuilderCommand, BuilderArm, ReconcileRockDomains, Physics

LEMMA TypesInv == ASSUME TypeOK, Targets, Next PROVE TypeOK'
  <1> pc' \in Calls
    BY CallsType
  <1>0. cycle \in 0..LastCycle /\ Known \subseteq Rocks /\ NoRock \notin Known
        /\ Seed \subseteq Known /\ Born \subseteq Known
    BY Rocky DEF TypeOK, Known
  <1>1. CASE UpdateRockCollisionActivation
    BY <1>0, <1>1, SameCycle
    DEF UpdateRockCollisionActivation, SwitchableOn, SwitchableOff, Managed, TypeOK, rig, books,
        arms, soil
  <1>2. CASE UpdateDumpedRockFreeze
    BY <1>0, <1>2, SameCycle DEF UpdateDumpedRockFreeze, TypeOK, books, arms, soil
  <1>3. CASE AdvanceDumpCycle
    <2>1. CASE CloseGate
      <3>1. cycle \in 0..LastCycle /\ cycle < LastCycle /\ cycle' = cycle + 1
        BY <2>1, CustodyAssumption DEF CloseGate, TypeOK
      <3>2. cycle' \in 0..LastCycle /\ Born' = Born \cup Loads[cycle']
            /\ Known' = Known \cup Loads[cycle']
        BY <3>1, NewRocks
      <3>3. target' \in [Owners -> Known' \cup {NoRock}]
        BY <2>1, <3>2 DEF CloseGate, TypeOK, arms
      <3>4. solid' \subseteq Known' /\ domain' \subseteq Known' /\ settling' \subseteq Born'
        BY <2>1, <3>2 DEF CloseGate, TypeOK
      <3>5. /\ fixed' \subseteq Known' /\ asleep' \subseteq Known' /\ wakeful' \subseteq Known'
            /\ seen' \subseteq Known' /\ held' \subseteq Known'
            /\ delivered' \subseteq Born' /\ carried' \subseteq Born' /\ dumping' \in BOOLEAN
        BY <2>1, <3>2 DEF CloseGate, TypeOK
      <3>6. /\ place' \in [Rocks -> {"lane", "hand", "bed", "site"}] /\ phase' \in [Owners -> Phases]
            /\ feedstock' \subseteq Seed \cup delivered' /\ consumed' \subseteq feedstock'
        BY <2>1 DEF CloseGate, TypeOK, books, arms
      <3> QED BY <3>2, <3>3, <3>4, <3>5, <3>6, Zenon DEF TypeOK
    <2>2. CASE UNCHANGED <<cycle, place, bodies, rig, books, arms, soil>>
      BY <1>0, <1>3, <2>2, SameCycle DEF TypeOK, bodies, rig, books, arms, soil
    <2> QED BY <1>3, <2>1, <2>2 DEF AdvanceDumpCycle
  <1>4. CASE TrailerBridge
    BY <1>0, <1>4, SameCycle
    DEF TrailerBridge, RequestTrailerDump, Load, KeepAwake, TypeOK, Targets, bodies, rig, books, arms, soil
  <1>5. CASE CollectorCommand
    BY <1>0, <1>5, SameCycle
    DEF CollectorCommand, StartPickPlace, Refuse, TypeOK, Targets, bodies, rig, books, arms,
        soil, Owners, Phases
  <1>6. CASE CollectorArm
    <2>1. CASE ArmStep("collector")
      <3>1. target["collector"] \in Known
        BY <2>1 DEF Targets, ArmStep, Lock, Open, LetGo, Fail, Done, Busy, Owners
      <3>2. fixed' \subseteq Known /\ solid' \subseteq Known
            /\ phase' \in [Owners -> Phases] /\ place' \in [Rocks -> {"lane", "hand", "bed", "site"}]
        BY <2>1, <3>1, ArmEffect DEF Owners, TypeOK
      <3> QED BY <1>0, <1>6, <3>1, <3>2, SameCycle DEF CollectorArm, TypeOK, rig, books, soil
    <2>2. CASE UNCHANGED <<phase, fixed, solid, place>>
      BY <1>0, <1>6, <2>2, SameCycle DEF CollectorArm, TypeOK, rig, books, soil
    <2> QED BY <1>6, <2>1, <2>2 DEF CollectorArm
  <1>7. CASE UpdateFeedstock
    BY <1>0, <1>7, SameCycle
    DEF UpdateFeedstock, GetDeliveredRocks, TypeOK, bodies, rig, arms, soil
  <1>8. CASE ClearStrandedFeedstock
    BY <1>0, <1>8, SameCycle DEF ClearStrandedFeedstock, TypeOK, rig, arms, soil
  <1>9. CASE BuilderCommand
    BY <1>0, <1>9, SameCycle
    DEF BuilderCommand, Book, Take, StartPickPlace, TypeOK, Targets, rig, arms, soil, Owners,
        Phases
  <1>10. CASE BuilderArm
    <2>1. CASE ArmStep("builder")
      <3>1. target["builder"] \in Known
        BY <2>1 DEF Targets, ArmStep, Lock, Open, LetGo, Fail, Done, Busy, Owners
      <3>2. fixed' \subseteq Known /\ solid' \subseteq Known
            /\ phase' \in [Owners -> Phases] /\ place' \in [Rocks -> {"lane", "hand", "bed", "site"}]
        BY <2>1, <3>1, ArmEffect DEF Owners, TypeOK
      <3> QED BY <1>0, <1>10, <3>1, <3>2, SameCycle DEF BuilderArm, TypeOK, rig, books, soil
    <2>2. CASE UNCHANGED <<phase, fixed, solid, place>>
      BY <1>0, <1>10, <2>2, SameCycle DEF BuilderArm, TypeOK, rig, books, soil
    <2> QED BY <1>10, <2>1, <2>2 DEF BuilderArm
  <1>11. CASE ReconcileRockDomains
    BY <1>0, <1>11, SameCycle
    DEF ReconcileRockDomains, Wants, TypeOK, bodies, rig, books, arms
  <1>12. CASE Physics
    BY <1>0, <1>12, SameCycle DEF Physics, TypeOK, rig, books, arms, soil
  <1> QED
    BY <1>1, <1>2, <1>3, <1>4, <1>5, <1>6, <1>7, <1>8, <1>9, <1>10, <1>11, <1>12 DEF Next

----------------------------------------------------------------------------
(* Who has which rock.                                                     *)

\* The rocks known and the builder's feedstock only grow.
LEMMA Growing ==
    ASSUME TypeOK, Next
    PROVE  Born \subseteq Born' /\ Known \subseteq Known' /\ feedstock \subseteq feedstock'
  <1>1. feedstock \subseteq feedstock'
    BY DEF Next, UpdateRockCollisionActivation, UpdateDumpedRockFreeze, AdvanceDumpCycle,
       CloseGate, TrailerBridge, RequestTrailerDump, CollectorCommand, CollectorArm,
       UpdateFeedstock, ClearStrandedFeedstock, BuilderCommand, BuilderArm,
       ReconcileRockDomains, Physics, books
  <1>2. CASE AdvanceDumpCycle /\ CloseGate
    <2>1. cycle \in 0..LastCycle /\ cycle < LastCycle /\ cycle' = cycle + 1
      BY <1>2, CustodyAssumption DEF CloseGate, TypeOK
    <2> QED BY <1>1, <2>1, NewRocks
  <1>3. CASE ~(AdvanceDumpCycle /\ CloseGate)
    <2>1. cycle' = cycle
      BY <1>3 DEF Next, UpdateRockCollisionActivation, UpdateDumpedRockFreeze,
         AdvanceDumpCycle, TrailerBridge, RequestTrailerDump,
         CollectorCommand, CollectorArm, UpdateFeedstock, ClearStrandedFeedstock,
         BuilderCommand, BuilderArm, ReconcileRockDomains, Physics
    <2> QED BY <1>1, <2>1, SameCycle
  <1> QED BY <1>2, <1>3

LEMMA TargetsInv == ASSUME TypeOK, Targets, Whereabouts, Next PROVE Targets'
  <1>0. Born \subseteq Born' /\ Known \subseteq Known' /\ feedstock \subseteq feedstock'
        /\ Known \subseteq Rocks /\ Born \subseteq Known
    BY Growing, Rocky DEF TypeOK, Known
  <1>1. CASE UNCHANGED <<phase, target, place>>
    BY <1>0, <1>1 DEF Targets, At, Owners
  <1>2. CASE CollectorCommand
    BY <1>0, <1>2
    DEF CollectorCommand, StartPickPlace, Refuse, Targets, At, TypeOK, arms, Owners, Phases
  <1>3. CASE CollectorArm
    <2>1. CASE ArmStep("collector")
      <3>1. phase["collector"] # "idle" /\ phase'["builder"] = phase["builder"]
            /\ \A r \in Rocks : r # target["collector"] => place'[r] = place[r]
        BY <2>1, ArmEffect DEF Targets, ArmStep, Lock, Open, LetGo, Fail, Done, Busy, Owners,
           TypeOK
      <3>2. target' = target /\ target["collector"] \in Born
        BY <1>3, <3>1 DEF CollectorArm, Targets
      <3> QED BY <1>0, <3>1, <3>2 DEF Targets, At, Owners
    <2>2. CASE UNCHANGED <<phase, fixed, solid, place>>
      BY <1>1, <1>3, <2>2 DEF CollectorArm
    <2> QED BY <1>3, <2>1, <2>2 DEF CollectorArm
  <1>4. CASE ClearStrandedFeedstock
    BY <1>0, <1>4 DEF ClearStrandedFeedstock, Targets, At, arms, Owners
  <1>5. CASE BuilderCommand
    <2>1. feedstock \subseteq Known
      BY <1>0, Rocky DEF TypeOK
    <2> QED
      BY <1>0, <1>5, <2>1
      DEF BuilderCommand, Book, Take, StartPickPlace, Targets, At, TypeOK, arms, Owners, Phases
  <1>6. CASE BuilderArm
    <2>1. CASE ArmStep("builder")
      <3>1. phase["builder"] # "idle"
        BY <2>1 DEF ArmStep, Lock, Open, LetGo, Fail, Done, Busy
      <3>2. target["builder"] \in feedstock /\ target["builder"] \in Known /\ target' = target
        BY <1>6, <3>1 DEF BuilderArm, Targets, Owners
      <3>3. /\ phase'["builder"] # "idle" /\ phase'["collector"] = phase["collector"]
            /\ \A r \in Rocks : r # target["builder"] => place'[r] = place[r]
        BY <2>1, <3>2, ArmEffect DEF Owners
      <3>4. place'[target["builder"]] # "bed"
        BY <2>1, <3>2, <1>0
        DEF ArmStep, Lock, Open, LetGo, Fail, Done, RemoveRockLock, Below, Whereabouts, TypeOK,
            Pile
      <3> QED BY <1>0, <3>1, <3>2, <3>3, <3>4 DEF Targets, At, Owners
    <2>2. CASE UNCHANGED <<phase, fixed, solid, place>>
      BY <1>1, <1>6, <2>2 DEF BuilderArm
    <2> QED BY <1>6, <2>1, <2>2 DEF BuilderArm
  <1>7. CASE Physics
    BY <1>0, <1>7 DEF Physics, Targets, At, arms, Owners
  <1>8. CASE UpdateRockCollisionActivation \/ UpdateDumpedRockFreeze \/ AdvanceDumpCycle
             \/ TrailerBridge \/ UpdateFeedstock \/ ReconcileRockDomains
    BY <1>1, <1>8
    DEF UpdateRockCollisionActivation, UpdateDumpedRockFreeze, AdvanceDumpCycle, CloseGate,
        TrailerBridge, RequestTrailerDump, UpdateFeedstock, ReconcileRockDomains, arms
  <1> QED BY <1>2, <1>3, <1>4, <1>5, <1>6, <1>7, <1>8 DEF Next

----------------------------------------------------------------------------
(* The soil.                                                               *)

\* The terrain is told of a rock when it is made, before it is first reconciled.
LEMMA DomainsInv ==
    ASSUME TypeOK, DomainsKept, DomainIffMovable, Next
    PROVE  DomainsKept' /\ DomainIffMovable'
  <1>1. CASE ReconcileRockDomains
    BY <1>1, SameCycle
    DEF ReconcileRockDomains, Wants, DomainsKept, DomainIffMovable, TypeOK, bodies
  <1>2. CASE AdvanceDumpCycle
    <2>1. CASE CloseGate
      <3>1. cycle \in 0..LastCycle /\ cycle < LastCycle /\ cycle' = cycle + 1
        BY <2>1, CustodyAssumption DEF CloseGate, TypeOK
      <3>2. Known' = Known \cup Loads[cycle'] /\ Loads[cycle'] \cap Known = {}
        BY <3>1, NewRocks
      <3> QED
        BY <1>2, <2>1, <3>2
        DEF AdvanceDumpCycle, CloseGate, DomainsKept, DomainIffMovable, TypeOK
    <2>2. CASE UNCHANGED <<cycle, place, bodies, rig, books, arms, soil>>
      BY <1>2, <2>2, SameCycle
      DEF AdvanceDumpCycle, DomainsKept, DomainIffMovable, bodies, soil
    <2> QED BY <1>2, <2>1, <2>2 DEF AdvanceDumpCycle
  <1>3. CASE ~ReconcileRockDomains /\ ~AdvanceDumpCycle
    <2>1. cycle' = cycle /\ UNCHANGED soil /\ pc' # "physics"
      BY <1>3 DEF Next, UpdateRockCollisionActivation, UpdateDumpedRockFreeze, TrailerBridge,
         RequestTrailerDump, CollectorCommand, CollectorArm, UpdateFeedstock,
         ClearStrandedFeedstock, BuilderCommand, BuilderArm, Physics
    <2> QED BY <2>1, SameCycle DEF DomainsKept, DomainIffMovable, soil
  <1> QED BY <1>1, <1>2, <1>3

----------------------------------------------------------------------------
(* Where the rocks are.                                                    *)

LEMMA WhereaboutsInv == ASSUME TypeOK, Targets, Whereabouts, Next PROVE Whereabouts'
  <1> feedstock \subseteq Pile /\ Pile \subseteq Known /\ Known \subseteq Rocks
      /\ Born \subseteq Known
    BY Rocky DEF TypeOK, Pile, Known
  <1>1. CASE UNCHANGED <<place, carried, settling, delivered, phase, target>>
    BY <1>1 DEF Whereabouts, Pile, Holds
  <1>2. CASE UpdateDumpedRockFreeze
    BY <1>2 DEF UpdateDumpedRockFreeze, Whereabouts, Pile, Holds, arms
  <1>3. CASE CloseGate
    BY <1>3 DEF CloseGate, Whereabouts, Pile, Holds, At, TypeOK, arms
  <1>4. CASE RequestTrailerDump
    BY <1>4 DEF RequestTrailerDump, Load, Whereabouts, Pile, Holds, At, TypeOK, arms
  <1>5. CASE CollectorCommand
    BY <1>5
    DEF CollectorCommand, StartPickPlace, Refuse, At, Whereabouts, Pile, Holds, TypeOK, rig,
        arms, Owners, Phases
  <1>6. CASE CollectorArm
    <2>1. CASE ArmStep("collector")
      <3>1. target' = target /\ UNCHANGED <<carried, settling, delivered>>
        BY <1>6 DEF CollectorArm, rig
      <3>2. phase["collector"] # "idle" /\ target["collector"] \in Rocks
        BY <2>1 DEF ArmStep, Lock, Open, LetGo, Fail, Done, Busy, Targets, Owners
      <3>3. CASE Lock("collector")
        BY <3>1, <3>2, <3>3 DEF Lock, Whereabouts, Pile, Holds, TypeOK, Owners, Phases
      <3>4. CASE Open("collector") \/ Done("collector")
        BY <3>1, <3>2, <3>4 DEF Open, Done, Whereabouts, Pile, Holds, TypeOK, Owners, Phases
      <3>5. CASE LetGo("collector") \/ Fail("collector")
        BY <3>1, <3>2, <3>5
        DEF LetGo, Fail, RemoveRockLock, Below, Whereabouts, Pile, Holds, TypeOK, Owners,
            Phases
      <3> QED BY <2>1, <3>3, <3>4, <3>5 DEF ArmStep
    <2>2. CASE UNCHANGED <<phase, fixed, solid, place>>
      BY <1>1, <1>6, <2>2 DEF CollectorArm, rig
    <2> QED BY <1>6, <2>1, <2>2 DEF CollectorArm
  <1>7. CASE ClearStrandedFeedstock
    <2>1. \A r \in Rocks : place'[r] = place[r] \/ (r \in Pile /\ place'[r] = "site")
      BY <1>7 DEF ClearStrandedFeedstock
    <2>2. UNCHANGED <<carried, settling, delivered, phase, target>>
      BY <1>7 DEF ClearStrandedFeedstock, rig, arms
    <2>3. phase["collector"] # "idle" => target["collector"] \in Rocks
      BY DEF Targets, Owners
    <2> QED BY <2>1, <2>2, <2>3 DEF Whereabouts, Pile, Holds, TypeOK
  <1>8. CASE BuilderCommand
    BY <1>8
    DEF BuilderCommand, Book, Take, StartPickPlace, Whereabouts, Pile, Holds, TypeOK, rig,
        arms, Owners, Phases
  <1>9. CASE BuilderArm
    <2>1. CASE ArmStep("builder")
      <3>1. phase["builder"] # "idle"
        BY <2>1 DEF ArmStep, Lock, Open, LetGo, Fail, Done, Busy
      <3>2. target["builder"] \in Pile /\ target["builder"] \in Known /\ target' = target
            /\ UNCHANGED <<carried, settling, delivered>>
        BY <1>9, <3>1 DEF BuilderArm, Targets, Owners, rig
      <3>3. /\ phase'["collector"] = phase["collector"]
            /\ \A r \in Rocks : r # target["builder"] => place'[r] = place[r]
        BY <2>1, <3>2, ArmEffect DEF Owners
      <3>4. place'[target["builder"]] \in {"site", "hand"}
        BY <2>1, <3>2
        DEF ArmStep, Lock, Open, LetGo, Fail, Done, RemoveRockLock, Below, Whereabouts, TypeOK,
            Pile
      <3>5. target["collector"] \in Rocks \/ phase["collector"] = "idle"
        BY DEF Targets, Owners
      <3> QED BY <3>2, <3>3, <3>4, <3>5 DEF Whereabouts, Pile, Holds, TypeOK
    <2>2. CASE UNCHANGED <<phase, fixed, solid, place>>
      BY <1>1, <1>9, <2>2 DEF BuilderArm, rig
    <2> QED BY <1>9, <2>1, <2>2 DEF BuilderArm
  <1>10. CASE Physics
    <2>1. \A r \in Rocks : place'[r] = place[r] \/ (place[r] = "bed" /\ place'[r] = "site")
      BY <1>10 DEF Physics, Loose, At
    <2>2. UNCHANGED <<carried, settling, delivered, phase, target>>
      BY <1>10 DEF Physics, rig, arms
    <2>3. phase["collector"] # "idle" => target["collector"] \in Rocks
      BY DEF Targets, Owners
    <2> QED BY <2>1, <2>2, <2>3 DEF Whereabouts, Pile, Holds, TypeOK
  <1>11. CASE UpdateRockCollisionActivation \/ UpdateFeedstock \/ ReconcileRockDomains
              \/ ((AdvanceDumpCycle \/ TrailerBridge) /\ UNCHANGED <<cycle, place, bodies, rig,
                                                                    books, arms, soil>>)
    BY <1>1, <1>11
    DEF UpdateRockCollisionActivation, UpdateFeedstock, ReconcileRockDomains, rig, arms
  <1> QED BY <1>2, <1>3, <1>4, <1>5, <1>6, <1>7, <1>8, <1>9, <1>10, <1>11
          DEF Next, AdvanceDumpCycle, TrailerBridge

----------------------------------------------------------------------------
(* What moves collides.                                                    *)

\* A step of an arm: what it welds is excepted, what it lets go of collides again.
LEMMA ArmCollides ==
    ASSUME TypeOK, Targets, FreeRocksCollide, NEW a \in Owners, ArmStep(a),
           target' = target, asleep' = asleep, Known' = Known
    PROVE  FreeRocksCollide'
  <1>0. target[a] \in Known /\ phase[a] # "idle"
    BY DEF ArmStep, Lock, Open, LetGo, Fail, Done, Busy, Targets
  <1>1. CASE Lock(a)
    BY <1>0, <1>1 DEF Lock, FreeRocksCollide, Welded, TypeOK, Owners, Phases
  <1>2. CASE Open(a)
    BY <1>0, <1>2 DEF Open, FreeRocksCollide, Welded, TypeOK, Owners, Phases
  <1>3. CASE LetGo(a)
    BY <1>0, <1>3 DEF LetGo, RemoveRockLock, FreeRocksCollide, Welded, TypeOK, Owners, Phases
  <1>4. CASE Fail(a)
    BY <1>0, <1>4
    DEF Fail, RemoveRockLock, Busy, FreeRocksCollide, Welded, TypeOK, Owners, Phases
  <1>5. CASE Done(a)
    BY <1>0, <1>5 DEF Done, FreeRocksCollide, Welded, TypeOK, Owners, Phases
  <1> QED BY <1>1, <1>2, <1>3, <1>4, <1>5 DEF ArmStep

LEMMA CollideInv ==
    ASSUME TypeOK, Targets, Whereabouts, FreeRocksCollide, Next
    PROVE  FreeRocksCollide'
  <1>1. CASE UNCHANGED <<cycle, fixed, solid, asleep, phase, target>>
    BY <1>1, SameCycle DEF FreeRocksCollide, Welded
  <1>2. CASE UpdateRockCollisionActivation
    <2>1. PICK on \in SUBSET SwitchableOn, off \in SUBSET SwitchableOff :
              solid' = (solid \cup on) \ off /\ asleep' = asleep \ on
      BY <1>2 DEF UpdateRockCollisionActivation
    <2>2. Known' = Known /\ Welded' = Welded /\ fixed' = fixed /\ phase' = phase /\ target' = target
      BY <1>2, SameCycle DEF UpdateRockCollisionActivation, Welded, arms
    <2>3. off \subseteq asleep /\ on \cap solid = {} /\ off \subseteq solid
      BY <2>1 DEF SwitchableOn, SwitchableOff
    <2>4. phase["collector"] = "letgo" => target["collector"] \notin off
      BY <2>1 DEF SwitchableOff, Near, Busy
    <2> QED BY <2>1, <2>2, <2>3, <2>4 DEF FreeRocksCollide
  <1>3. CASE UpdateDumpedRockFreeze
    BY <1>3, SameCycle DEF UpdateDumpedRockFreeze, FreeRocksCollide, Welded, arms
  <1>4. CASE CloseGate
    <2>1. cycle \in 0..LastCycle /\ cycle < LastCycle /\ cycle' = cycle + 1
      BY <1>4, CustodyAssumption DEF CloseGate, TypeOK
    <2> QED BY <1>4, <2>1, NewRocks DEF CloseGate, FreeRocksCollide, Welded, arms
  <1>5. CASE RequestTrailerDump
    BY <1>5, SameCycle DEF RequestTrailerDump, FreeRocksCollide, Welded, arms
  <1>6. CASE CollectorCommand
    <2>1. CASE ~Busy("collector")
               /\ \E r \in Known : StartPickPlace("collector", r) \/ Refuse("collector", r)
      <3>1. /\ phase'["collector"] \notin {"letgo", "carry", "opening"}
            /\ phase["collector"] \notin {"letgo", "carry", "opening"}
            /\ phase'["builder"] = phase["builder"] /\ target'["builder"] = target["builder"]
        BY <2>1 DEF StartPickPlace, Refuse, Busy, TypeOK, Owners
      <3>2. Welded' = Welded
        BY <3>1 DEF Welded, Owners
      <3>3. Known \ fixed' \subseteq (Known \ fixed) \cup solid' /\ solid \subseteq solid'
        BY <2>1, Rocky DEF StartPickPlace, Refuse, TypeOK
      <3>4. asleep' = asleep /\ Known' = Known
        BY <1>6, SameCycle DEF CollectorCommand, bodies
      <3> QED BY <3>1, <3>2, <3>3, <3>4 DEF FreeRocksCollide
    <2>2. CASE UNCHANGED <<bodies, place, arms>>
      BY <1>1, <1>6, <2>2 DEF CollectorCommand, bodies, arms
    <2> QED BY <1>6, <2>1, <2>2 DEF CollectorCommand, Known
  <1>7. CASE CollectorArm
    <2>1. target' = target /\ Known' = Known
      BY <1>7, SameCycle DEF CollectorArm
    <2>2. CASE asleep' = asleep
      BY <1>1, <1>7, <2>1, <2>2, ArmCollides DEF CollectorArm, Owners
    <2>3. CASE asleep' # asleep
      <3>1. /\ phase["collector"] = "letgo" /\ phase'["collector"] = "done"
            /\ asleep' = asleep \ {target["collector"]}
        BY <1>7, <2>3 DEF CollectorArm
      <3>2. Done("collector")
        BY <1>7, <3>1
        DEF CollectorArm, ArmStep, Lock, Open, LetGo, Fail, Done, TypeOK, Owners, Phases
      <3>3. fixed' = fixed /\ solid' = solid /\ Welded' = Welded
        BY <2>1, <3>2 DEF Done, Welded, TypeOK, Owners, Phases
      <3> QED BY <2>1, <3>1, <3>3 DEF FreeRocksCollide
    <2> QED BY <2>2, <2>3
  <1>8. CASE ClearStrandedFeedstock
    BY <1>8, SameCycle DEF ClearStrandedFeedstock, FreeRocksCollide, Welded, arms
  <1>9. CASE BuilderCommand
    <2>2. /\ ~Holds("builder") /\ ~Holds("builder")'
          /\ phase'["collector"] = phase["collector"]
          /\ target'["collector"] = target["collector"]
          \/ UNCHANGED <<fixed, solid, arms>>
      BY <1>9 DEF BuilderCommand, Book, Take, StartPickPlace, Holds, TypeOK, arms, Owners
    <2>3. Welded' = Welded
      BY <2>2 DEF Welded, Holds, Owners, arms
    <2>4. phase["builder"] = "idle" => target["builder"] \notin Known
      BY Rocky DEF Targets, TypeOK
    <2>5. fixed \cap Known \subseteq fixed' /\ solid \subseteq solid'
      BY <1>9, <2>4 DEF BuilderCommand, Book, Take, StartPickPlace
    <2>6. asleep' = asleep /\ Known' = Known /\ phase'["collector"] = phase["collector"]
          /\ target'["collector"] = target["collector"]
      BY <1>9, <2>2, SameCycle DEF BuilderCommand, arms
    <2> QED BY <2>3, <2>5, <2>6 DEF FreeRocksCollide, TypeOK
  <1>10. CASE BuilderArm
    BY <1>1, <1>10, SameCycle, ArmCollides DEF BuilderArm, Owners
  <1>11. CASE Physics
    BY <1>11, SameCycle DEF Physics, Loose, FreeRocksCollide, Welded, arms
  <1>12. CASE UpdateFeedstock \/ ReconcileRockDomains
              \/ ((AdvanceDumpCycle \/ TrailerBridge) /\ UNCHANGED <<cycle, place, bodies, rig,
                                                                    books, arms, soil>>)
    BY <1>1, <1>12 DEF UpdateFeedstock, ReconcileRockDomains, bodies, arms
  <1> QED BY <1>2, <1>3, <1>4, <1>5, <1>6, <1>7, <1>8, <1>9, <1>10, <1>11, <1>12
          DEF Next, AdvanceDumpCycle, TrailerBridge

----------------------------------------------------------------------------
(* The load of the bed.                                                    *)

LEMMA LoadInv ==
    ASSUME TypeOK, Targets, Whereabouts, LoadIsLoose, Next
    PROVE  LoadIsLoose'
  <1>0. feedstock \subseteq Pile /\ Pile \cap carried = {}
    BY DEF TypeOK, Pile, Whereabouts
  <1>1. CASE UNCHANGED <<place, bodies, rig>>
    BY <1>1 DEF LoadIsLoose, At, bodies, rig
  <1>2. CASE UpdateRockCollisionActivation
    BY <1>2
    DEF UpdateRockCollisionActivation, SwitchableOn, SwitchableOff, LoadIsLoose, At, rig
  <1>3. CASE UpdateDumpedRockFreeze
    BY <1>0, <1>3 DEF UpdateDumpedRockFreeze, LoadIsLoose, At, Pile
  <1>4. CASE CloseGate
    BY <1>4 DEF CloseGate, LoadIsLoose
  <1>5. CASE RequestTrailerDump
    BY <1>5 DEF RequestTrailerDump, Load, KeepAwake, LoadIsLoose, At
  <1>6. CASE CollectorCommand
    BY <1>6
    DEF CollectorCommand, StartPickPlace, Refuse, LoadIsLoose, At, bodies, rig, TypeOK
  <1>7. CASE CollectorArm
    <2>1. CASE ArmStep("collector")
      <3>1. target' = target /\ UNCHANGED <<dumping, carried>> /\ wakeful \subseteq wakeful'
            /\ asleep' \subseteq asleep
        BY <1>7 DEF CollectorArm, rig
      <3>2. phase["collector"] # "idle" /\ target["collector"] \in Rocks
        BY <2>1, Rocky DEF ArmStep, Lock, Open, LetGo, Fail, Done, Busy, Targets, Owners, TypeOK
      <3>3. CASE Lock("collector")
        BY <3>1, <3>2, <3>3 DEF Lock, LoadIsLoose, At, Whereabouts, TypeOK
      <3>4. CASE Open("collector") \/ Done("collector")
        BY <3>1, <3>4 DEF Open, Done, LoadIsLoose, At
      <3>5. CASE LetGo("collector") \/ Fail("collector")
        BY <3>1, <3>2, <3>5
        DEF LetGo, Fail, RemoveRockLock, LoadIsLoose, At, Whereabouts, Holds, TypeOK
      <3> QED BY <2>1, <3>3, <3>4, <3>5 DEF ArmStep
    <2>2. CASE UNCHANGED <<phase, fixed, solid, place>>
      BY <1>7, <2>2 DEF CollectorArm, LoadIsLoose, At, rig
    <2> QED BY <1>7, <2>1, <2>2 DEF CollectorArm
  <1>8. CASE ClearStrandedFeedstock
    BY <1>0, <1>8 DEF ClearStrandedFeedstock, LoadIsLoose, At, rig
  <1>9. CASE BuilderCommand
    <2>1. /\ \A r \in carried : /\ r \in fixed' => r \in fixed
                                /\ r \in solid => r \in solid'
          /\ UNCHANGED <<place, asleep, wakeful, dumping, carried>>
      <3>1. CASE phase["builder"] # "idle"
        <4>1. target["builder"] \notin carried
          BY <1>0, <3>1 DEF Targets
        <4> QED BY <1>9, <3>1, <4>1 DEF BuilderCommand, Book, Take, rig
      <3>2. CASE phase["builder"] = "idle"
        <4>1. target["builder"] \notin carried
          BY <3>2, CustodyAssumption, Rocky DEF Targets, TypeOK, Known
        <4> QED
          BY <1>0, <1>9, <3>2, <4>1 DEF BuilderCommand, Book, Take, StartPickPlace, rig
      <3> QED BY <3>1, <3>2
    <2> QED BY <2>1 DEF LoadIsLoose, At
  <1>10. CASE BuilderArm
    <2>1. CASE ArmStep("builder")
      <3>1. phase["builder"] # "idle"
        BY <2>1 DEF ArmStep, Lock, Open, LetGo, Fail, Done, Busy
      <3>2. target["builder"] \notin carried /\ target["builder"] \in Known
            /\ UNCHANGED <<asleep, wakeful, dumping, carried>>
        BY <1>0, <1>10, <3>1 DEF BuilderArm, Targets, Owners, rig
      <3>3. /\ fixed' \subseteq fixed /\ solid \ {target["builder"]} \subseteq solid'
            /\ \A r \in Rocks : r # target["builder"] => place'[r] = place[r]
        BY <2>1, <3>2, ArmEffect DEF Owners
      <3> QED BY <3>2, <3>3 DEF LoadIsLoose, At
    <2>2. CASE UNCHANGED <<phase, fixed, solid, place>>
      BY <1>10, <2>2 DEF BuilderArm, LoadIsLoose, At, rig
    <2> QED BY <1>10, <2>1, <2>2 DEF BuilderArm
  <1>11. CASE Physics
    BY <1>11 DEF Physics, Loose, LoadIsLoose, At, rig
  <1>12. CASE UpdateFeedstock \/ ReconcileRockDomains
              \/ ((AdvanceDumpCycle \/ TrailerBridge) /\ UNCHANGED <<cycle, place, bodies, rig,
                                                                    books, arms, soil>>)
    BY <1>1, <1>12 DEF UpdateFeedstock, ReconcileRockDomains
  <1> QED BY <1>2, <1>3, <1>4, <1>5, <1>6, <1>7, <1>8, <1>9, <1>10, <1>11, <1>12
          DEF Next, AdvanceDumpCycle, TrailerBridge

----------------------------------------------------------------------------
(* The theorems.                                                           *)

LEMMA CustodyInit == Init => CustodyInv
  <1> SUFFICES ASSUME Init PROVE CustodyInv
    OBVIOUS
  <1>1. LastCycle \in Nat /\ 0 \in 0..LastCycle /\ Seed \subseteq Rocks /\ NoRock \notin Rocks
    BY CustodyAssumption
  <1>2. Born = Loads[0] /\ Known = Loads[0] \cup Seed
    BY <1>1 DEF Init, Born, Known
  <1>3. Loads[0] \subseteq Rocks
    BY <1>1, CustodyAssumption
  <1>4. TypeOK
    BY <1>1, <1>2 DEF Init, TypeOK, Calls, Owners, Phases
  <1>5. DomainsKept /\ DomainIffMovable
    BY <1>2 DEF Init, DomainsKept, DomainIffMovable
  <1>6. FreeRocksCollide
    BY <1>2 DEF Init, FreeRocksCollide, Owners
  <1>7. Targets
    BY <1>1 DEF Init, Targets, At, Owners
  <1>8. Whereabouts /\ LoadIsLoose
    BY <1>1 DEF Init, Whereabouts, LoadIsLoose, Pile, Holds, Owners
  <1> QED BY <1>4, <1>5, <1>6, <1>7, <1>8 DEF CustodyInv

LEMMA CustodyInvariant == Spec => []CustodyInv
  <1>1. CustodyInv /\ Next => CustodyInv'
    BY TypesInv, TargetsInv, WhereaboutsInv, DomainsInv, CollideInv, LoadInv DEF CustodyInv
  <1>2. CustodyInv /\ UNCHANGED vars => CustodyInv'
    <2> SUFFICES ASSUME CustodyInv, UNCHANGED vars PROVE CustodyInv'
      OBVIOUS
    <2>1. Known' = Known /\ Born' = Born
      BY SameCycle DEF vars
    <2> QED
      BY <2>1
      DEF vars, rig, books, arms, bodies, soil, CustodyInv, TypeOK, DomainsKept,
          DomainIffMovable, FreeRocksCollide, Welded, Targets, Whereabouts, LoadIsLoose, Pile,
          Holds, At
  <1> QED BY CustodyInit, <1>1, <1>2, PTL DEF Spec

\* Every flag and every list is about rocks of the run, and the builder owns nothing but
\* the heap and what was delivered.
THEOREM CustodyTypes == Spec => []TypeOK
  <1>1. CustodyInv => TypeOK
    BY DEF CustodyInv
  <1> QED BY <1>1, CustodyInvariant, PTL

\* ReconcileRockDomains: when the terrain is advanced a rock has a soil domain exactly if
\* it is not fixed, whoever switched its flag in the step.
THEOREM DomainsFollowFlags == Spec => []DomainIffMovable
  <1>1. CustodyInv => DomainIffMovable
    BY DEF CustodyInv
  <1> QED BY <1>1, CustodyInvariant, PTL

\* A rock that moves freely collides and has soil under it.
THEOREM NothingFallsThrough == Spec => []MovableIsSupported
  <1>1. CustodyInv => MovableIsSupported
    BY DEF CustodyInv, MovableIsSupported, FreeRocksCollide, DomainIffMovable
  <1> QED BY <1>1, CustodyInvariant, PTL

\* RequestTrailerDump wakes and frees the load, and nothing puts it back to rest before
\* it has left the bed.
THEOREM LoadTips == Spec => []LoadCanTip
  <1>1. CustodyInv => LoadCanTip
    BY DEF CustodyInv, LoadIsLoose, LoadCanTip, Loose, At
  <1> QED BY <1>1, CustodyInvariant, PTL

\* RequestTrailerDump, the two watchers, the starts of the builder's arm and the bookings
\* leave every frozen rock of the feedstock frozen, for it never lies in the bed again and
\* the builder's arm remembers none it has laid.
THEOREM FeedstockStays == Spec => FeedstockStaysFixed
  <1>1. ASSUME CustodyInv, Next, pc \notin {"collect", "collector", "builder"},
               NEW r \in (feedstock \cup delivered) \cap fixed
        PROVE  r \in fixed'
    <2>1. r \in Rocks /\ r # NoRock /\ place[r] \in {"site", "hand"}
      BY <1>1, Rocky, CustodyAssumption DEF CustodyInv, TypeOK, Whereabouts, Pile, Known
    <2>2. CASE TrailerBridge
      BY <1>1, <2>1, <2>2 DEF TrailerBridge, RequestTrailerDump, Load, At, bodies
    <2>3. CASE BuilderCommand
      BY <1>1, <2>1, <2>3
      DEF BuilderCommand, Book, Take, StartPickPlace, CustodyInv, Targets
    <2>4. CASE UpdateRockCollisionActivation \/ UpdateDumpedRockFreeze \/ AdvanceDumpCycle
               \/ UpdateFeedstock \/ ClearStrandedFeedstock \/ ReconcileRockDomains \/ Physics
      BY <1>1, <2>4
      DEF UpdateRockCollisionActivation, UpdateDumpedRockFreeze, AdvanceDumpCycle, CloseGate,
          UpdateFeedstock, ClearStrandedFeedstock, ReconcileRockDomains, Physics, bodies
    <2>5. ~CollectorCommand /\ ~CollectorArm /\ ~BuilderArm
      BY <1>1 DEF CollectorCommand, CollectorArm, BuilderArm
    <2> QED BY <1>1, <2>2, <2>3, <2>4, <2>5 DEF Next
  <1>2. CustodyInv /\ [Next]_vars => [PileLeftAlone]_vars
    BY <1>1 DEF PileLeftAlone
  <1> QED BY <1>2, CustodyInvariant, PTL DEF Spec, FeedstockStaysFixed

=============================================================================
