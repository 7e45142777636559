---------------------------- MODULE RockCustody ----------------------------
(***************************************************************************)
(* Who may move a rock.  On one rank the collector's arm and trailer, the  *)
(* rig's collision and freeze watchers, the builder's bridge and arm, and  *)
(* the main loop's soil domains all switch the flags of the same rock      *)
(* bodies: fixed, colliding, asleep, carrying an SCM active domain.        *)
(*                                                                         *)
(* One step of the main loop runs them in a set order, here one action of  *)
(* each per step: RobotRig::Synchronize (activation, freeze, dump, trailer *)
(* bridge, arm bridge, arm), BuilderRig::Synchronize (feedstock, stranded  *)
(* rocks, command and booking, arm), the reconciliation of the domains,    *)
(* and the dynamics.                                                       *)
(*                                                                         *)
(* Distances, clocks and contacts are free.  A rock whose speed is not     *)
(* finite is left out (the rank aborts).  A builder command that arrives   *)
(* before the last cycle is booked is BuilderArmCycle's subject.           *)
(***************************************************************************)
EXTENDS Naturals

CONSTANTS
    Rocks, NoRock,  \* all rock bodies of a run; the null pointer
    Seed,           \* builder_pile_rocks
    LastCycle,      \* bound on the harvest cycles
    Loads,          \* the rocks AddRockFields puts out in each of them
    Direct          \* TRUE: direct commands come, so a cycle may time out rock in hand

ASSUME CustodyAssumption ==
    /\ NoRock \notin Rocks /\ Seed \subseteq Rocks
    /\ LastCycle \in Nat
    /\ Loads \in [0..LastCycle -> SUBSET Rocks]
    /\ Direct \in BOOLEAN
    /\ \A c \in 0..LastCycle : Loads[c] \cap Seed = {}
    /\ \A c, d \in 0..LastCycle : c # d => Loads[c] \cap Loads[d] = {}

VARIABLES
    pc,         \* the call of the loop's step that runs next
    cycle,      \* m_harvest_cycle
    place,      \* where a rock is: its lane, a gripper, the bed, the building site
    fixed, solid, asleep, wakeful,  \* IsFixed, IsCollisionEnabled, IsSleeping, may not sleep
    dumping, carried, settling, delivered,  \* the rig's dump and its lists
    feedstock, consumed,                    \* the builder bridge's
    phase, target,                          \* each arm's
    seen, held, domain  \* ScmRockDomains, and the domains the terrain really has

rig == <<dumping, carried, settling, delivered>>
books == <<feedstock, consumed>>
arms == <<phase, target>>
bodies == <<fixed, solid, asleep, wakeful>>
soil == <<seen, held, domain>>
vars == <<pc, cycle, place, bodies, rig, books, arms, soil>>

Owners == {"collector", "builder"}
Calls == {"activate", "freeze", "dump", "trailer", "collect", "collector", "feed",
          "clear", "command", "builder", "domains", "physics"}
Phases == {"idle", "reach", "carry", "opening", "letgo", "done", "failed"}

Born == UNION {Loads[c] : c \in 0..cycle}      \* m_rocks
Known == Born \cup Seed
Busy(a) == phase[a] \in {"reach", "carry", "opening", "letgo"}
Welded == {target[a] : a \in {x \in Owners : phase[x] \in {"carry", "opening"}}}

At(p) == {r \in Rocks : place[r] = p}

Init ==
    /\ pc = "activate" /\ cycle = 0
    /\ place = [r \in Rocks |-> IF r \in Seed THEN "site" ELSE "lane"]
    /\ fixed = Seed /\ solid = Seed \cup Loads[0] /\ wakeful = {}
    /\ asleep \in {{}, Loads[0]}     \* asleep after a settle, which may be switched off
    /\ dumping = FALSE /\ carried = {} /\ settling = {} /\ delivered = {}
    /\ feedstock = Seed /\ consumed = {}
    /\ phase = [a \in Owners |-> "idle"] /\ target = [a \in Owners |-> NoRock]
    /\ seen = {} /\ held = {} /\ domain = Seed \cup Loads[0]

----------------------------------------------------------------------------
(* RobotRig::Synchronize *)

\* GetActiveRock of the collector's arm: not in OPENING.
ActiveRock == IF phase["collector"] \in {"reach", "carry"} THEN target["collector"] ELSE NoRock

\* Rocks in the bed or within the reach of the collector's arm are near the rover
\* (rock_collision_activation_radius is 12 m).
Near == At("bed") \cup (IF Busy("collector") THEN {target["collector"]} ELSE {})

\* The rocks the loop looks at: a frozen one and the arm's are left alone.
Managed == (Born \ fixed) \ {ActiveRock}

\* Mutated: a far rock is switched off whether or not it sleeps.
SwitchableOffAwake == (Managed \cap solid) \ Near

\* Far rocks that sleep may be switched off, near ones are switched on.
SwitchableOff == (Managed \cap solid \cap asleep) \ Near
SwitchableOn == Managed \ solid

UpdateRockCollisionActivation ==
    /\ pc = "activate" /\ pc' = "freeze"
    /\ \E on \in SUBSET SwitchableOn, off \in SUBSET SwitchableOff :
          /\ SwitchableOn \cap Near \subseteq on
          /\ solid' = (solid \cup on) \ off
          /\ asleep' = asleep \ on
    /\ UNCHANGED <<cycle, place, fixed, wakeful, rig, books, arms, soil>>

\* Dumped rocks that stayed still for dumped_rock_settle_dwell are frozen and delivered.
UpdateDumpedRockFreeze ==
    /\ pc = "freeze" /\ pc' = "dump"
    /\ \E still \in SUBSET (settling \ fixed) :
          /\ fixed' = fixed \cup still
          /\ solid' = solid \cup still
          /\ delivered' = delivered \cup still
          /\ settling' = settling \ (fixed \cup still)
    /\ UNCHANGED <<cycle, place, asleep, wakeful, dumping, carried, books, arms, soil>>

\* The gate is shut again: ReportDumpOutcome, then StartNextHarvestCycle with new rocks
\* that are bound and registered with the terrain.
CloseGate ==
    /\ dumping /\ cycle < LastCycle
    /\ dumping' = FALSE /\ carried' = {}
    /\ settling' = settling \cup (carried \ At("bed"))
    /\ cycle' = cycle + 1
    /\ solid' = solid \cup Loads[cycle']
    /\ domain' = domain \cup Loads[cycle']
    /\ UNCHANGED <<delivered, place, fixed, asleep, wakeful, books, arms, seen, held>>

AdvanceDumpCycle ==
    /\ pc = "dump" /\ pc' = "trailer"
    /\ CloseGate \/ UNCHANGED <<cycle, place, bodies, rig, books, arms, soil>>

\* Mutated: the load may fall asleep again.
KeepAwakeNot(load) == wakeful' = wakeful

KeepAwake(load) == wakeful' = wakeful \cup load

\* RockIsInBed: the rocks in the bed's footprint.
Load == At("bed")

\* RequestTrailerDump forces whatever rides in the bed awake, dynamic and colliding.
RequestTrailerDump ==
    /\ ~dumping
    /\ dumping' = TRUE /\ carried' = Load
    /\ KeepAwake(Load)
    /\ asleep' = asleep \ Load /\ fixed' = fixed \ Load /\ solid' = solid \cup Load
    /\ UNCHANGED <<cycle, place, settling, delivered, books, arms, soil>>

TrailerBridge ==
    /\ pc = "trailer" /\ pc' = "collect"
    /\ RequestTrailerDump \/ UNCHANGED <<cycle, place, bodies, rig, books, arms, soil>>

----------------------------------------------------------------------------
(* LrvArm, as far as it switches a rock's flags *)

\* StartPickPlace: the previous target is freed, the new one frozen where it lies.
StartPickPlace(a, r) ==
    /\ target' = [target EXCEPT ![a] = r]
    /\ phase' = [phase EXCEPT ![a] = "reach"]
    /\ fixed' = (fixed \ {target[a]}) \cup {r}
    /\ solid' = solid \cup ({target[a], r} \ {NoRock})

\* A command without poses or out of the envelope: the new target is freed at once.
Refuse(a, r) ==
    /\ target' = [target EXCEPT ![a] = r]
    /\ phase' = [phase EXCEPT ![a] = "failed"]
    /\ fixed' = fixed \ {target[a], r}
    /\ solid' = solid \cup ({target[a], r} \ {NoRock})

\* TryLockRock
Lock(a) ==
    /\ phase[a] = "reach" /\ phase' = [phase EXCEPT ![a] = "carry"]
    /\ fixed' = fixed \ {target[a]} /\ solid' = solid \ {target[a]}
    /\ place' = [place EXCEPT ![target[a]] = "hand"]

Open(a) ==
    /\ phase[a] = "carry" /\ phase' = [phase EXCEPT ![a] = "opening"]
    /\ UNCHANGED <<fixed, solid, place>>

\* Where a rock that leaves a gripper may come to lie.
Below(a) == IF a = "collector" THEN {"bed", "lane"} ELSE {"site"}

RemoveRockLock(a) ==
    /\ fixed' = fixed \ {target[a]} /\ solid' = solid \cup {target[a]}
    /\ IF phase[a] \in {"carry", "opening"}
       THEN \E p \in Below(a) : place' = [place EXCEPT ![target[a]] = p]
       ELSE place' = place

LetGo(a) ==
    /\ phase[a] = "opening" /\ phase' = [phase EXCEPT ![a] = "letgo"]
    /\ RemoveRockLock(a)

\* A cycle that nothing disturbs fails before the grip only (LrvArm).
Fail(a) ==
    /\ Busy(a) /\ (Direct \/ phase[a] = "reach")
    /\ phase' = [phase EXCEPT ![a] = "failed"]
    /\ RemoveRockLock(a)

Done(a) ==
    /\ phase[a] = "letgo" /\ phase' = [phase EXCEPT ![a] = "done"]
    /\ UNCHANGED <<fixed, solid, place>>

ArmStep(a) == Lock(a) \/ Open(a) \/ LetGo(a) \/ Fail(a) \/ Done(a)

\* The collector's bridge: a command for a rock that still lies in the lane.
CollectorCommand ==
    /\ pc = "collect" /\ pc' = "collector"
    /\ \/ /\ ~Busy("collector")
          /\ \E r \in Born \cap At("lane") :
                StartPickPlace("collector", r) \/ Refuse("collector", r)
          /\ UNCHANGED <<asleep, wakeful, place>>
       \/ UNCHANGED <<bodies, place, arms>>
    /\ UNCHANGED <<cycle, rig, books, soil>>

\* Its arm; a rock it has placed is woken and kept awake.  It never forgets a target.
CollectorArm ==
    /\ pc = "collector" /\ pc' = "feed"
    /\ \/ ArmStep("collector")
       \/ UNCHANGED <<phase, fixed, solid, place>>
    /\ LET placed == IF phase["collector"] = "letgo" /\ phase'["collector"] = "done"
                     THEN {target["collector"]} ELSE {}
       IN wakeful' = wakeful \cup placed /\ asleep' = asleep \ placed
    /\ UNCHANGED <<cycle, target, rig, books, soil>>

----------------------------------------------------------------------------
(* BuilderRig::Synchronize *)

GetDeliveredRocks == delivered

\* UpdateFeedstock, at the publish rate and while the arm is idle.
UpdateFeedstock ==
    /\ pc = "feed" /\ pc' = "clear"
    /\ \/ /\ ~Busy("builder")
          /\ feedstock' = feedstock \cup GetDeliveredRocks
       \/ UNCHANGED feedstock
    /\ UNCHANGED <<cycle, place, bodies, rig, consumed, arms, soil>>

\* Rocks the builder has driven past are fixed, switched off and put underground.
ClearStrandedFeedstock ==
    /\ pc = "clear" /\ pc' = "command"
    /\ \E gone \in SUBSET (feedstock \ consumed) :
          /\ consumed' = consumed \cup gone
          /\ fixed' = fixed \cup gone /\ solid' = solid \ gone
          /\ place' = [r \in Rocks |-> IF r \in gone THEN "site" ELSE place[r]]
    /\ UNCHANGED <<cycle, asleep, wakeful, rig, feedstock, arms, soil>>

\* Mutated: the arm is not made to forget the rock.
BookRemembers ==
    /\ phase["builder"] \in {"done", "failed"}
    /\ fixed' = fixed \cup {target["builder"]} /\ solid' = solid \cup {target["builder"]}
    /\ consumed' \in IF phase["builder"] = "done" THEN {consumed}
                     ELSE {consumed, consumed \ {target["builder"]}}
    /\ phase' = [phase EXCEPT !["builder"] = "idle"]
    /\ target' = target

\* A finished cycle is booked: the rock is fixed, laid or failed, the arm forgets it,
\* and a failed one may go back to the pile.
Book ==
    /\ phase["builder"] \in {"done", "failed"}
    /\ fixed' = fixed \cup {target["builder"]} /\ solid' = solid \cup {target["builder"]}
    /\ consumed' \in IF phase["builder"] = "done" THEN {consumed}
                     ELSE {consumed, consumed \ {target["builder"]}}
    /\ phase' = [phase EXCEPT !["builder"] = "idle"]
    /\ target' = [target EXCEPT !["builder"] = NoRock]

\* A command for a rock of the pile.  One the arm refuses is booked in the same call.
Take(r) ==
    /\ phase["builder"] = "idle"
    /\ \/ StartPickPlace("builder", r) /\ consumed' = consumed \cup {r}
       \/ /\ fixed' = fixed \cup {r} /\ solid' = solid \cup {r}
          /\ consumed' \in {consumed, consumed \cup {r}}
          /\ UNCHANGED arms

BuilderCommand ==
    /\ pc = "command" /\ pc' = "builder"
    /\ \/ Book
       \/ \E r \in feedstock \ consumed : Take(r)
       \/ phase["builder"] \notin {"done", "failed"} /\ UNCHANGED <<fixed, solid, consumed, arms>>
    /\ UNCHANGED <<cycle, place, asleep, wakeful, rig, feedstock, soil>>

BuilderArm ==
    /\ pc = "builder" /\ pc' = "domains"
    /\ ArmStep("builder") \/ UNCHANGED <<phase, fixed, solid, place>>
    /\ UNCHANGED <<cycle, asleep, wakeful, target, rig, books, soil>>

----------------------------------------------------------------------------
(* ReconcileRockDomains, for the collector's rocks and the seed heap, and the step of  *)
(* the dynamics that follows it.                                                       *)

\* Mutated: a rock that is freed again gets no domain.
WantsFixedOnly == (Known \ fixed) \cap (held \cup (Known \ seen))

Wants == Known \ fixed

\* Rocks seen for the first time are taken to hold a domain; it acts on transitions only.
ReconcileRockDomains ==
    /\ pc = "domains" /\ pc' = "physics"
    /\ LET has == held \cup (Known \ seen)
       IN /\ domain' = (domain \cup (Wants \ has)) \ (has \ Wants)
          /\ held' = Wants
    /\ seen' = seen \cup Known
    /\ UNCHANGED <<cycle, place, bodies, rig, books, arms>>

\* What can tip out of the open bed.
Loose == (At("bed") \cap solid) \ (fixed \cup asleep)

\* Free rocks come to rest and sleep, contacts wake them, a raised bed empties.
Physics ==
    /\ pc = "physics" /\ pc' = "activate"
    /\ \E doze \in SUBSET (Known \ (fixed \cup wakeful \cup Welded)),
          wake \in SUBSET (asleep \cap solid),
          out \in SUBSET (IF dumping THEN Loose ELSE {}) :
          /\ asleep' = (asleep \ wake) \cup (doze \ out)
          /\ place' = [r \in Rocks |-> IF r \in out THEN "site" ELSE place[r]]
    /\ UNCHANGED <<cycle, fixed, solid, wakeful, rig, books, arms, soil>>

Next ==
    \/ UpdateRockCollisionActivation \/ UpdateDumpedRockFreeze
    \/ AdvanceDumpCycle \/ TrailerBridge \/ CollectorCommand \/ CollectorArm
    \/ UpdateFeedstock \/ ClearStrandedFeedstock \/ BuilderCommand \/ BuilderArm
    \/ ReconcileRockDomains \/ Physics

Spec == Init /\ [][Next]_vars

----------------------------------------------------------------------------
(* Properties *)

\* Types, and the books: the builder owns nothing but the heap and what was delivered.
TypeOK ==
    /\ pc \in Calls /\ cycle \in 0..LastCycle
    /\ place \in [Rocks -> {"lane", "hand", "bed", "site"}]
    /\ fixed \subseteq Known /\ solid \subseteq Known
    /\ asleep \subseteq Known /\ wakeful \subseteq Known
    /\ dumping \in BOOLEAN
    /\ carried \subseteq Born /\ settling \subseteq Born /\ delivered \subseteq Born
    /\ feedstock \subseteq Seed \cup delivered /\ consumed \subseteq feedstock
    /\ phase \in [Owners -> Phases] /\ target \in [Owners -> Known \cup {NoRock}]
    /\ seen \subseteq Known /\ held \subseteq Known /\ domain \subseteq Known

\* "Invariant: a rock carries an SCM active domain IFF it can still move", each time the
\* terrain is advanced, whichever of the five places flipped its flag.
DomainIffMovable == pc = "physics" => domain = Known \ fixed

\* "A dynamic rock with no domain gets no soil support and falls through the terrain",
\* and so does one that does not collide: a rock that moves freely has both.
MovableIsSupported ==
    pc = "physics" => (Known \ (fixed \cup asleep)) \ Welded \subseteq solid \cap domain

\* Whatever was in the bed when the dump was requested stays able to tip out of it
\* ("it ignores gravity and it ignores the bed tilting underneath it").
LoadCanTip == dumping => carried \cap At("bed") \subseteq Loose

\* What is frozen of the builder's feedstock stays frozen in every call but those of an arm:
\* no watcher wakes it, no dump takes it for its load, and a command that starts the
\* builder's arm frees nothing it has laid.
PileLeftAlone ==
    pc \notin {"collect", "collector", "builder"} =>
        (feedstock \cup delivered) \cap fixed \subseteq fixed'

FeedstockStaysFixed == [][PileLeftAlone]_vars

\* "Feedstock stays where it was put": "every rock is fixed, and the only dynamic one is the
\* one the gripper has locked", or has laid and not yet booked.
OnlyTheLockedIsDynamic == (feedstock \cup delivered) \ fixed \subseteq {target["builder"]}

\* "Once bonded, the rock must not fight the fingers or the terrain": what is welded to
\* an arm does not collide.
GhostWhileWelded == pc = "physics" => Welded \cap solid = {}

=============================================================================
