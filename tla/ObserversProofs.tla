--------------------------- MODULE ObserversProofs ---------------------------
(***************************************************************************)
(* What the observers of a rank promise, for every sampling rate, step,    *)
(* list of bodies, length of the run and place where it is killed: the     *)
(* frames on disk can be read, no sample is skipped, the soil is known to  *)
(* within the epsilon, and a drawn rock stays the rock it is.              *)
(***************************************************************************)
EXTENDS Observers, SequenceTheorems, TLAPS

\* The rocks of the first harvests, and every body there may be.
RocksOf(c) == UNION {Range(Harvest(d)) : d \in 0..c}
Body == Range(Machines) \cup Range(BuilderRocks) \cup RocksOf(LastCycle)
Part == {PartOf(b) : b \in Body}

----------------------------------------------------------------------------
(* The loop. *)

LoopInv ==
    /\ pc \in {"record", "soil", "sync", "dynamics"}
    /\ now \in Nat /\ cycle \in 0..LastCycle
    /\ rocks \in Seq(RocksOf(cycle)) /\ IsInjective(rocks)
    /\ Len(rocks) <= MaxRocksPerCycle * (cycle + 1)

(* The pose recorder: its schedule, and what is on disk. *)

ScheduleTypes ==
    /\ isOpen \in BOOLEAN /\ capturing \in BOOLEAN
    /\ nextSample \in Nat
    /\ frames \in Seq([at : Nat, holds : SUBSET (Nat \X Body)])
    /\ capturing => isOpen /\ pc = "record"

OnGrid(time) == time % TrajectoryPeriod = 0
Sampled(instant) ==
    \E f \in DOMAIN frames : frames[f].at >= instant /\ frames[f].at < instant + Step

\* An instant that is behind the schedule has its frame, or gets it in this sweep.
ScheduleInv ==
    /\ OnGrid(nextSample)
    /\ isOpen => nextSample + Step > now
    /\ isOpen /\ (capturing \/ pc # "record") => nextSample > now
    /\ \A instant \in Nat : OnGrid(instant) /\ instant < nextSample =>
          Sampled(instant) \/ (capturing /\ instant <= now /\ now < instant + Step)

ManifestTypes ==
    /\ index \in Seq(Body)
    /\ nameUses \in [DOMAIN nameUses -> Nat]
    /\ manifest \in Seq(Part \X Nat)
    /\ framesOut \in 0..Len(frames)

\* Every index has its line, on disk; a line carries a use of the name that has been made.
ManifestInv ==
    /\ Len(manifest) = Len(index) /\ linesOut = Len(manifest)
    /\ \A i \in DOMAIN manifest :
          /\ manifest[i][1] = PartOf(index[i])
          /\ manifest[i][1] \in DOMAIN nameUses
          /\ manifest[i][2] <= nameUses[manifest[i][1]]
    /\ IsInjective(manifest)
    /\ \A f \in DOMAIN frames : \A entry \in frames[f].holds :
          entry[1] \in DOMAIN index /\ index[entry[1]] = entry[2]

(* The soil recorder: what a reader knows is what the recorder remembers. *)

SoilInv ==
    /\ isSaved \in BOOLEAN
    /\ Touched \subseteq Nodes /\ level \in [Touched -> Int]
    /\ DOMAIN lastLevel \subseteq Touched /\ lastLevel \in [DOMAIN lastLevel -> Int]
    /\ reader = lastLevel
    /\ nextFrame \in Int /\ nextKeyframe \in Int
    /\ frameAt \in Int /\ frameAt <= now
    /\ pc \in {"record", "soil"} => frameAt < now

(* The sensor rank: it has been sent the first of the rocks, and draws each in its lane. *)

PoolInv ==
    /\ sent \in Seq(RocksOf(cycle)) /\ Len(sent) <= Len(rocks)
    /\ \A k \in DOMAIN sent : sent[k] = rocks[k]
    /\ zombies = [i \in 1..Capacity(0) |->
                     IF sent # <<>> /\ i <= Len(Lanes(sent)) THEN Lanes(sent)[i] ELSE Stash]

ObserversInv ==
    /\ LoopInv
    /\ ScheduleTypes /\ ScheduleInv
    /\ ManifestTypes /\ ManifestInv
    /\ SoilInv /\ SoilReadable
    /\ PoolInv

----------------------------------------------------------------------------
(* The bodies. *)

(* A list of one harvest is new to those before it.                                     *)
LEMMA HarvestIsNew ==
    ASSUME NEW c \in 0..LastCycle
    PROVE  /\ RocksOf(c) \subseteq RocksOf(LastCycle)
           /\ Harvest(c) \in Seq(Range(Harvest(c)))
           /\ Len(Harvest(c)) \in 0..MaxRocksPerCycle
           /\ IsInjective(Harvest(c))
           /\ RocksOf(c) \cap (Range(BuilderRocks) \cup {Stash}) = {}
           /\ c > 0 => /\ RocksOf(c) = RocksOf(c - 1) \cup Range(Harvest(c))
                       /\ RocksOf(c - 1) \cap Range(Harvest(c)) = {}
  <1>1. LastCycle \in Nat /\ MaxRocksPerCycle \in Nat
    BY ObserversAssumption
  <1>2. \A d \in 0..LastCycle :
           /\ Harvest(d) \in Seq(Range(Harvest(d)) \ (Range(BuilderRocks) \cup {Stash}))
           /\ IsInjective(Harvest(d))
           /\ \A e \in 0..(d - 1) : Range(Harvest(d)) \cap Range(Harvest(e)) = {}
    BY BodiesAssumption
  <1>3. \A d \in 0..LastCycle : Range(Harvest(d)) \cap (Range(BuilderRocks) \cup {Stash}) = {}
    <2> SUFFICES ASSUME NEW d \in 0..LastCycle, NEW i \in DOMAIN Harvest(d)
                 PROVE  Harvest(d)[i] \notin Range(BuilderRocks) \cup {Stash}
      BY DEF Range
    <2>1. Harvest(d) \in Seq(Range(Harvest(d)) \ (Range(BuilderRocks) \cup {Stash}))
      BY <1>2
    <2> QED
      BY <2>1, LenProperties, ElementOfSeq
  <1>4. RocksOf(c) \subseteq RocksOf(LastCycle)
    BY <1>1 DEF RocksOf
  <1>5. Harvest(c) \in Seq(Range(Harvest(c)))
    <2>1. Harvest(c) \in Seq(Range(Harvest(c)) \ (Range(BuilderRocks) \cup {Stash}))
      BY <1>2
    <2>2. Range(Harvest(c)) \ (Range(BuilderRocks) \cup {Stash}) \subseteq Range(Harvest(c))
      OBVIOUS
    <2> QED
      BY <2>1, <2>2, SeqMonotonic, Zenon
  <1>6. Len(Harvest(c)) \in 0..MaxRocksPerCycle
    BY <1>1, <1>5, LenProperties, ObserversAssumption
  <1>7. RocksOf(c) \cap (Range(BuilderRocks) \cup {Stash}) = {}
    BY <1>1, <1>3 DEF RocksOf
  <1>8. ASSUME c > 0
        PROVE  /\ RocksOf(c) = RocksOf(c - 1) \cup Range(Harvest(c))
               /\ RocksOf(c - 1) \cap Range(Harvest(c)) = {}
    <2>1. 0..c = (0..(c - 1)) \cup {c}
      BY <1>8, <1>1
    <2>2. RocksOf(c) = RocksOf(c - 1) \cup Range(Harvest(c))
      BY <2>1 DEF RocksOf
    <2>3. RocksOf(c - 1) \cap Range(Harvest(c)) = {}
      BY <1>2 DEF RocksOf
    <2> QED
      BY <2>2, <2>3
  <1> QED
    BY <1>2, <1>4, <1>5, <1>6, <1>7, <1>8

(* Nothing repeats in a concatenation of two lists that share nothing.                    *)
LEMMA ConcatInjective ==
    ASSUME NEW S, NEW T, NEW s \in Seq(S), NEW t \in Seq(T),
           S \cap T = {}, IsInjective(s), IsInjective(t)
    PROVE  s \o t \in Seq(S \cup T) /\ IsInjective(s \o t)
  <1>1. s \in Seq(S \cup T) /\ t \in Seq(S \cup T)
    BY SeqMonotonic
  <1>2. Len(s) \in Nat /\ Len(t) \in Nat /\ DOMAIN s = 1..Len(s) /\ DOMAIN t = 1..Len(t)
    BY LenProperties
  <1>3. /\ s \o t \in Seq(S \cup T)
        /\ Len(s \o t) = Len(s) + Len(t)
        /\ DOMAIN (s \o t) = 1..(Len(s) + Len(t))
        /\ \A i \in 1..(Len(s) + Len(t)) :
              (s \o t)[i] = IF i <= Len(s) THEN s[i] ELSE t[i - Len(s)]
    BY <1>1, ConcatProperties, LenProperties
  <1>4. \A i \in 1..Len(s) : s[i] \in S
    BY ElementOfSeq
  <1>5. \A i \in 1..Len(t) : t[i] \in T
    BY ElementOfSeq
  <1>6. IsInjective(s \o t)
    <2> SUFFICES ASSUME NEW i \in 1..(Len(s) + Len(t)), NEW j \in 1..(Len(s) + Len(t)),
                        (s \o t)[i] = (s \o t)[j]
                 PROVE  i = j
      BY <1>3 DEF IsInjective
    <2>1. CASE i <= Len(s) /\ j <= Len(s)
      BY <2>1, <1>2, <1>3 DEF IsInjective
    <2>2. CASE i <= Len(s) /\ ~(j <= Len(s))
      <3>1. (s \o t)[i] \in S
        BY <2>2, <1>2, <1>3, <1>4
      <3>2. (s \o t)[j] \in T
        <4>1. j - Len(s) \in 1..Len(t)
          BY <2>2, <1>2
        <4> QED
          BY <4>1, <2>2, <1>3, <1>5
      <3> QED
        BY <3>1, <3>2
    <2>3. CASE ~(i <= Len(s)) /\ j <= Len(s)
      <3>1. (s \o t)[j] \in S
        BY <2>3, <1>2, <1>3, <1>4
      <3>2. (s \o t)[i] \in T
        <4>1. i - Len(s) \in 1..Len(t)
          BY <2>3, <1>2
        <4> QED
          BY <4>1, <2>3, <1>3, <1>5
      <3> QED
        BY <3>1, <3>2
    <2>4. CASE ~(i <= Len(s)) /\ ~(j <= Len(s))
      <3>1. i - Len(s) \in DOMAIN t /\ j - Len(s) \in DOMAIN t
        BY <2>4, <1>2
      <3>2. t[i - Len(s)] = t[j - Len(s)]
        BY <2>4, <1>3
      <3>3. i - Len(s) = j - Len(s)
        BY <3>1, <3>2 DEF IsInjective
      <3> QED
        BY <3>3, <1>2
    <2> QED
      BY <2>1, <2>2, <2>3, <2>4
  <1> QED
    BY <1>3, <1>6

(* StartNextHarvestCycle appends rocks nobody has seen.                                   *)
LEMMA HarvestStep ==
    ASSUME LoopInv, StartNextHarvestCycle
    PROVE  /\ cycle' \in 0..LastCycle
           /\ rocks' \in Seq(RocksOf(cycle')) /\ IsInjective(rocks')
           /\ Len(rocks') <= MaxRocksPerCycle * (cycle' + 1)
           /\ Len(rocks) <= Len(rocks') /\ RocksOf(cycle) \subseteq RocksOf(cycle')
           /\ \A k \in 1..Len(rocks) : rocks'[k] = rocks[k]
  <1>1. cycle' = cycle + 1 /\ cycle' \in 0..LastCycle /\ cycle' > 0 /\ cycle = cycle' - 1
        /\ cycle \in Nat
    <2>1. LastCycle \in Nat /\ cycle \in 0..LastCycle
      BY ObserversAssumption DEF LoopInv
    <2>2. cycle < LastCycle /\ cycle' = cycle + 1
      BY DEF StartNextHarvestCycle
    <2> QED
      BY <2>1, <2>2
  <1>2. rocks' = rocks \o Harvest(cycle') /\ rocks \in Seq(RocksOf(cycle)) /\ IsInjective(rocks)
    BY DEF LoopInv, StartNextHarvestCycle
  <1>3. /\ Harvest(cycle') \in Seq(Range(Harvest(cycle'))) /\ IsInjective(Harvest(cycle'))
        /\ Len(Harvest(cycle')) \in 0..MaxRocksPerCycle
        /\ RocksOf(cycle') = RocksOf(cycle) \cup Range(Harvest(cycle'))
        /\ RocksOf(cycle) \cap Range(Harvest(cycle')) = {}
    BY <1>1, HarvestIsNew
  <1>4. /\ rocks' \in Seq(RocksOf(cycle')) /\ IsInjective(rocks')
        /\ Len(rocks') = Len(rocks) + Len(Harvest(cycle'))
        /\ \A k \in 1..Len(rocks) : rocks'[k] = rocks[k]
    <2> DEFINE old == rocks
               new == Harvest(cycle')
               S == RocksOf(cycle)
               T == Range(new)
    <2>1. S \cap T = {} /\ old \in Seq(S) /\ new \in Seq(T) /\ IsInjective(old) /\ IsInjective(new)
      BY <1>2, <1>3
    <2>2. rocks' = old \o new /\ RocksOf(cycle') = S \cup T
      BY <1>2, <1>3
    <2> HIDE DEF old, new, S, T
    <2>3. /\ old \o new \in Seq(S \cup T) /\ IsInjective(old \o new)
          /\ Len(old \o new) = Len(old) + Len(new)
          /\ \A i \in 1..Len(old) : (old \o new)[i] = old[i]
      <3>1. old \o new \in Seq(S \cup T) /\ IsInjective(old \o new)
        BY <2>1, ConcatInjective, Zenon
      <3>2. Len(old \o new) = Len(old) + Len(new)
        BY <2>1
      <3>3. \A i \in 1..Len(old) : (old \o new)[i] = old[i]
        BY <2>1
      <3> QED
        BY <3>1, <3>2, <3>3
    <2>4. /\ rocks' \in Seq(RocksOf(cycle')) /\ IsInjective(rocks')
          /\ Len(rocks') = Len(old) + Len(new)
          /\ \A k \in 1..Len(old) : rocks'[k] = old[k]
      BY <2>2, <2>3
    <2> QED
      BY <2>4 DEF old, new
  <1>5. Len(rocks) \in Nat
    BY <1>2, LenProperties
  <1>6. MaxRocksPerCycle * (cycle' + 1) = MaxRocksPerCycle * (cycle + 1) + MaxRocksPerCycle
        /\ MaxRocksPerCycle * (cycle + 1) \in Nat
    <2>1. MaxRocksPerCycle \in Nat
      BY ObserversAssumption
    <2> QED
      BY <2>1, <1>1, Z3
  <1>7. Len(rocks') <= MaxRocksPerCycle * (cycle' + 1) /\ Len(rocks) <= Len(rocks')
    <2>1. Len(rocks) <= MaxRocksPerCycle * (cycle + 1)
      BY DEF LoopInv
    <2>2. MaxRocksPerCycle \in Nat
      BY ObserversAssumption
    <2> QED
      BY <2>1, <2>2, <1>3, <1>4, <1>5, <1>6
  <1> QED
    BY <1>1, <1>3, <1>4, <1>7

----------------------------------------------------------------------------
(* The sampling grid. *)

(* The multiples of a period.                                                            *)
LEMMA Multiples ==
    ASSUME NEW P \in Nat \ {0}
    PROVE  /\ \A k \in Nat : (P * k) % P = 0
           /\ \A a \in Nat : a % P = 0 => \E k \in Nat : a = P * k
           /\ \A a, b \in Nat : a % P = 0 /\ b % P = 0 /\ a < b => a + P <= b
  <1>1. \A k \in Nat : (P * k) % P = 0
    BY Z3
  <1>2. ASSUME NEW a \in Nat, a % P = 0
        PROVE  a \div P \in Nat /\ a = P * (a \div P)
    <2>1. a \div P \in Nat
      BY Z3
    <2>2. a = P * (a \div P)
      BY <1>2, Z3
    <2> QED
      BY <2>1, <2>2
  <1>3. ASSUME NEW k \in Nat, NEW l \in Nat, P * k < P * l
        PROVE  P * k + P <= P * l
    BY <1>3, Z3
  <1> QED
    BY <1>1, <1>2, <1>3

(* The schedule moves to the first grid point after the step that samples.               *)
LEMMA GridStep ==
    ASSUME NEW time \in Nat, nextSample \in Nat, OnGrid(nextSample), time >= nextSample
    PROVE  /\ NextSample(time) \in Nat /\ OnGrid(NextSample(time)) /\ NextSample(time) > time
           /\ \A k \in Nat : OnGrid(k) /\ k < NextSample(time) => k <= time
  <1> DEFINE P == TrajectoryPeriod
             late == time - nextSample
             q == late \div P
             next == nextSample + P * (q + 1)
  <1>1. P \in Nat \ {0}
    BY ObserversAssumption
  <1>2. late \in Nat
    OBVIOUS
  <1> HIDE DEF P, late
  <1>3. q \in Nat
    BY <1>1, <1>2, Z3
  <1>4. P * q <= late /\ late < P * (q + 1)
    <2>1. P * q <= late
      BY <1>1, <1>2, Z3
    <2>2. late < P * (q + 1)
      BY <1>1, <1>2, Z3
    <2> QED
      BY <2>1, <2>2
  <1> HIDE DEF q
  <1>5. NextSample(time) = next
    BY <1>3 DEF NextSample, q, late, P
  <1>6. next \in Nat /\ next > time /\ next - P <= time
    <2>1. P * (q + 1) = P * q + P /\ P * q \in Nat
      BY <1>1, <1>3, Z3
    <2> QED
      BY <1>1, <1>4, <2>1 DEF late
  <1>7. OnGrid(next)
    <2>1. PICK k \in Nat : nextSample = P * k
      BY <1>1, Multiples DEF OnGrid, P
    <2>2. k + (q + 1) \in Nat /\ next = P * (k + (q + 1))
      BY <1>1, <1>3, <2>1, Z3
    <2> QED
      BY <1>1, <2>2, Multiples DEF OnGrid, P
  <1>8. ASSUME NEW k \in Nat, OnGrid(k), k < next
        PROVE  k <= time
    <2>1. k + P <= next
      BY <1>1, <1>6, <1>7, <1>8, Multiples DEF OnGrid, P
    <2> QED
      BY <1>1, <1>6, <2>1
  <1> QED
    BY <1>5, <1>6, <1>7, <1>8

----------------------------------------------------------------------------
(* The loop. *)

LEMMA LoopStep == LoopInv /\ [Next]_vars => LoopInv'
  <1> SUFFICES ASSUME LoopInv, [Next]_vars PROVE LoopInv'
    OBVIOUS
  <1> USE DEF LoopInv
  <1>1. CASE RecordPoses
    BY <1>1 DEF RecordPoses, loop
  <1>2. CASE RecordSoil
    BY <1>2 DEF RecordSoil, loop
  <1>3. CASE Exchange
    BY <1>3 DEF Exchange, loop
  <1>4. CASE Dynamics
    <2>1. pc' = "record" /\ now' \in Nat
      <3>1. pc' = "record" /\ now' = now + Step
        BY <1>4, Zenon DEF Dynamics
      <3>2. Step \in Nat /\ now \in Nat
        BY ObserversAssumption
      <3> HIDE DEF LoopInv
      <3> QED BY <3>1, <3>2
    <2>2. CASE StartNextHarvestCycle
      BY <2>1, <2>2, HarvestStep
    <2>3. CASE UNCHANGED <<cycle, rocks>>
      <3>1. RocksOf(cycle') = RocksOf(cycle)
        BY <2>3
      <3> QED
        BY <2>1, <2>3
    <2> QED
      BY <1>4, <2>2, <2>3 DEF Dynamics
  <1>5. CASE UNCHANGED vars
    BY <1>5 DEF vars, loop
  <1> QED
    BY <1>1, <1>2, <1>3, <1>4, <1>5 DEF Next

----------------------------------------------------------------------------
(* The pose recorder: the schedule. *)

(* What the sweep walks over.                                                            *)
LEMMA BodiesList ==
    ASSUME LoopInv
    PROVE  Bodies \in Seq(Body)
  <1>1. Machines \in Seq(Body)
    BY BodiesAssumption, SeqMonotonic DEF Body
  <1>2. BuilderRocks \in Seq(Body)
    <2>1. Range(BuilderRocks) \ {Stash} \subseteq Body
      BY DEF Body
    <2> QED
      BY <2>1, BodiesAssumption, SeqMonotonic
  <1>3. rocks \in Seq(Body)
    <2>1. RocksOf(cycle) \subseteq Body
      BY HarvestIsNew DEF LoopInv, Body
    <2> QED
      BY <2>1, SeqMonotonic DEF LoopInv
  <1>4. Machines \o BuilderRocks \in Seq(Body)
    BY <1>1, <1>2, ConcatProperties
  <1> QED
    BY <1>3, <1>4, ConcatProperties DEF Bodies

(* A frame pairs each body with a place where the index has it.                           *)
LEMMA FrameIs ==
    ASSUME LoopInv, ManifestTypes, WriteFrame(Bodies, now)
    PROVE  \E holds \in SUBSET (Nat \X Body) :
              /\ frames' = Append(frames, [at |-> now, holds |-> holds])
              /\ \A entry \in holds : entry[1] \in DOMAIN index /\ index[entry[1]] = entry[2]
  <1> DEFINE holds == {<<Position(Bodies[k]), Bodies[k]>> : k \in DOMAIN Bodies}
  <1>1. frames' = Append(frames, [at |-> now, holds |-> holds])
    BY DEF WriteFrame
  <1>2. ASSUME NEW k \in DOMAIN Bodies
        PROVE  /\ Bodies[k] \in Body
               /\ Position(Bodies[k]) \in DOMAIN index /\ index[Position(Bodies[k])] = Bodies[k]
    <2>1. Bodies[k] \in Body
      BY BodiesList, LenProperties, ElementOfSeq
    <2>2. \E i \in DOMAIN index : index[i] = Bodies[k]
      BY DEF WriteFrame, Indexed
    <2> QED
      BY <2>1, <2>2 DEF Position
  <1>3. DOMAIN index \subseteq Nat
    BY LenProperties DEF ManifestTypes
  <1> HIDE DEF holds
  <1>4. /\ holds \in SUBSET (Nat \X Body)
        /\ \A entry \in holds : entry[1] \in DOMAIN index /\ index[entry[1]] = entry[2]
    BY <1>2, <1>3 DEF holds
  <1> QED
    BY <1>1, <1>4

(* CaptureIfDue: what is behind the schedule and not sampled yet is within this step.     *)
LEMMA CaptureStep ==
    ASSUME now \in Nat, pc = "record", ScheduleTypes, ScheduleInv, CaptureIfDue(now),
           pc' = pc, now' = now
    PROVE  (ScheduleTypes /\ ScheduleInv)'
  <1> USE DEF ScheduleTypes, ScheduleInv
  <1>1. isOpen /\ ~capturing /\ capturing' /\ now >= nextSample /\ nextSample' = NextSample(now)
        /\ isOpen' = isOpen /\ frames' = frames
    BY DEF CaptureIfDue
  <1>2. Step \in Nat \ {0}
    BY ObserversAssumption
  <1>3. /\ nextSample' \in Nat /\ OnGrid(nextSample') /\ nextSample' > now
        /\ \A k \in Nat : OnGrid(k) /\ k < nextSample' => k <= now
    BY <1>1, GridStep
  <1>4. ASSUME NEW instant \in Nat, OnGrid(instant), instant < nextSample'
        PROVE  Sampled(instant)' \/ (capturing' /\ instant <= now' /\ now' < instant + Step)
    <2>1. CASE instant < nextSample
      <3>1. Sampled(instant)
        BY <2>1, <1>1, <1>4
      <3> QED
        BY <3>1, <1>1 DEF Sampled
    <2>2. CASE instant >= nextSample
      <3>1. instant <= now
        BY <1>3, <1>4
      <3>2. now < instant + Step
        BY <1>1, <1>2, <2>2
      <3> QED
        BY <3>1, <3>2, <1>1
    <2> QED
      BY <2>1, <2>2
  <1>5. ScheduleTypes'
    BY <1>1, <1>3
  <1>6. OnGrid(nextSample)'
    BY <1>3 DEF OnGrid
  <1>7. nextSample' + Step > now'
    <2>1. nextSample' > now
      BY <1>3
    <2>2. nextSample' \in Nat /\ now' = now
      BY <1>3
    <2>3. \A a, b \in Nat, c \in Nat \ {0} : a > b => a + c > b
      OBVIOUS
    <2> HIDE DEF ScheduleTypes, ScheduleInv
    <2>4. nextSample' + Step > now
      BY <1>2, <2>1, <2>2, <2>3, Zenon
    <2> QED
      BY <2>2, <2>4, Zenon
  <1>8. \A instant \in Nat : OnGrid(instant)' /\ instant < nextSample' =>
           Sampled(instant)' \/ (capturing' /\ instant <= now' /\ now' < instant + Step)
    BY <1>4 DEF OnGrid
  <1> QED
    BY <1>3, <1>5, <1>6, <1>7, <1>8

(* WriteFrame: the instants of this sweep have their frame.                              *)
LEMMA FrameStep ==
    ASSUME LoopInv, ScheduleTypes, ScheduleInv, ManifestTypes, WriteFrame(Bodies, now),
           pc' = "soil", now' = now
    PROVE  (ScheduleTypes /\ ScheduleInv)'
  <1> USE DEF ScheduleTypes, ScheduleInv
  <1>1. capturing /\ isOpen /\ ~capturing' /\ nextSample' = nextSample /\ isOpen' = isOpen
        /\ capturing' \in BOOLEAN
    BY DEF WriteFrame
  <1>2. PICK holds \in SUBSET (Nat \X Body) : frames' = Append(frames, [at |-> now, holds |-> holds])
    BY FrameIs
  <1> DEFINE frame == [at |-> now, holds |-> holds]
  <1>3. now \in Nat /\ frame \in [at : Nat, holds : SUBSET (Nat \X Body)]
    BY DEF LoopInv
  <1>4. /\ frames' \in Seq([at : Nat, holds : SUBSET (Nat \X Body)])
        /\ frames'[Len(frames')] = frame /\ Len(frames') \in DOMAIN frames'
        /\ \A f \in DOMAIN frames : f \in DOMAIN frames' /\ frames'[f] = frames[f]
    <2>1. frames' = Append(frames, frame)
      BY <1>2
    <2> HIDE DEF frame
    <2> QED
      BY <1>3, <2>1
  <1>5. ASSUME NEW instant \in Nat, OnGrid(instant), instant < nextSample
        PROVE  Sampled(instant)'
    <2>1. CASE Sampled(instant)
      BY <2>1, <1>4 DEF Sampled
    <2>2. CASE instant <= now /\ now < instant + Step
      <3>1. frames'[Len(frames')].at = now
        BY <1>4
      <3> QED
        BY <3>1, <2>2, <1>3, <1>4 DEF Sampled
    <2> QED
      BY <1>5, <2>1, <2>2
  <1>6. ScheduleTypes'
    BY <1>1, <1>4
  <1>7. OnGrid(nextSample)' /\ \A instant \in Nat : OnGrid(instant)' => OnGrid(instant)
    BY <1>1 DEF OnGrid
  <1> QED
    BY <1>1, <1>5, <1>6, <1>7

LEMMA ScheduleStep ==
    ASSUME LoopInv, ScheduleTypes, ScheduleInv, ManifestTypes, [Next]_vars
    PROVE  (ScheduleTypes /\ ScheduleInv)'
  <1>1. now \in Nat /\ Step \in Nat \ {0}
    BY ObserversAssumption DEF LoopInv
  <1>2. ASSUME nextSample' = nextSample, frames' = frames, isOpen' = isOpen,
               capturing' = capturing,
               \/ pc' = pc /\ now' = now
               \/ pc' = "soil" /\ now' = now /\ ~capturing /\ (~isOpen \/ now < nextSample)
               \/ pc # "record" /\ pc' # "record" /\ now' = now
               \/ pc # "record" /\ pc' = "record" /\ now' = now + Step
        PROVE  (ScheduleTypes /\ ScheduleInv)'
    <2>1. ScheduleTypes'
      BY <1>2 DEF ScheduleTypes
    <2>2. OnGrid(nextSample)' /\ \A instant \in Nat : OnGrid(instant)' = OnGrid(instant)
      BY <1>2 DEF ScheduleInv, OnGrid
    <2>3. \A instant \in Nat : Sampled(instant) => Sampled(instant)'
      BY <1>2 DEF Sampled
    <2>4. now' \in Nat /\ nextSample \in Nat
      BY <1>1, <1>2 DEF ScheduleTypes
    <2>5. /\ isOpen' => nextSample' + Step > now'
          /\ isOpen' /\ (capturing' \/ pc' # "record") => nextSample' > now'
      BY <1>1, <1>2, <2>4 DEF ScheduleTypes, ScheduleInv
    <2>6. ASSUME NEW instant \in Nat, OnGrid(instant), instant < nextSample
          PROVE  Sampled(instant)' \/ (capturing' /\ instant <= now' /\ now' < instant + Step)
      <3>1. CASE Sampled(instant)
        BY <2>3, <3>1
      <3>2. CASE capturing /\ instant <= now /\ now < instant + Step
        <4>1. pc = "record" /\ now' = now /\ capturing'
          BY <1>2, <3>2 DEF ScheduleTypes
        <4> QED
          BY <3>2, <4>1
      <3> QED
        BY <2>6, <3>1, <3>2 DEF ScheduleInv
    <2> QED
      BY <1>2, <2>1, <2>2, <2>5, <2>6 DEF ScheduleInv
  <1>3. CASE RecordPoses
    <2>1. now' = now /\ pc = "record"
      BY <1>3 DEF RecordPoses, loop
    <2>2. CASE CaptureIfDue(now) /\ pc' = "record"
      BY <2>1, <2>2, <1>1, CaptureStep
    <2>3. CASE IndexOf(Bodies) /\ pc' = "record"
      BY <2>1, <2>3, <1>2 DEF IndexOf
    <2>4. CASE WriteFrame(Bodies, now) /\ pc' = "soil"
      BY <2>1, <2>4, FrameStep
    <2>5. CASE NotDue(now) /\ pc' = "soil"
      BY <2>1, <2>5, <1>2 DEF NotDue, trajectory
    <2> QED
      BY <1>3, <2>2, <2>3, <2>4, <2>5 DEF RecordPoses
  <1>4. CASE RecordSoil
    BY <1>4, <1>2 DEF RecordSoil, loop, trajectory
  <1>5. CASE Exchange
    BY <1>5, <1>2 DEF Exchange, loop, trajectory
  <1>6. CASE Dynamics
    BY <1>6, <1>2 DEF Dynamics, trajectory
  <1>7. CASE UNCHANGED vars
    BY <1>7, <1>2 DEF vars, loop, trajectory
  <1> QED
    BY <1>3, <1>4, <1>5, <1>6, <1>7 DEF Next

----------------------------------------------------------------------------
(* The pose recorder: the manifest. *)

(* DescribeBody: the use is one that no line of that name has yet.                        *)
LEMMA FreshUse ==
    ASSUME NEW body \in Body, nameUses \in [DOMAIN nameUses -> Nat],
           nameUses' = Use(nameUses, body)
    PROVE  /\ nameUses' \in [DOMAIN nameUses' -> Nat]
           /\ DOMAIN nameUses' = DOMAIN nameUses \cup {PartOf(body)}
           /\ \A n \in DOMAIN nameUses : nameUses[n] <= nameUses'[n]
           /\ PartOf(body) \in DOMAIN nameUses =>
                 nameUses[PartOf(body)] < nameUses'[PartOf(body)]
  <1> DEFINE name == PartOf(body)
  <1> HIDE DEF name
  <1> DEFINE Fresh == /\ nameUses' \in [DOMAIN nameUses' -> Nat]
                      /\ DOMAIN nameUses' = DOMAIN nameUses \cup {name}
                      /\ \A n \in DOMAIN nameUses : nameUses[n] <= nameUses'[n]
                      /\ name \in DOMAIN nameUses => nameUses[name] < nameUses'[name]
  <1>1. ASSUME name \in DOMAIN nameUses PROVE Fresh
    <2>1. nameUses' = [nameUses EXCEPT ![name] = @ + 1]
      BY <1>1 DEF Use, name
    <2>2. DOMAIN nameUses' = DOMAIN nameUses /\ \A n \in DOMAIN nameUses :
             nameUses[n] \in Nat /\ nameUses'[n] = nameUses[n] + (IF n = name THEN 1 ELSE 0)
      BY <2>1
    <2>3. nameUses' \in [DOMAIN nameUses -> Nat]
      BY <1>1, <2>1
    <2>4. nameUses' \in [DOMAIN nameUses' -> Nat] /\ DOMAIN nameUses' = DOMAIN nameUses \cup {name}
      <3>1. DOMAIN nameUses \cup {name} = DOMAIN nameUses
        BY <1>1
      <3> QED
        BY <2>2, <2>3, <3>1, Zenon
    <2>5. /\ \A n \in DOMAIN nameUses : nameUses[n] <= nameUses'[n]
          /\ nameUses[name] < nameUses'[name]
      BY <1>1, <2>2
    <2> QED
      BY <2>4, <2>5
  <1>2. ASSUME name \notin DOMAIN nameUses PROVE Fresh
    <2>1. nameUses' = [n \in DOMAIN nameUses \cup {name} |-> IF n = name THEN 1 ELSE nameUses[n]]
      BY <1>2 DEF Use, name
    <2> QED
      BY <1>2, <2>1
  <1> QED
    <2>1. Fresh
      BY <1>1, <1>2
    <2> QED
      BY <2>1 DEF name

(* IndexOf: a body gets the next index and a line of its own, on disk before the frame is. *)
LEMMA IndexStep ==
    ASSUME LoopInv, ManifestTypes, ManifestInv, IndexOf(Bodies)
    PROVE  (ManifestTypes /\ ManifestInv)'
  <1>1. PICK k \in DOMAIN Bodies :
           /\ index' = Append(index, Bodies[k])
           /\ nameUses' = Use(nameUses, Bodies[k])
           /\ manifest' = Append(manifest, <<PartOf(Bodies[k]), nameUses'[PartOf(Bodies[k])]>>)
    BY DEF IndexOf
  <1> DEFINE body == Bodies[k]
             name == PartOf(body)
             line == <<name, nameUses'[name]>>
  <1>2. body \in Body
    BY BodiesList, LenProperties, ElementOfSeq
  <1>3. /\ linesOut' = Len(manifest') /\ frames' = frames /\ framesOut' = framesOut
        /\ index' = Append(index, body) /\ manifest' = Append(manifest, line)
    BY <1>1 DEF IndexOf, Flushed
  <1>4. /\ nameUses' \in [DOMAIN nameUses' -> Nat]
        /\ DOMAIN nameUses' = DOMAIN nameUses \cup {name}
        /\ \A n \in DOMAIN nameUses : nameUses[n] <= nameUses'[n]
        /\ name \in DOMAIN nameUses => nameUses[name] < nameUses'[name]
    BY <1>1, <1>2, FreshUse DEF ManifestTypes
  <1>5. name \in Part /\ nameUses'[name] \in Nat /\ line \in Part \X Nat
    BY <1>2, <1>4 DEF Part
  <1> HIDE DEF body, name, line
  <1>6. /\ index' \in Seq(Body) /\ Len(index') = Len(index) + 1 /\ index'[Len(index) + 1] = body
        /\ \A i \in 1..Len(index) : index'[i] = index[i]
        /\ DOMAIN index = 1..Len(index) /\ DOMAIN index' = 1..(Len(index) + 1)
        /\ Len(index) \in Nat
    BY <1>2, <1>3 DEF ManifestTypes
  <1>7. /\ manifest' \in Seq(Part \X Nat) /\ Len(manifest') = Len(manifest) + 1
        /\ manifest'[Len(manifest) + 1] = line
        /\ \A i \in 1..Len(manifest) : manifest'[i] = manifest[i]
        /\ DOMAIN manifest = 1..Len(manifest) /\ DOMAIN manifest' = 1..(Len(manifest) + 1)
        /\ Len(manifest) \in Nat
    BY <1>3, <1>5 DEF ManifestTypes
  <1>8. Len(manifest) = Len(index)
    BY DEF ManifestInv
  <1>9. line[1] = name /\ line[2] = nameUses'[name]
    BY DEF line
  <1>10. ASSUME NEW i \in 1..Len(manifest)
         PROVE  /\ manifest[i][1] = PartOf(index[i]) /\ manifest[i][1] \in DOMAIN nameUses
                /\ manifest[i][2] <= nameUses[manifest[i][1]] /\ manifest[i][2] \in Nat
                /\ nameUses[manifest[i][1]] \in Nat
    <2>1. manifest[i] \in Part \X Nat
      BY ElementOfSeq DEF ManifestTypes
    <2> QED
      BY <1>7, <2>1 DEF ManifestInv, ManifestTypes
  <1>11. ASSUME NEW i \in 1..(Len(manifest) + 1)
         PROVE  /\ manifest'[i][1] = PartOf(index'[i])
                /\ manifest'[i][1] \in DOMAIN nameUses'
                /\ manifest'[i][2] <= nameUses'[manifest'[i][1]]
    <2>1. CASE i \in 1..Len(manifest)
      <3>1. manifest'[i] = manifest[i] /\ index'[i] = index[i]
        BY <2>1, <1>6, <1>7, <1>8
      <3>2. nameUses'[manifest[i][1]] \in Nat
            /\ nameUses[manifest[i][1]] <= nameUses'[manifest[i][1]]
        BY <2>1, <1>4, <1>10
      <3>3. manifest[i][2] <= nameUses'[manifest[i][1]]
        BY <2>1, <1>10, <3>2
      <3> QED
        BY <2>1, <1>4, <1>10, <3>1, <3>3
    <2>2. CASE i = Len(manifest) + 1
      <3>1. manifest'[i] = line /\ index'[i] = body
        BY <2>2, <1>6, <1>7, <1>8
      <3> QED
        BY <3>1, <1>4, <1>5, <1>9 DEF name
    <2> QED
      BY <1>7, <2>1, <2>2
  <1>12. ASSUME NEW i \in 1..Len(manifest)
         PROVE  manifest[i] # line
    <2> SUFFICES ASSUME manifest[i] = line PROVE FALSE
      OBVIOUS
    <2>1. name \in DOMAIN nameUses /\ nameUses'[name] <= nameUses[name] /\ nameUses[name] \in Nat
      BY <1>9, <1>10
    <2> QED
      BY <1>4, <1>5, <2>1
  <1>13. IsInjective(manifest')
    <2> SUFFICES ASSUME NEW i \in 1..(Len(manifest) + 1), NEW j \in 1..(Len(manifest) + 1),
                        manifest'[i] = manifest'[j]
                 PROVE  i = j
      BY <1>7 DEF IsInjective
    <2>1. CASE i \in 1..Len(manifest) /\ j \in 1..Len(manifest)
      BY <2>1, <1>7 DEF ManifestInv, IsInjective
    <2>2. CASE i \in 1..Len(manifest) /\ j = Len(manifest) + 1
      BY <2>2, <1>7, <1>12
    <2>3. CASE i = Len(manifest) + 1 /\ j \in 1..Len(manifest)
      BY <2>3, <1>7, <1>12
    <2> QED
      BY <1>7, <2>1, <2>2, <2>3
  <1>14. \A f \in DOMAIN frames' : \A entry \in frames'[f].holds :
            entry[1] \in DOMAIN index' /\ index'[entry[1]] = entry[2]
    BY <1>3, <1>6 DEF ManifestInv
  <1>15. ManifestTypes'
    BY <1>3, <1>4, <1>6, <1>7 DEF ManifestTypes
  <1>16. Len(manifest') = Len(index') /\ linesOut' = Len(manifest')
    BY <1>3, <1>6, <1>7, <1>8
  <1>17. ManifestInv'
    BY <1>7, <1>11, <1>13, <1>14, <1>16 DEF ManifestInv
  <1> QED
    BY <1>15, <1>17

LEMMA ManifestStep ==
    ASSUME LoopInv, ScheduleTypes, ManifestTypes, ManifestInv, [Next]_vars
    PROVE  (ManifestTypes /\ ManifestInv)'
  <1>1. ASSUME UNCHANGED <<index, manifest, linesOut, nameUses, frames, framesOut>>
        PROVE  (ManifestTypes /\ ManifestInv)'
    BY <1>1 DEF ManifestTypes, ManifestInv
  <1>2. ASSUME WriteFrame(Bodies, now)
        PROVE  (ManifestTypes /\ ManifestInv)'
    <2>1. UNCHANGED <<index, manifest, linesOut, nameUses>>
      BY <1>2 DEF WriteFrame
    <2>2. PICK holds \in SUBSET (Nat \X Body) :
             /\ frames' = Append(frames, [at |-> now, holds |-> holds])
             /\ \A entry \in holds : entry[1] \in DOMAIN index /\ index[entry[1]] = entry[2]
      BY <1>2, FrameIs
    <2> DEFINE frame == [at |-> now, holds |-> holds]
    <2>3. frame \in [at : Nat, holds : SUBSET (Nat \X Body)] /\ frame.holds = holds
      BY DEF LoopInv
    <2>4. frames' = Append(frames, frame)
      BY <2>2
    <2> HIDE DEF frame
    <2>5. /\ frames' \in Seq([at : Nat, holds : SUBSET (Nat \X Body)])
          /\ Len(frames') = Len(frames) + 1 /\ Len(frames) \in Nat
          /\ frames'[Len(frames')] = frame
          /\ \A f \in DOMAIN frames : frames'[f] = frames[f]
          /\ DOMAIN frames' = DOMAIN frames \cup {Len(frames')}
      BY <2>3, <2>4 DEF ScheduleTypes
    <2>6. framesOut' \in 0..Len(frames')
      <3>1. framesOut \in 0..Len(frames)
        BY DEF ManifestTypes
      <3>2. framesOut' \in {Len(frames')} \cup framesOut..Len(frames')
        BY <1>2 DEF WriteFrame
      <3> QED
        BY <2>5, <3>1, <3>2
    <2>7. \A f \in DOMAIN frames' : \A entry \in frames'[f].holds :
             entry[1] \in DOMAIN index' /\ index'[entry[1]] = entry[2]
      BY <2>1, <2>2, <2>3, <2>5 DEF ManifestInv
    <2> QED
      BY <2>1, <2>6, <2>7 DEF ManifestTypes, ManifestInv
  <1>3. CASE RecordPoses
    <2>1. CASE CaptureIfDue(now) \/ NotDue(now)
      BY <2>1, <1>1 DEF CaptureIfDue, NotDue, trajectory
    <2>2. CASE IndexOf(Bodies)
      BY <2>2, IndexStep
    <2>3. CASE WriteFrame(Bodies, now)
      BY <2>3, <1>2
    <2> QED
      BY <1>3, <2>1, <2>2, <2>3 DEF RecordPoses
  <1>4. CASE RecordSoil \/ Exchange \/ Dynamics \/ UNCHANGED vars
    BY <1>4, <1>1 DEF RecordSoil, Exchange, Dynamics, vars, trajectory
  <1> QED
    BY <1>3, <1>4 DEF Next

----------------------------------------------------------------------------
(* The soil recorder. *)

(* CaptureSoil: the levels written are those remembered, and the rest is near enough.     *)
LEMMA CaptureSoilStep ==
    ASSUME now \in Nat, pc = "soil", SoilInv, CaptureSoil(now), pc' = "sync", now' = now
    PROVE  SoilInv' /\ SoilReadable'
  <1> DEFINE keyframe == Keyframe(now)
             emitted == Emitted(keyframe)
  <1>1. /\ lastLevel' = [n \in DOMAIN lastLevel \cup emitted |->
                            IF n \in emitted THEN level[n] ELSE lastLevel[n]]
        /\ reader' = Overlay(IF keyframe THEN <<>> ELSE reader, emitted)
        /\ level' = level /\ isSaved' = isSaved /\ frameAt' = now
    BY DEF CaptureSoil, Remembered, Overlay
  <1>2. /\ emitted \subseteq DOMAIN level
        /\ \A n \in DOMAIN level \ emitted :
              n \in DOMAIN lastLevel /\ ~keyframe /\ ~(Distance(lastLevel[n], level[n]) >= Epsilon)
    BY DEF Emitted, Touched
  <1>3. /\ Epsilon \in Nat \ {0} /\ SoilPeriod \in Nat \ {0} /\ KeyframePeriod \in Nat
    BY ObserversAssumption
  <1>4. level \in [DOMAIN level -> Int] /\ DOMAIN lastLevel \subseteq DOMAIN level
        /\ lastLevel \in [DOMAIN lastLevel -> Int] /\ reader = lastLevel
    BY DEF SoilInv, Touched
  <1> HIDE DEF emitted, keyframe
  <1>5. /\ DOMAIN lastLevel' = DOMAIN level
        /\ \A n \in DOMAIN level : lastLevel'[n] = IF n \in emitted THEN level[n] ELSE lastLevel[n]
    BY <1>1, <1>2, <1>4
  <1>6. lastLevel' \in [DOMAIN level -> Int]
    BY <1>1, <1>2, <1>4, <1>5
  <1>7. reader' = lastLevel'
    <2>1. CASE keyframe
      <3>1. emitted = DOMAIN level
        BY <1>2, <2>1
      <3>2. reader' = [n \in DOMAIN level |-> level[n]]
        <4>1. DOMAIN <<>> \cup emitted = DOMAIN level
          BY <3>1
        <4>2. reader' = [n \in DOMAIN <<>> \cup emitted |->
                            IF n \in emitted THEN level[n] ELSE <<>>[n]]
          BY <1>1, <2>1 DEF Overlay
        <4> QED
          BY <3>1, <4>1, <4>2
      <3>3. lastLevel' = [n \in DOMAIN level |-> level[n]]
        <4>1. DOMAIN lastLevel \cup emitted = DOMAIN level
          BY <1>4, <3>1
        <4> QED
          BY <1>1, <3>1, <4>1
      <3> QED
        BY <3>2, <3>3
    <2>2. CASE ~keyframe
      BY <1>1, <1>4, <2>2 DEF Overlay
    <2> QED
      BY <2>1, <2>2
  <1>8. nextFrame' \in Int /\ nextKeyframe' \in Int
    <2>1. ASSUME NEW next \in Int, NEW period \in Nat \ {0}
          PROVE  PastTime(next, period, now) \in Int
      BY <2>1 DEF PastTime
    <2>2. nextFrame' = PastTime(nextFrame, SoilPeriod, now)
      BY DEF CaptureSoil
    <2>3. \/ nextKeyframe' = nextKeyframe
          \/ KeyframePeriod > 0 /\ nextKeyframe' = PastTime(nextKeyframe, KeyframePeriod, now)
      BY DEF CaptureSoil
    <2> QED
      BY <1>3, <2>1, <2>2, <2>3 DEF SoilInv
  <1>9. SoilInv'
    BY <1>1, <1>5, <1>6, <1>7, <1>8 DEF SoilInv, Touched
  <1>10. ASSUME NEW n \in DOMAIN level
         PROVE  Distance(lastLevel'[n], level[n]) < Epsilon
    <2>1. level[n] \in Int /\ (n \in DOMAIN lastLevel => lastLevel[n] \in Int)
      BY <1>4
    <2>2. CASE n \in emitted
      BY <1>3, <1>5, <2>1, <2>2 DEF Distance
    <2>3. CASE n \notin emitted
      <3>1. n \in DOMAIN lastLevel /\ ~(Distance(lastLevel[n], level[n]) >= Epsilon)
        BY <1>2, <2>3
      <3>2. lastLevel'[n] = lastLevel[n]
        BY <1>5, <2>3
      <3>3. Distance(lastLevel[n], level[n]) \in Int
        BY <2>1, <3>1 DEF Distance
      <3>4. Distance(lastLevel[n], level[n]) < Epsilon
        BY <1>3, <3>1, <3>3
      <3> QED
        BY <3>2, <3>4
    <2> QED
      BY <2>2, <2>3
  <1>11. SoilReadable'
    BY <1>1, <1>5, <1>7, <1>10 DEF SoilReadable, ReaderKnowsSoil, Touched
  <1> QED
    BY <1>9, <1>11

LEMMA SoilStep ==
    ASSUME LoopInv, SoilInv, SoilReadable, [Next]_vars
    PROVE  SoilInv' /\ SoilReadable'
  <1>1. now \in Nat /\ Step \in Nat \ {0}
    BY ObserversAssumption DEF LoopInv
  <1>2. ASSUME UNCHANGED <<soilLog, now>>, pc' = pc \/ pc' = "dynamics" \/ (pc = "record" /\ pc' = "soil")
        PROVE  SoilInv' /\ SoilReadable'
    <2>1. UNCHANGED <<level, isSaved, nextFrame, nextKeyframe, lastLevel, frameAt, reader, now>>
      BY <1>2 DEF soilLog, recorder
    <2>2. SoilInv'
      BY <1>2, <2>1 DEF SoilInv, Touched
    <2>3. ReaderKnowsSoil(now)' = ReaderKnowsSoil(now) /\ (pc' = "sync" => pc = "sync")
      BY <1>2, <2>1 DEF ReaderKnowsSoil, Touched
    <2> QED
      BY <2>2, <2>3 DEF SoilReadable
  <1>3. CASE RecordPoses \/ Exchange \/ UNCHANGED vars
    <2>1. UNCHANGED <<soilLog, now>>
      BY <1>3 DEF RecordPoses, Exchange, vars, loop
    <2>2. pc' = pc \/ pc' = "dynamics" \/ (pc = "record" /\ pc' = "soil")
      BY <1>3 DEF RecordPoses, Exchange, vars
    <2> QED
      BY <1>2, <2>1, <2>2
  <1>4. CASE RecordSoil
    <2>1. pc = "soil" /\ pc' = "sync" /\ now' = now
      BY <1>4 DEF RecordSoil, loop
    <2>2. CASE CaptureSoil(now)
      BY <1>1, <2>1, <2>2, CaptureSoilStep
    <2>3. CASE SoilNotDue(now)
      <3>1. UNCHANGED <<level, isSaved, nextFrame, nextKeyframe, lastLevel, frameAt, reader, now>>
        BY <2>1, <2>3 DEF SoilNotDue, soilLog, recorder
      <3>2. SoilInv'
        BY <2>1, <3>1 DEF SoilInv, Touched
      <3>3. frameAt \in Int /\ frameAt < now
        BY <2>1 DEF SoilInv
      <3>4. SoilReadable'
        BY <1>1, <3>1, <3>3 DEF SoilReadable, ReaderKnowsSoil
      <3> QED
        BY <3>2, <3>4
    <2> QED
      BY <1>4, <2>2, <2>3 DEF RecordSoil
  <1>5. CASE Dynamics
    <2>1. pc' = "record" /\ now' = now + Step
      BY <1>5 DEF Dynamics
    <2>2. SoilReadable'
      BY <2>1 DEF SoilReadable
    <2>3. frameAt \in Int /\ frameAt <= now' /\ frameAt < now'
      BY <1>1, <2>1 DEF SoilInv
    <2>4. ASSUME UNCHANGED recorder, DOMAIN level \subseteq DOMAIN level',
                 DOMAIN level' \subseteq Nodes, level' \in [DOMAIN level' -> Int]
          PROVE  SoilInv'
      BY <2>1, <2>3, <2>4 DEF recorder, SoilInv, Touched
    <2>5. CASE UNCHANGED soilLog
      BY <2>2, <2>4, <2>5 DEF soilLog, SoilInv, Touched
    <2>6. ASSUME NEW n \in Nodes, NEW by \in {-1, 1}, Deform(n, by), UNCHANGED recorder
          PROVE  SoilInv'
      <3>1. level' = [m \in DOMAIN level \cup {n} |->
                         IF m # n THEN level[m]
                         ELSE by + (IF n \in DOMAIN level THEN level[n] ELSE 0)]
        BY <2>6 DEF Deform, Touched
      <3>2. DOMAIN level \subseteq Nodes /\ level \in [DOMAIN level -> Int] /\ by \in Int
        BY DEF SoilInv, Touched
      <3>3. DOMAIN level' = DOMAIN level \cup {n}
        BY <3>1
      <3>4. level' \in [DOMAIN level \cup {n} -> Int]
        BY <3>1, <3>2
      <3>5. level' \in [DOMAIN level' -> Int]
        BY <3>3, <3>4, Zenon
      <3> QED
        BY <2>4, <2>6, <3>2, <3>3, <3>5
    <2> QED
      BY <1>5, <2>2, <2>5, <2>6 DEF Dynamics
  <1> QED
    BY <1>3, <1>4, <1>5 DEF Next

----------------------------------------------------------------------------
(* The sensor rank. *)

\* What the drawn bodies show once "shown" has been sent.
Drawn(shown) ==
    [i \in 1..Capacity(0) |->
        IF shown # <<>> /\ i <= Len(Lanes(shown)) THEN Lanes(shown)[i] ELSE Stash]

(* The heap leads and its length is fixed: a list that grows keeps its lanes.             *)
LEMMA LanesKept ==
    ASSUME NEW S, NEW shown \in Seq(S), NEW more \in Seq(S), Len(shown) <= Len(more),
           \A k \in DOMAIN shown : shown[k] = more[k]
    PROVE  /\ Len(Lanes(shown)) \in Nat /\ Len(Lanes(shown)) <= Len(Lanes(more))
           /\ \A i \in 1..Len(Lanes(shown)) : Lanes(more)[i] = Lanes(shown)[i]
  <1> DEFINE B == Range(BuilderRocks) \cup S
             heap == Len(BuilderRocks)
  <1>1. BuilderRocks \in Seq(B)
    <2>1. Range(BuilderRocks) \ {Stash} \subseteq B
      OBVIOUS
    <2> QED
      BY <2>1, BodiesAssumption, SeqMonotonic
  <1>2. shown \in Seq(B) /\ more \in Seq(B)
    BY SeqMonotonic
  <1> HIDE DEF B
  <1>3. /\ heap \in Nat /\ Len(shown) \in Nat /\ Len(more) \in Nat
        /\ Len(Lanes(shown)) = heap + Len(shown) /\ Len(Lanes(more)) = heap + Len(more)
    BY <1>1, <1>2, ConcatProperties, LenProperties DEF Lanes
  <1>4. /\ \A i \in 1..(heap + Len(shown)) :
              Lanes(shown)[i] = IF i <= heap THEN BuilderRocks[i] ELSE shown[i - heap]
        /\ \A i \in 1..(heap + Len(more)) :
              Lanes(more)[i] = IF i <= heap THEN BuilderRocks[i] ELSE more[i - heap]
    BY <1>1, <1>2, ConcatProperties DEF Lanes
  <1>5. DOMAIN shown = 1..Len(shown)
    BY LenProperties
  <1> HIDE DEF heap
  <1>6. ASSUME NEW i \in 1..(heap + Len(shown))
        PROVE  Lanes(more)[i] = Lanes(shown)[i]
    <2>1. i \in 1..(heap + Len(more))
      BY <1>3
    <2>2. CASE i <= heap
      BY <1>4, <2>1, <2>2
    <2>3. CASE ~(i <= heap)
      <3>1. i - heap \in DOMAIN shown
        BY <1>3, <1>5, <2>3
      <3> QED
        BY <1>4, <2>1, <2>3, <3>1
    <2> QED
      BY <2>2, <2>3
  <1> QED
    BY <1>3, <1>6

(* The pool does not depend on the first draw.                                           *)
LEMMA PoolSize ==
    /\ \A draw : Capacity(draw) = Capacity(0)
    /\ Capacity(0) \in Nat
  <1>1. MaxRocksPerCycle \in Nat /\ CycleCapacity \in Nat /\ BuilderCapacity \in Nat
    BY ObserversAssumption
  <1>2. AtLeast(1, MaxRocksPerCycle) \in Nat /\ AtLeast(0, BuilderCapacity) \in Nat
    BY <1>1 DEF AtLeast
  <1>3. AtLeast(1, MaxRocksPerCycle) * CycleCapacity \in Nat
    BY <1>1, <1>2, Z3
  <1> QED
    BY <1>2, <1>3 DEF Capacity

(* An exchange draws what is there now; what was drawn before stays.                      *)
LEMMA ExchangeStep ==
    ASSUME LoopInv, PoolInv, Synchronize(rocks), sent' = rocks
    PROVE  /\ zombies' = Drawn(rocks)
           /\ \A i \in DOMAIN zombies : zombies[i] # Stash => zombies'[i] = zombies[i]
  <1>1. /\ zombies = Drawn(sent) /\ DOMAIN zombies = 1..Capacity(0)
        /\ sent \in Seq(RocksOf(cycle)) /\ rocks \in Seq(RocksOf(cycle))
        /\ Len(sent) <= Len(rocks) /\ \A k \in DOMAIN sent : sent[k] = rocks[k]
    BY DEF PoolInv, Drawn, LoopInv
  <1>2. /\ Len(Lanes(sent)) \in Nat /\ Len(Lanes(sent)) <= Len(Lanes(rocks))
        /\ Len(Lanes(rocks)) \in Nat
        /\ \A i \in 1..Len(Lanes(sent)) : Lanes(rocks)[i] = Lanes(sent)[i]
    <2>1. /\ Len(Lanes(sent)) \in Nat /\ Len(Lanes(sent)) <= Len(Lanes(rocks))
          /\ \A i \in 1..Len(Lanes(sent)) : Lanes(rocks)[i] = Lanes(sent)[i]
      BY <1>1, LanesKept
    <2>2. \A k \in DOMAIN rocks : rocks[k] = rocks[k]
      OBVIOUS
    <2>3. Len(rocks) \in Nat /\ Len(rocks) <= Len(rocks)
      BY <1>1, LenProperties
    <2>4. Len(Lanes(rocks)) \in Nat
      BY <1>1, <2>2, <2>3, LanesKept
    <2> QED
      BY <2>1, <2>4
  <1>3. Capacity(0) \in Nat
    BY PoolSize
  <1>4. CASE rocks = <<>>
    <2>1. sent = <<>>
      BY <1>1, <1>4
    <2> QED
      BY <1>1, <1>4, <2>1 DEF Synchronize
  <1>5. CASE rocks # <<>>
    <2>1. zombies' = [i \in 1..Capacity(0) |->
                         IF i <= Len(Lanes(rocks)) THEN Lanes(rocks)[i] ELSE zombies[i]]
      BY <1>1, <1>5 DEF Synchronize
    <2>2. ASSUME NEW i \in 1..Capacity(0)
          PROVE  /\ i > Len(Lanes(rocks)) => zombies[i] = Stash
                 /\ zombies[i] # Stash => /\ i \in 1..Len(Lanes(sent))
                                          /\ zombies[i] = Lanes(sent)[i]
      BY <1>1, <1>2, <1>3 DEF Drawn
    <2>3. zombies' = Drawn(rocks)
      <3>1. \A i \in 1..Capacity(0) : ~(i <= Len(Lanes(rocks))) => zombies[i] = Stash
        BY <1>2, <1>3, <2>2
      <3> QED
        BY <1>5, <2>1, <3>1 DEF Drawn
    <2>4. ASSUME NEW i \in 1..Capacity(0), zombies[i] # Stash
          PROVE  zombies'[i] = zombies[i]
      <3>1. i \in 1..Len(Lanes(sent)) /\ zombies[i] = Lanes(sent)[i]
        BY <2>2, <2>4
      <3>2. i <= Len(Lanes(rocks)) /\ Lanes(rocks)[i] = Lanes(sent)[i]
        BY <1>2, <3>1
      <3> QED
        BY <2>1, <3>1, <3>2
    <2> QED
      BY <1>1, <2>3, <2>4
  <1> QED
    BY <1>4, <1>5

LEMMA PoolStep ==
    ASSUME LoopInv, PoolInv, [Next]_vars
    PROVE  /\ PoolInv'
           /\ \A i \in DOMAIN zombies : zombies[i] # Stash => zombies'[i] = zombies[i]
  <1>1. ASSUME UNCHANGED <<sent, zombies, cycle, rocks>>
        PROVE  PoolInv'
    BY <1>1 DEF PoolInv
  <1>2. CASE RecordPoses \/ RecordSoil \/ UNCHANGED vars
    BY <1>1, <1>2 DEF RecordPoses, RecordSoil, vars, loop
  <1>3. CASE Exchange
    <2>1. rocks' = rocks /\ cycle' = cycle
      BY <1>3 DEF Exchange, loop
    <2>2. CASE UNCHANGED <<zombies, sent>>
      BY <1>1, <2>1, <2>2
    <2>3. CASE Synchronize(rocks) /\ sent' = rocks
      <3>1. /\ zombies' = Drawn(rocks)
            /\ \A i \in DOMAIN zombies : zombies[i] # Stash => zombies'[i] = zombies[i]
        BY <2>3, ExchangeStep
      <3>2. /\ sent' \in Seq(RocksOf(cycle')) /\ Len(sent') <= Len(rocks')
            /\ \A k \in DOMAIN sent' : sent'[k] = rocks'[k]
        BY <2>1, <2>3, LenProperties DEF LoopInv
      <3>3. zombies' = Drawn(sent)'
        BY <2>3, <3>1 DEF Drawn
      <3> QED
        BY <3>1, <3>2, <3>3 DEF PoolInv, Drawn
    <2> QED
      BY <1>3, <2>2, <2>3 DEF Exchange
  <1>4. CASE Dynamics
    <2>1. sent' = sent /\ zombies' = zombies
      BY <1>4 DEF Dynamics
    <2>2. CASE UNCHANGED <<cycle, rocks>>
      BY <1>1, <2>1, <2>2
    <2>3. CASE StartNextHarvestCycle
      <3>1. /\ Len(rocks) <= Len(rocks') /\ RocksOf(cycle) \subseteq RocksOf(cycle')
            /\ \A k \in 1..Len(rocks) : rocks'[k] = rocks[k]
            /\ rocks' \in Seq(RocksOf(cycle'))
        BY <2>3, HarvestStep
      <3>2. /\ sent \in Seq(RocksOf(cycle)) /\ Len(sent) <= Len(rocks)
            /\ \A k \in DOMAIN sent : sent[k] = rocks[k]
        BY DEF PoolInv
      <3>3. Len(sent) \in Nat /\ Len(rocks) \in Nat /\ Len(rocks') \in Nat
            /\ DOMAIN sent = 1..Len(sent)
        BY <3>1, <3>2, LenProperties DEF LoopInv
      <3>4. sent \in Seq(RocksOf(cycle'))
        BY <3>1, <3>2, SeqMonotonic
      <3>5. \A k \in DOMAIN sent : sent[k] = rocks'[k]
        BY <3>1, <3>2, <3>3
      <3>6. Len(sent) <= Len(rocks')
        BY <3>1, <3>2, <3>3
      <3> QED
        BY <2>1, <3>4, <3>5, <3>6 DEF PoolInv
    <2> QED
      BY <1>4, <2>1, <2>2, <2>3 DEF Dynamics
  <1> QED
    BY <1>2, <1>3, <1>4 DEF Next, vars, RecordPoses, RecordSoil

----------------------------------------------------------------------------
(* The invariant, and what it says. *)

LEMMA ObserversInit == Init => ObserversInv
  <1> SUFFICES ASSUME Init PROVE ObserversInv
    OBVIOUS
  <1>1. /\ pc = "record" /\ now = 0 /\ cycle = 0 /\ rocks = Harvest(0) /\ sent = <<>>
        /\ LastCycle \in Nat /\ MaxRocksPerCycle \in Nat /\ Step \in Nat \ {0}
        /\ TrajectoryPeriod \in Nat \ {0}
    BY ObserversAssumption DEF Init
  <1>2. LoopInv
    <2>1. 0 \in 0..LastCycle
      BY <1>1
    <2>2. /\ Harvest(0) \in Seq(Range(Harvest(0))) /\ IsInjective(Harvest(0))
          /\ Len(Harvest(0)) <= MaxRocksPerCycle
      BY <1>1, <2>1, HarvestIsNew
    <2>3. RocksOf(0) = Range(Harvest(0))
      <3>1. 0..0 = {0}
        OBVIOUS
      <3> QED
        BY <3>1 DEF RocksOf
    <2>4. MaxRocksPerCycle * (0 + 1) = MaxRocksPerCycle
      BY <1>1, Z3
    <2> QED
      BY <1>1, <2>1, <2>2, <2>3, <2>4 DEF LoopInv
  <1>3. ScheduleTypes /\ ScheduleInv
    <2>1. 0 % TrajectoryPeriod = 0
      BY <1>1, Z3
    <2>2. /\ isOpen \in BOOLEAN /\ capturing = FALSE /\ nextSample = 0 /\ frames = <<>>
      BY DEF Init, TrajectoryInit
    <2>3. ScheduleTypes
      <3>1. frames \in Seq([at : Nat, holds : SUBSET (Nat \X Body)])
        BY <2>2, EmptySeq
      <3>2. nextSample \in Nat /\ capturing \in BOOLEAN /\ ~capturing
        BY <2>2
      <3> QED
        BY <2>2, <3>1, <3>2 DEF ScheduleTypes
    <2>4. \A instant \in Nat : ~(instant < nextSample)
      BY <2>2
    <2>5. nextSample + Step > now /\ pc = "record"
      BY <1>1, <2>2
    <2> QED
      BY <2>1, <2>2, <2>3, <2>4, <2>5 DEF ScheduleInv, OnGrid
  <1>4. ManifestTypes /\ ManifestInv
    <2>1. /\ index = <<>> /\ manifest = <<>> /\ linesOut = 0 /\ nameUses = StaticUses
          /\ frames = <<>> /\ framesOut = 0
      BY DEF Init, TrajectoryInit
    <2>2. StaticUses \in [DOMAIN StaticUses -> Nat]
      BY ObserversAssumption
    <2> QED
      BY <2>1, <2>2 DEF ManifestTypes, ManifestInv, IsInjective
  <1>5. SoilInv /\ SoilReadable
    <2>1. PICK pressed \in SUBSET Nodes : level = [n \in pressed |-> -1]
      BY DEF Init, SoilInit
    <2>2. /\ isSaved \in BOOLEAN /\ lastLevel = <<>> /\ reader = <<>>
          /\ nextFrame = 0 /\ nextKeyframe = 0 /\ frameAt = -1
      BY DEF Init, SoilInit
    <2>3. DOMAIN level = pressed /\ level \in [pressed -> Int]
      BY <2>1
    <2>4. DOMAIN lastLevel = {} /\ lastLevel \in [DOMAIN lastLevel -> Int]
      BY <2>2
    <2> QED
      BY <1>1, <2>2, <2>3, <2>4 DEF SoilInv, SoilReadable, Touched
  <1>6. PoolInv
    <2>1. zombies = [i \in 1..Capacity(0) |-> Stash]
      BY PoolSize DEF Init, PoolInit
    <2>2. <<>> \in Seq(RocksOf(cycle)) /\ Len(<<>>) = 0 /\ Len(rocks) \in Nat
      BY <1>2, LenProperties DEF LoopInv
    <2> QED
      BY <1>1, <2>1, <2>2 DEF PoolInv
  <1> QED
    BY <1>2, <1>3, <1>4, <1>5, <1>6 DEF ObserversInv

LEMMA ObserversStep ==
    ObserversInv /\ [Next]_vars =>
        /\ ObserversInv'
        /\ \A i \in DOMAIN zombies : zombies[i] # Stash => zombies'[i] = zombies[i]
  BY LoopStep, ScheduleStep, ManifestStep, SoilStep, PoolStep DEF ObserversInv

LEMMA ObserversInvariance == Spec => []ObserversInv
  BY ObserversInit, ObserversStep, PTL DEF Spec

(* Whatever the process is killed at, every frame on disk has the lines it needs, and no   *)
(* two lines share a name (TrajectoryRecorder::IndexOf flushes the manifest, the frames    *)
(* wait for the sim second).                                                              *)
THEOREM FramesOnDiskDecode == Spec => []FramesDecode
  <1>1. ObserversInv => FramesDecode
    <2> SUFFICES ASSUME ObserversInv PROVE FramesDecode
      OBVIOUS
    <2>1. /\ linesOut = Len(manifest) /\ Len(manifest) = Len(index)
          /\ framesOut \in 0..Len(frames)
          /\ DOMAIN manifest = 1..Len(manifest) /\ DOMAIN index = 1..Len(index)
          /\ DOMAIN frames = 1..Len(frames) /\ Len(frames) \in Nat /\ Len(index) \in Nat
      BY LenProperties DEF ObserversInv, ManifestTypes, ManifestInv, ScheduleTypes
    <2>2. ASSUME NEW f \in 1..framesOut, NEW entry \in frames[f].holds
          PROVE  entry[1] <= linesOut /\ manifest[entry[1]][1] = PartOf(entry[2])
      <3>1. f \in DOMAIN frames
        BY <2>1
      <3>2. entry[1] \in 1..Len(manifest) /\ index[entry[1]] = entry[2]
        BY <2>1, <3>1 DEF ObserversInv, ManifestInv
      <3> QED
        BY <2>1, <3>2 DEF ObserversInv, ManifestInv
    <2>3. \A i, j \in 1..linesOut : manifest[i] = manifest[j] => i = j
      BY <2>1 DEF ObserversInv, ManifestInv, IsInjective
    <2> QED
      BY <2>2, <2>3 DEF FramesDecode
  <1> QED
    BY <1>1, ObserversInvariance, PTL

(* TrajectoryRecorder::CaptureIfDue: no instant of the grid is skipped, however the step    *)
(* and the period divide each other.                                                      *)
THEOREM NoInstantSkipped == Spec => []InstantsSampled
  <1>1. ObserversInv => InstantsSampled
    <2> SUFFICES ASSUME ObserversInv, pc = "dynamics", isOpen,
                        NEW instant \in 0..now, instant % TrajectoryPeriod = 0
                 PROVE  \E f \in DOMAIN frames :
                           frames[f].at >= instant /\ frames[f].at < instant + Step
      BY DEF InstantsSampled, EveryInstantSampled
    <2>1. now \in Nat /\ instant \in Nat /\ instant <= now
      BY DEF ObserversInv, LoopInv
    <2>2. nextSample \in Nat /\ nextSample > now /\ ~capturing
      BY DEF ObserversInv, ScheduleTypes, ScheduleInv
    <2>3. instant < nextSample
      BY <2>1, <2>2
    <2>4. Sampled(instant)
      BY <2>1, <2>2, <2>3 DEF ObserversInv, ScheduleInv, OnGrid
    <2> QED
      BY <2>4 DEF Sampled
  <1> QED
    BY <1>1, ObserversInvariance, PTL

(* ScmRecorder: at a frame's time a reader who starts at the last keyframe knows every      *)
(* touched node to within kLevelEpsilon, however slowly the soil gave.                     *)
THEOREM SoilStaysReadable == Spec => []SoilReadable
  BY ObserversInvariance, PTL DEF ObserversInv

(* SynRockAgent: a drawn body that shows a rock shows it for the rest of the run.           *)
THEOREM DrawnRocksStay == Spec => ZombieKeepsItsRock
  <1>1. ObserversInv /\ [Next]_vars =>
           [\A i \in DOMAIN zombies : zombies[i] # Stash => zombies'[i] = zombies[i]]_zombies
    BY ObserversStep
  <1> QED
    BY <1>1, ObserversInvariance, PTL DEF Spec, ZombieKeepsItsRock

(* SynRockAgent: as long as the pool is made for that many cycles, each rock that was sent  *)
(* is drawn by one body: the pool holds the heap and the most rocks of every cycle.        *)
THEOREM SentRocksDrawn == Spec => []RocksDrawn
  <1>1. ObserversInv => RocksDrawn
    <2> SUFFICES ASSUME ObserversInv, cycle + 1 <= CycleCapacity, NEW k \in DOMAIN sent
                 PROVE  \E i \in DOMAIN zombies :
                           /\ zombies[i] = sent[k]
                           /\ \A j \in DOMAIN zombies : zombies[j] = sent[k] => j = i
      BY DEF RocksDrawn, EveryRockDrawn
    <2> DEFINE heap == Len(BuilderRocks)
               all == RocksOf(cycle)
               old == Range(BuilderRocks) \ {Stash}
    <2>1. /\ cycle \in 0..LastCycle /\ LastCycle \in Nat /\ CycleCapacity \in Nat
          /\ MaxRocksPerCycle \in Nat /\ BuilderCapacity \in Nat /\ heap <= BuilderCapacity
      BY ObserversAssumption DEF ObserversInv, LoopInv
    <2>2. /\ sent \in Seq(all) /\ rocks \in Seq(all) /\ IsInjective(rocks)
          /\ Len(sent) <= Len(rocks) /\ Len(rocks) <= MaxRocksPerCycle * (cycle + 1)
          /\ \A m \in DOMAIN sent : sent[m] = rocks[m]
          /\ zombies = Drawn(sent)
      BY DEF ObserversInv, LoopInv, PoolInv, Drawn
    <2>3. BuilderRocks \in Seq(old) /\ old \cap all = {} /\ Stash \notin all
      BY <2>1, HarvestIsNew, BodiesAssumption
    <2> HIDE DEF all, old
    <2>4. /\ Len(sent) \in Nat /\ DOMAIN sent = 1..Len(sent) /\ Len(rocks) \in Nat
          /\ DOMAIN rocks = 1..Len(rocks) /\ heap \in Nat /\ sent # <<>>
      BY <2>2, <2>3, LenProperties
    <2>5. BuilderRocks \in Seq(old \cup all) /\ sent \in Seq(old \cup all)
      BY <2>2, <2>3, SeqMonotonic
    <2>6. /\ Len(Lanes(sent)) = heap + Len(sent)
          /\ \A i \in 1..(heap + Len(sent)) :
                Lanes(sent)[i] = IF i <= heap THEN BuilderRocks[i] ELSE sent[i - heap]
      BY <2>5, ConcatProperties DEF Lanes
    <2>7. sent[k] \in all
      BY <2>2, <2>4, ElementOfSeq
    <2>8. heap + k <= Capacity(0) /\ Capacity(0) \in Nat
      <3> DEFINE most == AtLeast(1, MaxRocksPerCycle)
      <3>1. /\ most \in Nat /\ MaxRocksPerCycle <= most
            /\ AtLeast(0, BuilderCapacity) = BuilderCapacity
        BY <2>1 DEF AtLeast
      <3>2. Capacity(0) = most * CycleCapacity + BuilderCapacity
        BY <3>1 DEF Capacity
      <3> HIDE DEF most
      <3>3. /\ MaxRocksPerCycle * (cycle + 1) \in Nat /\ most * (cycle + 1) \in Nat
            /\ most * CycleCapacity \in Nat
        BY <2>1, <3>1, Z3
      <3>4. MaxRocksPerCycle * (cycle + 1) <= most * (cycle + 1)
        BY <2>1, <3>1, Z3
      <3>5. most * (cycle + 1) <= most * CycleCapacity
        BY <2>1, <3>1, Z3
      <3> QED
        BY <2>1, <2>2, <2>4, <3>2, <3>3, <3>4, <3>5
    <2>9. DOMAIN zombies = 1..Capacity(0) /\ \A i \in 1..Capacity(0) :
             zombies[i] = IF i <= heap + Len(sent) THEN Lanes(sent)[i] ELSE Stash
      BY <2>2, <2>4, <2>6 DEF Drawn
    <2> HIDE DEF heap
    <2>10. heap + k \in DOMAIN zombies /\ zombies[heap + k] = sent[k]
      <3>1. heap + k \in 1..(heap + Len(sent)) /\ heap + k \in 1..Capacity(0)
            /\ ~(heap + k <= heap) /\ (heap + k) - heap = k
        BY <2>4, <2>8
      <3> QED
        BY <2>6, <2>9, <3>1
    <2>11. ASSUME NEW j \in DOMAIN zombies, zombies[j] = sent[k]
           PROVE  j = heap + k
      <3>1. j \in 1..Capacity(0) /\ j \in Nat
        BY <2>8, <2>9
      <3>2. j <= heap + Len(sent)
        BY <2>3, <2>7, <2>9, <2>11, <3>1
      <3>3. j \in 1..(heap + Len(sent)) /\ zombies[j] = Lanes(sent)[j]
        BY <2>4, <2>9, <3>1, <3>2
      <3>4. ~(j <= heap)
        <4> SUFFICES ASSUME j <= heap PROVE FALSE
          OBVIOUS
        <4>1. j \in 1..Len(BuilderRocks)
          BY <2>4, <3>1 DEF heap
        <4>2. BuilderRocks[j] \in old
          BY <2>3, <4>1, ElementOfSeq
        <4>3. BuilderRocks[j] = sent[k]
          BY <2>6, <2>11, <3>3
        <4> QED
          BY <2>3, <2>7, <4>2, <4>3
      <3>5. j - heap \in DOMAIN sent /\ sent[j - heap] = sent[k]
        BY <2>4, <2>6, <2>11, <3>1, <3>3, <3>4
      <3>6. j - heap \in DOMAIN rocks /\ k \in DOMAIN rocks /\ rocks[j - heap] = rocks[k]
        BY <2>2, <2>4, <3>5
      <3>7. j - heap = k
        BY <2>2, <3>6 DEF IsInjective
      <3> QED
        BY <2>4, <3>1, <3>7
    <2> QED
      BY <2>10, <2>11
  <1> QED
    BY <1>1, ObserversInvariance, PTL

=============================================================================
