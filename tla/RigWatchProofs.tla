--------------------------- MODULE RigWatchProofs ---------------------------
(***************************************************************************)
(* Theorems about the watchers of RigWatch, for any periods, dwells and    *)
(* timeouts: a dead rank ends the job within a scan period, nothing else   *)
(* ends it, a stalled rover is reported, and the steering stops push       *)
(* only uprights that are outside, and leave no torque over.               *)
(***************************************************************************)
EXTENDS RigWatch, FiniteSetTheorems, WellFoundedInduction, TLAPS

\* The calls between the scan and the end of the step.
Stepping == {"stuck", "stops", "drive", "hull", "advance"}

Clocks ==
    /\ scanAge \in 0..ScanPeriod /\ deadFor \in None..ScanPeriod
    /\ stuckFor \in None..Dwell /\ stalledFor \in None..Dwell
    /\ reportAge \in 0..ReportPeriod
    /\ hullAge \in 0..HullTimeout
    /\ diverged \in BOOLEAN /\ hullStuck \in BOOLEAN

\* The scan's clock is ahead of the time a body has been dead, and due before that has
\* lasted a scan period.
DeathIsSeen ==
    /\ deadFor = None <=> health # "nan"
    /\ diverged => health = "nan"
    /\ diverged \/ deadFor < scanAge
    /\ pc \in Stepping => diverged \/ scanAge < ScanPeriod
    /\ pc = "scan" => ~diverged

\* The hull detector's clock is the time driven without moving; it is at its end when
\* the detector has latched.
HullIsTimed ==
    /\ waitedFor = hullAge
    /\ hullStuck => pc \in {"advance", "check", "aborted"} /\ hullAge = HullTimeout
    /\ pc = "advance" /\ hullAge = HullTimeout => hullStuck

\* The stuck detector's clock misses nothing of a stall.
StallIsTimed == stalledFor <= stuckFor

WatchInv ==
    /\ Clocks /\ DeathIsSeen /\ HullIsTimed /\ StallIsTimed
    /\ StallIsReported
    /\ pc = "aborted" => diverged \/ hullStuck

LEMMA Periods ==
    /\ ScanPeriod \in Nat /\ ScanPeriod > 0 /\ Dwell \in Nat /\ Dwell > 0
    /\ ReportPeriod \in Nat /\ ReportPeriod > 0 /\ HullTimeout \in Nat /\ HullTimeout > 0
  BY WatchAssumption

LEMMA WatchInit == Init => WatchInv
  <1> SUFFICES ASSUME Init PROVE WatchInv
    OBVIOUS
  <1>1. Clocks
    <2>1. diverged \in BOOLEAN /\ hullStuck \in BOOLEAN
      BY DEF Init
    <2> QED BY <2>1, Periods DEF Init, Clocks, None
  <1>2. DeathIsSeen
    BY Periods DEF Init, DeathIsSeen, None, Stepping
  <1>3. HullIsTimed /\ StallIsTimed /\ StallIsReported
    BY Periods DEF Init, HullIsTimed, StallIsTimed, StallIsReported, None
  <1> QED BY <1>1, <1>2, <1>3 DEF Init, WatchInv

LEMMA WatchNext == ASSUME WatchInv, [Next]_vars PROVE WatchInv'
  <1> USE Periods DEF None
  <1>1. CASE CheckDivergence
    <2>1. /\ diverged' \in BOOLEAN /\ scanAge' \in 0..ScanPeriod
          /\ diverged' <=> diverged \/ (ScanDue /\ health = "nan")
          /\ ~diverged => scanAge' = IF ScanDue THEN 0 ELSE scanAge
      <3>1. CASE ScanDue
        <4>1. diverged' = (health = "nan") /\ ~diverged /\ scanAge' = 0
          BY <1>1, <3>1 DEF CheckDivergence, ScanDue
        <4>2. scanAge' \in 0..ScanPeriod
          BY <4>1
        <4>3. diverged' \in BOOLEAN /\ (diverged' <=> diverged \/ (ScanDue /\ health = "nan"))
          BY <3>1, <4>1, Zenon
        <4> QED BY <3>1, <4>1, <4>2, <4>3
      <3>2. CASE ~ScanDue
        BY <1>1, <3>2 DEF CheckDivergence, scan, WatchInv, Clocks
      <3> QED BY <3>1, <3>2
    <2>2. DeathIsSeen'
      BY <1>1, <2>1
      DEF CheckDivergence, ScanDue, world, WatchInv, Clocks, DeathIsSeen, Stepping
    <2> QED
      BY <1>1, <2>1, <2>2
      DEF CheckDivergence, world, stuck, stops, inputs, hull, WatchInv, Clocks, HullIsTimed,
          StallIsTimed, StallIsReported
  <1>2. CASE CheckStuck
    <2>1. stuckFor' \in None..Dwell /\ stalledFor' \in None..Dwell /\ reportAge' \in 0..ReportPeriod
      BY <1>2 DEF CheckStuck, StuckClock, WatchInv, Clocks
    <2>2. StallIsTimed'
      BY <1>2
      DEF CheckStuck, StuckClock, Blind, Trying, WatchInv, Clocks, StallIsTimed
    <2>3. StallIsReported'
      BY <1>2
      DEF CheckStuck, StuckClock, Blind, Trying, WatchInv, Clocks, StallIsTimed,
          StallIsReported
    <2> QED
      BY <1>2, <2>1, <2>2, <2>3
      DEF CheckStuck, world, scan, stops, inputs, hull, WatchInv, Clocks, DeathIsSeen,
          HullIsTimed, Stepping
  <1>3. CASE ApplySteeringStops
    BY <1>3
    DEF ApplySteeringStops, world, scan, stuck, inputs, hull, WatchInv, Clocks, DeathIsSeen,
        HullIsTimed, StallIsTimed, StallIsReported, Stepping
  <1>4. CASE Drive
    BY <1>4
    DEF Drive, world, scan, stuck, stops, hull, WatchInv, Clocks, DeathIsSeen,
        HullIsTimed, StallIsTimed, StallIsReported, Stepping
  <1>5. CASE WatchHull
    <2>1. hullAge' \in 0..HullTimeout /\ hullStuck' \in BOOLEAN
      BY <1>5 DEF WatchHull, WatchInv, Clocks
    <2>2. waitedFor' = hullAge'
      BY <1>5 DEF WatchHull, Anchored, WatchInv, HullIsTimed
    <2>3. ~hullStuck /\ pc = "hull" /\ pc' = "advance"
      BY <1>5 DEF WatchHull, WatchInv, HullIsTimed
    <2>4. hullStuck' <=> ~parked' /\ hullAge' = HullTimeout
      BY <1>5, <2>3 DEF WatchHull, Anchored
    <2>5. parked' => hullAge' # HullTimeout
      BY <1>5 DEF WatchHull, Anchored
    <2>6. HullIsTimed'
      BY <2>2, <2>3, <2>4, <2>5 DEF HullIsTimed
    <2> QED
      BY <1>5, <2>1, <2>6
      DEF WatchHull, world, scan, stuck, stops, inputs, WatchInv, Clocks, DeathIsSeen,
          StallIsTimed, StallIsReported, Stepping
  <1>6. CASE Advance
    <2>1. Clocks'
      BY <1>6 DEF Advance, Until, WatchInv, Clocks
    <2>2. DeathIsSeen'
      BY <1>6 DEF Advance, Until, WatchInv, Clocks, DeathIsSeen, Stepping
    <2>3. HullIsTimed'
      BY <1>6 DEF Advance, Until, WatchInv, Clocks, HullIsTimed
    <2>4. StallIsTimed' /\ StallIsReported'
      BY <1>6 DEF Advance, Until, WatchInv, Clocks, StallIsTimed, StallIsReported
    <2> QED BY <1>6, <2>1, <2>2, <2>3, <2>4 DEF Advance, WatchInv
  <1>7. CASE CheckAbort
    BY <1>7
    DEF CheckAbort, world, scan, stuck, stops, inputs, hull, WatchInv, Clocks, DeathIsSeen,
        HullIsTimed, StallIsTimed, StallIsReported, Stepping
  <1>8. CASE UNCHANGED vars
    BY <1>8
    DEF vars, world, scan, stuck, stops, inputs, hull, WatchInv, Clocks, DeathIsSeen,
        HullIsTimed, StallIsTimed, StallIsReported, Stepping
  <1> QED BY <1>1, <1>2, <1>3, <1>4, <1>5, <1>6, <1>7, <1>8 DEF Next

LEMMA WatchInvariant == Spec => []WatchInv
  BY WatchInit, WatchNext, PTL DEF Spec

\* RobotRig::CheckDivergence, HasDiverged, HullStuck: whatever was reported before, a rank
\* with a dead body or a hull that drives against something does not go on.
THEOREM DeadRanksStop == Spec => []DeadRankEndsRun
  <1>1. WatchInv => DeadRankEndsRun
    BY Periods
    DEF WatchInv, Clocks, DeathIsSeen, HullIsTimed, DeadRankEndsRun, None, Stepping
  <1> QED BY <1>1, WatchInvariant, PTL

\* The job is ended for no other reason, a long wait on the brake in particular.
THEOREM OnlyDeadRanksStop == Spec => []AbortIsWarranted
  <1>1. WatchInv => AbortIsWarranted
    BY DEF WatchInv, DeathIsSeen, HullIsTimed, AbortIsWarranted
  <1> QED BY <1>1, WatchInvariant, PTL

\* RobotRig::CheckStuck: a stall that has lasted the dwell is in the log.
THEOREM StallsAreReported == Spec => []StallIsReported
  <1>1. WatchInv => StallIsReported
    BY DEF WatchInv
  <1> QED BY <1>1, WatchInvariant, PTL

----------------------------------------------------------------------------
(* Sums over finite sets.  SumFunction adds in the order of CHOOSE; its     *)
(* recursion is unfolded here by taking a minimal counterexample.          *)

\* A family of subsets of a finite set that holds every set whose proper subsets it holds,
\* holds them all.
LEMMA SubsetInduction ==
    ASSUME NEW S, IsFiniteSet(S), NEW G,
           \A T \in SUBSET S : (\A U \in SUBSET T : U # T => U \in G) => T \in G
    PROVE  \A T \in SUBSET S : T \in G
  <1> DEFINE bad == (SUBSET S) \ G
  <1> SUFFICES ASSUME bad # {} PROVE FALSE
    OBVIOUS
  <1>1. IsWellFoundedOn(StrictSubsetOrdering(S), SUBSET S)
    <2>1. FiniteSubsetsOf(S) = SUBSET S
      BY FS_FiniteSubsetsOfFinite
    <2>2. IsWellFoundedOn(StrictSubsetOrdering(S), FiniteSubsetsOf(S))
      BY FS_StrictSubsetOrderingWellFounded
    <2> QED BY <2>1, <2>2, Zenon
  <1>2. PICK T \in bad : \A U \in bad : ~(<<U, T>> \in StrictSubsetOrdering(S))
    <2>1. bad \subseteq SUBSET S
      OBVIOUS
    <2> HIDE DEF bad
    <2> QED BY <1>1, <2>1, WFMin
  <1>3. \A U \in SUBSET T : U # T => U \in G
    BY <1>2 DEF StrictSubsetOrdering
  <1> QED BY <1>2, <1>3

\* The element SumFunction adds first, and the table of the sums over the subsets of S.
First(s) == CHOOSE x \in s : TRUE
Adds(g, f, S) ==
    g = [s \in SUBSET S |-> IF s = {} THEN 0 ELSE f[First(s)] + g[s \ {First(s)}]]
Sums(f, S) == CHOOSE g : Adds(g, f, S)

LEMMA SumIsTabled == ASSUME NEW f PROVE SumFunction(f) = Sums(f, DOMAIN f)[DOMAIN f]
  BY DEF SumFunction, SumFunctionOnSet, FoldFunctionOnSet, MapThenFoldSet, Sums, Adds, First

LEMMA FirstIn == \A s : s # {} => First(s) \in s
  BY DEF First

\* A row of a table.
LEMMA Row ==
    ASSUME NEW g, NEW f, NEW S, Adds(g, f, S), NEW s \in SUBSET S
    PROVE  /\ s = {} => g[s] = 0
           /\ s # {} => g[s] = f[First(s)] + g[s \ {First(s)}]
  BY DEF Adds

LEMMA LastRow ==
    ASSUME NEW g, NEW f, NEW s, Adds(g, f, s), s # {}
    PROVE  g[s] = f[First(s)] + g[s \ {First(s)}]
  BY Row

\* Two tables agree on the sets they share.
LEMMA TablesAgree ==
    ASSUME NEW f, NEW S, IsFiniteSet(S), NEW U, NEW g, NEW h, Adds(g, f, S), Adds(h, f, U)
    PROVE  \A V \in SUBSET (S \cap U) : g[V] = h[V]
  <1> DEFINE G == {V \in SUBSET (S \cap U) : g[V] = h[V]}
  <1>1. IsFiniteSet(S \cap U)
    BY FS_Subset
  <1>2. ASSUME NEW T \in SUBSET (S \cap U), \A V \in SUBSET T : V # T => V \in G
        PROVE  T \in G
    <2>1. CASE T = {}
      BY <2>1, Row
    <2>2. CASE T # {}
      <3>1. First(T) \in T
        BY <2>2, FirstIn
      <3>2. T \ {First(T)} \in G
        BY <1>2, <3>1
      <3>3. g[T] = f[First(T)] + g[T \ {First(T)}] /\ h[T] = f[First(T)] + h[T \ {First(T)}]
        BY <2>2, Row
      <3> QED BY <3>2, <3>3
    <2> QED BY <2>1, <2>2
  <1> HIDE DEF G
  <1>3. \A V \in SUBSET (S \cap U) : V \in G
    BY <1>1, <1>2, SubsetInduction
  <1> QED BY <1>3 DEF G

\* The table of a finite set exists.
LEMMA TableExists ==
    ASSUME NEW f, NEW S, IsFiniteSet(S)
    PROVE  Adds(Sums(f, S), f, S)
  <1> DEFINE G == {T \in SUBSET S : Adds(Sums(f, T), f, T)}
  <1>1. ASSUME NEW T \in SUBSET S, \A U \in SUBSET T : U # T => U \in G
        PROVE  T \in G
    <2> DEFINE rest(s) == s \ {First(s)}
               g == [s \in SUBSET T |-> IF s = {} THEN 0
                                        ELSE f[First(s)] + Sums(f, rest(s))[rest(s)]]
    <2>1. ASSUME NEW s \in SUBSET T, s # {}
          PROVE  g[rest(s)] = Sums(f, rest(s))[rest(s)]
      <3> DEFINE v == rest(s)
      <3>1. v \in SUBSET T /\ v # T
        BY <2>1, FirstIn
      <3>2. Adds(Sums(f, v), f, v)
        BY <1>1, <3>1
      <3>3. CASE v = {}
        <4>1. g[v] = 0
          BY <3>1, <3>3
        <4>2. Sums(f, v)[v] = 0
          BY <3>2, <3>3, Row
        <4> QED BY <4>1, <4>2
      <3>4. CASE v # {}
        <4> DEFINE w == rest(v)
        <4>1. w \in SUBSET T /\ w # T /\ w \in SUBSET v
          BY <3>1, <3>4, FirstIn
        <4>2. Adds(Sums(f, w), f, w)
          BY <1>1, <4>1
        <4>3. IsFiniteSet(v)
          BY <3>1, FS_Subset
        <4>4. Sums(f, v)[w] = Sums(f, w)[w]
          <5>1. w \in SUBSET (v \cap w)
            BY <4>1
          <5> HIDE DEF v, w
          <5> QED BY <3>2, <4>2, <4>3, <5>1, TablesAgree
        <4>5. Sums(f, v)[v] = f[First(v)] + Sums(f, v)[w]
          <5> HIDE DEF v
          <5> QED BY <3>2, <3>4, LastRow, Zenon
        <4>6. g[v] = f[First(v)] + Sums(f, w)[w]
          BY <3>1, <3>4
        <4> QED BY <4>4, <4>5, <4>6
      <3> QED BY <3>3, <3>4
    <2>2. Adds(g, f, T)
      <3>1. \A s \in SUBSET T : g[s] = IF s = {} THEN 0 ELSE f[First(s)] + g[rest(s)]
        BY <2>1
      <3>2. g = [s \in SUBSET T |-> g[s]]
        OBVIOUS
      <3> HIDE DEF g
      <3> QED BY <3>1, <3>2 DEF Adds
    <2>3. Adds(Sums(f, T), f, T)
      <3> HIDE DEF g
      <3> QED BY <2>2 DEF Sums
    <2> QED BY <2>3
  <1> HIDE DEF G
  <1>2. \A T \in SUBSET S : T \in G
    BY <1>1, SubsetInduction
  <1> QED BY <1>2 DEF G

\* Integers may be added in any order.
Integral(f, S) == \A x \in S : f[x] \in Int
InAnyOrder(g, f, S) ==
    \A V \in SUBSET S : g[V] \in Int /\ \A x \in V : g[V] = f[x] + g[V \ {x}]

LEMMA AnyOrder ==
    ASSUME NEW S, IsFiniteSet(S), NEW f, Integral(f, S), NEW g, Adds(g, f, S)
    PROVE  InAnyOrder(g, f, S)
  <1> USE DEF Integral
  <1> DEFINE Sound(V) == /\ g[V] \in Int
                         /\ \A x \in V : g[V] = f[x] + g[V \ {x}]
             G == {V \in SUBSET S : Sound(V)}
  <1>1. ASSUME NEW T \in SUBSET S, \A U \in SUBSET T : U # T => U \in G
        PROVE  T \in G
    <2>1. CASE T = {}
      <3>1. g[T] = 0
        BY <2>1, Row
      <3> QED BY <2>1, <3>1
    <2>2. CASE T # {}
      <3> DEFINE p == First(T)
      <3>1. p \in T /\ g[T] = f[p] + g[T \ {p}]
        BY <2>2, Row, FirstIn
      <3> HIDE DEF p
      <3>2. \A x \in T : Sound(T \ {x}) /\ f[x] \in Int
        BY <1>1
      <3>3. g[T] \in Int
        BY <3>1, <3>2
      <3>4. ASSUME NEW x \in T, x # p
            PROVE  g[T] = f[x] + g[T \ {x}]
        <4>1. g[T \ {p}] = f[x] + g[(T \ {p}) \ {x}]
          BY <3>1, <3>2, <3>4
        <4>2. g[T \ {x}] = f[p] + g[(T \ {x}) \ {p}]
          BY <3>1, <3>2, <3>4
        <4>3. (T \ {p}) \ {x} = (T \ {x}) \ {p}
          OBVIOUS
        <4>4. Sound((T \ {p}) \ {x})
          <5>1. (T \ {p}) \ {x} \in SUBSET T /\ (T \ {p}) \ {x} # T
            BY <3>1
          <5> QED BY <1>1, <5>1
        <4>5. f[x] \in Int /\ f[p] \in Int /\ g[(T \ {p}) \ {x}] \in Int
          BY <3>1, <3>2, <4>4
        <4>6. g[T \ {p}] = f[x] + g[(T \ {x}) \ {p}] /\ g[(T \ {x}) \ {p}] \in Int
          BY <4>1, <4>3, <4>5, Zenon
        <4>7. \A a, b, c \in Int : a + (b + c) = b + (a + c)
          OBVIOUS
        <4>8. f[p] + (f[x] + g[(T \ {x}) \ {p}]) = f[x] + (f[p] + g[(T \ {x}) \ {p}])
          BY <4>5, <4>6, <4>7, Zenon
        <4> QED BY <3>1, <4>2, <4>6, <4>8, Zenon
      <3> QED BY <3>1, <3>3, <3>4
    <2> QED BY <2>1, <2>2
  <1> HIDE DEF G
  <1>2. \A V \in SUBSET S : V \in G
    BY <1>1, SubsetInduction
  <1> QED BY <1>2 DEF G, InAnyOrder

\* Zeros add nothing: the sum over O is the sum over all of S of what is zero outside O.
Only(O, push) == [x \in O |-> push[x]]
Padded(S, O, push) == [x \in S |-> IF x \in O THEN push[x] ELSE 0]

LEMMA ZerosAddNothing ==
    ASSUME NEW S, IsFiniteSet(S), NEW O \in SUBSET S, NEW push \in [S -> Int]
    PROVE  /\ SumFunction(Only(O, push)) = SumFunction(Padded(S, O, push))
           /\ SumFunction(Only(O, push)) \in Int
  <1> USE DEF Only, Padded
  <1> DEFINE t == Padded(S, O, push)
             o == Only(O, push)
             a == Sums(t, S)
             b == Sums(o, O)
             G == {V \in SUBSET S : a[V] = b[V \cap O]}
  <1>1. IsFiniteSet(O)
    BY FS_Subset
  <1>2. Integral(t, S) /\ Integral(o, O) /\ \A x \in O : o[x] = t[x]
    BY DEF Integral
  <1>3. \A x \in S \ O : t[x] = 0
    OBVIOUS
  <1>4. SumFunction(t) = a[S] /\ SumFunction(o) = b[O]
    <2>1. DOMAIN t = S /\ DOMAIN o = O
      OBVIOUS
    <2> HIDE DEF t, o
    <2> QED BY <2>1, SumIsTabled
  <1> HIDE DEF t, o
  <1>5. Adds(a, t, S) /\ Adds(b, o, O)
    BY <1>1, TableExists
  <1> HIDE DEF a, b, G
  <1>6. \A V \in SUBSET S : a[V] \in Int /\ \A x \in V : a[V] = t[x] + a[V \ {x}]
    BY <1>2, <1>5, AnyOrder DEF InAnyOrder
  <1>7. \A V \in SUBSET O : b[V] \in Int /\ \A x \in V : b[V] = o[x] + b[V \ {x}]
    BY <1>1, <1>2, <1>5, AnyOrder DEF InAnyOrder
  <1> USE DEF G
  <1>8. ASSUME NEW T \in SUBSET S, \A U \in SUBSET T : U # T => U \in G
        PROVE  T \in G
    <2>1. CASE T = {}
      <3>1. a[{}] = 0 /\ b[{}] = 0
        BY <1>5, Row
      <3>2. T \cap O = {}
        BY <2>1
      <3> QED BY <2>1, <3>1, <3>2
    <2>2. CASE T # {}
      <3>1. PICK x \in T : TRUE
        BY <2>2
      <3>2. a[T] = t[x] + a[T \ {x}] /\ a[T \ {x}] \in Int
        BY <1>6, <3>1
      <3>3. a[T \ {x}] = b[(T \ {x}) \cap O]
        BY <1>8, <3>1
      <3>4. CASE x \in O
        <4>1. (T \ {x}) \cap O = (T \cap O) \ {x}
          OBVIOUS
        <4>2. b[T \cap O] = o[x] + b[(T \cap O) \ {x}]
          BY <1>7, <3>1, <3>4
        <4>3. a[T] = b[T \cap O]
          <5>1. o[x] = t[x]
            BY <1>2, <3>4
          <5>2. a[T \ {x}] = b[(T \cap O) \ {x}]
            BY <3>3, <4>1, Zenon
          <5> QED BY <3>2, <4>2, <5>1, <5>2, Zenon
        <4> QED BY <4>3
      <3>5. CASE x \notin O
        <4>1. (T \ {x}) \cap O = T \cap O
          BY <3>5
        <4>2. t[x] = 0
          BY <1>3, <3>5
        <4>3. a[T \ {x}] = b[T \cap O]
          BY <3>3, <4>1, Zenon
        <4>4. b[T \cap O] \in Int
          BY <3>2, <4>3, Zenon
        <4>5. a[T] = b[T \cap O]
          BY <3>2, <4>2, <4>3, <4>4
        <4> QED BY <4>5
      <3> QED BY <3>4, <3>5
    <2> QED BY <2>1, <2>2
  <1> HIDE DEF G
  <1>9. \A V \in SUBSET S : V \in G
    BY <1>8, SubsetInduction
  <1>10. a[S] = b[O]
    <2>1. S \in SUBSET S /\ S \cap O = O
      OBVIOUS
    <2> QED BY <1>9, <2>1 DEF G
  <1>11. b[O] \in Int
    BY <1>7
  <1> QED BY <1>4, <1>10, <1>11 DEF t, o

----------------------------------------------------------------------------
(* The steering stops.                                                     *)

\* The upright nearest to a spindle is the one on its own axle.
LEMMA OwnUpright == \A k \in Knuckles : Upright(k) = k
  <1> SUFFICES ASSUME NEW k \in Knuckles PROVE Upright(k) = k
    OBVIOUS
  <1> DEFINE Distance(u) == IF u.axle < k.axle THEN k.axle - u.axle ELSE u.axle - k.axle
             named == {u \in Knuckles : u.side = k.side}
  <1>1. \A u \in Knuckles : u.axle \in Nat /\ u = [axle |-> u.axle, side |-> u.side]
    BY WatchAssumption
  <1>2. k \in named /\ \A v \in named : Distance(k) <= Distance(v)
    BY <1>1
  <1>3. \A u \in named : (\A v \in named : Distance(u) <= Distance(v)) => u = k
    <2> SUFFICES ASSUME NEW u \in named, Distance(u) <= Distance(k) PROVE u = k
      BY <1>2
    <2>1. u.axle = k.axle /\ u.side = k.side
      BY <1>1
    <2> QED BY <1>1, <2>1
  <1>4. Upright(k) = CHOOSE u \in named : \A v \in named : Distance(u) <= Distance(v)
    BY DEF Upright
  <1> HIDE DEF Distance, named
  <1> QED BY <1>2, <1>3, <1>4

\* Between two calls: the stops are not bound and push nothing, or each is bound to its own
\* upright, and pushes only if that is outside.
KnuckleInv ==
    /\ stop = NotBound \/ stop = [k \in Knuckles |-> k]
    /\ \A k \in Knuckles : torque[k] # 0 => angle[k] = "outside"
    /\ reaction + SumFunction(torque) = 0

\* The pushes on the chassis cancel those on the uprights.
LEMMA Cancels ==
    ASSUME NEW O \in SUBSET Knuckles, NEW push \in [Knuckles -> Int]
    PROVE  -SumFunction(Only(O, push)) + SumFunction(Padded(Knuckles, O, push)) = 0
  <1> DEFINE s == SumFunction(Only(O, push))
  <1>1. s = SumFunction(Padded(Knuckles, O, push)) /\ s \in Int
    BY ZerosAddNothing, WatchAssumption
  <1> HIDE DEF s
  <1>2. -s + s = 0
    BY <1>1
  <1> QED BY <1>1, <1>2 DEF s

LEMMA KnuckleInit == Init => KnuckleInv
  <1> SUFFICES ASSUME Init PROVE KnuckleInv
    OBVIOUS
  <1>1. reaction + SumFunction(torque) = 0
    <2> DEFINE none == [k \in Knuckles |-> 0]
    <2>1. torque = none /\ reaction = 0
      BY DEF Init
    <2>2. none = Padded(Knuckles, {}, none)
      BY DEF Padded
    <2>3. none \in [Knuckles -> Int]
      OBVIOUS
    <2> HIDE DEF none
    <2>4. SumFunction(Only({}, none)) = SumFunction(Padded(Knuckles, {}, none))
      BY <2>3, ZerosAddNothing, WatchAssumption
    <2>5. SumFunction(Only({}, none)) = 0
      <3> DEFINE e == Only({}, none)
      <3>1. DOMAIN e = {} /\ IsFiniteSet({})
        BY FS_EmptySet DEF Only
      <3> HIDE DEF e
      <3>2. SumFunction(e) = Sums(e, {})[{}] /\ Adds(Sums(e, {}), e, {})
        BY <3>1, SumIsTabled, TableExists
      <3>3. SumFunction(e) = 0
        BY <3>2, Row
      <3> QED BY <3>3 DEF e
    <2>6. SumFunction(torque) = 0
      BY <2>1, <2>2, <2>4, <2>5, Zenon
    <2> QED BY <2>1, <2>6
  <1> QED BY <1>1 DEF Init, KnuckleInv

LEMMA KnuckleNext == ASSUME KnuckleInv, [Next]_vars PROVE KnuckleInv'
  <1>1. CASE ApplySteeringStops
    <2>1. stop' = [k \in Knuckles |-> k]
      BY <1>1, OwnUpright DEF ApplySteeringStops, KnuckleInv
    <2> DEFINE O == {k \in Knuckles : angle'[k] = "outside"}
    <2>2. PICK push \in [Knuckles -> Torques] :
             /\ torque' = [k \in Knuckles |-> IF angle'[stop'[k]] = "outside" THEN push[k]
                                             ELSE Released(k)]
             /\ reaction' = -SumFunction([k \in {s \in Knuckles : angle'[stop'[s]] = "outside"}
                                            |-> push[k]])
      BY <1>1 DEF ApplySteeringStops
    <2>3. \A k \in Knuckles : push[k] \in Int
      BY WatchAssumption DEF Torques
    <2>4. push \in [Knuckles -> Int]
      BY <2>3
    <2>5. torque' = Padded(Knuckles, O, push)
      BY <2>1, <2>2 DEF Released, Padded
    <2>6. {s \in Knuckles : angle'[stop'[s]] = "outside"} = O
      BY <2>1
    <2>7. reaction' = -SumFunction(Only(O, push))
      <3> HIDE DEF O
      <3> QED BY <2>2, <2>6, Zenon DEF Only
    <2>8. O \in SUBSET Knuckles
      OBVIOUS
    <2>9. reaction' + SumFunction(torque') = 0
      <3> HIDE DEF O
      <3> QED BY <2>4, <2>5, <2>7, <2>8, Cancels, Zenon
    <2>10. \A k \in Knuckles : torque'[k] # 0 => angle'[k] = "outside"
      BY <2>5 DEF Padded
    <2> QED BY <2>1, <2>9, <2>10 DEF KnuckleInv
  <1>2. CASE UNCHANGED stops
    BY <1>2 DEF stops, KnuckleInv
  <1>3. [Next]_vars => ApplySteeringStops \/ UNCHANGED stops
    BY DEF Next, vars, CheckDivergence, CheckStuck, Drive, WatchHull, Advance, CheckAbort
  <1> QED BY <1>1, <1>2, <1>3

\* RobotRig::ApplySteeringStops: however the uprights of a rig are numbered and wherever
\* they swing, each has a stop of its own, none is pushed that is inside, and what the
\* chassis carries cancels the pushes.
THEOREM StopsHoldKnuckles == Spec => []KnucklesAreHeld
  <1>1. KnuckleInv => KnucklesAreHeld
    <2> SUFFICES ASSUME KnuckleInv PROVE KnucklesAreHeld
      OBVIOUS
    <2>1. CASE stop = NotBound
      <3>1. DOMAIN stop = {}
        BY <2>1 DEF NotBound
      <3> QED BY <2>1, <3>1 DEF KnuckleInv, KnucklesAreHeld
    <2>2. CASE stop = [k \in Knuckles |-> k]
      <3>1. stop \in Bijection(Knuckles, Knuckles)
        BY <2>2 DEF Bijection, Injection, Surjection, IsInjective
      <3>2. \A s \in DOMAIN stop : torque[s] # 0 => angle[stop[s]] = "outside"
        BY <2>2 DEF KnuckleInv
      <3> QED BY <3>1, <3>2 DEF KnuckleInv, KnucklesAreHeld
    <2> QED BY <2>1, <2>2 DEF KnuckleInv
  <1>2. Spec => []KnuckleInv
    BY KnuckleInit, KnuckleNext, PTL DEF Spec
  <1> QED BY <1>1, <1>2, PTL

=============================================================================
