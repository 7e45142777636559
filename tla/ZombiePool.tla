----------------------------- MODULE ZombiePool -----------------------------
(***************************************************************************)
(* SynRockAgent: the rocks of one rank as the sensor rank draws them.      *)
(* Every heartbeat the owner sends the poses of all its rocks, one lane a  *)
(* rock, and the sensor rank puts its i-th drawn body at the i-th lane.    *)
(* The drawn bodies are made once, before the run.                         *)
(*                                                                         *)
(* A pose is the rock it belongs to.  The exchange itself is SynChrono's:  *)
(* every rank blocks in it, nothing is lost.  The bed and the arm send     *)
(* lists of fixed length the same way.                                     *)
(***************************************************************************)
EXTENDS Naturals, Sequences

CONSTANTS
    BuilderRocks,      \* m_builder_rocks, a sequence: the seed heap
    BuilderCapacity,   \* m_builder_rock_capacity, BuilderWallSlotCount on every rank
    MaxRocksPerCycle,  \* the most rocks a harvest cycle puts out
    CycleCapacity,     \* zombie_rock_cycle_capacity
    Stash              \* zombie_stash_position

VARIABLES
    zombies  \* m_zombie_rocks: the rock each shows, or Stash

AtLeast(least, n) == IF n < least THEN least ELSE n

\* Mutated: the pool is sized on the first cycle's draw.
CapacityOfDraw(draw) == AtLeast(1, draw) * CycleCapacity + AtLeast(0, BuilderCapacity)

Capacity(draw) == AtLeast(1, MaxRocksPerCycle) * CycleCapacity + AtLeast(0, BuilderCapacity)

\* InitializeZombie on the sensor rank.
PoolInit(draw) == zombies = [i \in 1..Capacity(draw) |-> Stash]

\* Mutated: the harvest list leads.
LanesHarvestFirst(rocks) == rocks \o BuilderRocks

\* Update: the heap, whose length is fixed, leads; nothing is sent without harvest rocks.
Lanes(rocks) == BuilderRocks \o rocks

\* GatherMessages and SynchronizeZombie: lanes beyond the pool are dropped.
Synchronize(rocks) ==
    LET lanes == Lanes(rocks)
    IN zombies' = IF rocks = <<>> THEN zombies
                  ELSE [i \in DOMAIN zombies |-> IF i <= Len(lanes) THEN lanes[i] ELSE zombies[i]]

----------------------------------------------------------------------------

\* "The wall the builder had already laid would appear to shuffle itself": a drawn body
\* that shows a rock shows that rock for the rest of the run.
ZombieKeepsItsRock ==
    [][\A i \in DOMAIN zombies : zombies[i] # Stash => zombies'[i] = zombies[i]]_zombies

\* For as many cycles as the pool is made for, every rock that has been sent is drawn,
\* by one body.
EveryRockDrawn(sent, cycles) ==
    cycles <= CycleCapacity =>
        \A k \in DOMAIN sent :
            \E i \in DOMAIN zombies :
                /\ zombies[i] = sent[k]
                /\ \A j \in DOMAIN zombies : zombies[j] = sent[k] => j = i

=============================================================================
