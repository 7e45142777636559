SPECIFICATION Spec
CONSTANTS
    TrajectoryPeriod = 5
    FlushEvery = 2
    NameOf <- MCNameOf
    RockNames = {"seed_rock", "harvest_rock", "harvest_rock_2"}
    Labels <- MCLabels
    Nodes = {n1, n2}
    Epsilon = 2
    SoilPeriod = 4
    KeyframePeriod = 10
    BuilderRocks <- MCBuilderRocks
    BuilderCapacity = 1
    MaxRocksPerCycle = 2
    CycleCapacity = 2
    Stash = Stash
    Machines <- MCMachines
    StaticUses <- MCStaticUses
    Step = 3
    EndTime = 18
    LastCycle = 2
    Harvest <- MCHarvest
INVARIANTS
    FramesDecode
    InstantsSampled
    SoilReadable
    RocksDrawn
PROPERTY
    ZombieKeepsItsRock
CHECK_DEADLOCK FALSE
