SPECIFICATION Spec
CONSTANTS
    Rocks = {r1, r2}
    NoRock = NoRock
    TicksPerSecond = 2
    MaxLift = 17
    MaxSeq = 2
    Forgets = TRUE
INVARIANTS
    WeldDiscipline
    TargetHeldStill
    NeverTimesOut
PROPERTIES
    FreesOnlyItsTarget
    ImplementsCycle
    CycleEnds
CHECK_DEADLOCK FALSE
