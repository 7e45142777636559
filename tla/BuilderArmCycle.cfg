SPECIFICATION CycleSpec
CONSTANTS
    Rocks = {r1, r2}
    NoRock = NoRock
    Wide = {}
    Bearings = {1}
    NSlots = 2
    ReachMin = 0
    Reach = 2
    FetchMargin = 1
    MaxSlide = 1
    Overshoot = 1
    Strand = 4
    MaxAttempts = 2
    LateCommands = TRUE
    Depth = 1
    MaxSeq = 2
    Timeouts = TRUE
SYMMETRY RockSymmetry
INVARIANTS
    AckMeansAccepted
PROPERTIES
    EachCommandStartsOnce
    NoCommandInTheGap
    StartsWhatIsAwaited
