SPECIFICATION Spec
CONSTANTS
    Rocks = {r1, r2}
    NoRock = NoRock
    Wide = {}
    Bearings = {0, 3}
    NSlots = 2
    ReachMin = 1
    Reach = 2
    FetchMargin = 1
    MaxSlide = 1
    Overshoot = 1
    Strand = 3
    MaxAttempts = 2
    LateCommands = FALSE
SYMMETRY RockSymmetry
INVARIANTS
    OneDynamicRock
    CourseWaitsForArm
    OneStonePerSlot
    LaidIsCounted
PROPERTIES
    LaidStaysLaid
    ImplementsWall
