SPECIFICATION Spec
CONSTANTS
    Rocks = {r1}
    NoRock = NoRock
    Wide = {}
    Bearings = {0}
    NSlots = 5
    ReachMin = 0
    Reach = 1
    FetchMargin = 1
    MaxSlide = 2
    Overshoot = 1
    Strand = 4
    MaxAttempts = 2
    LateCommands = FALSE
PROPERTIES
    WritesOffOnlyPassed
