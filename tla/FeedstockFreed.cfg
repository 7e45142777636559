SPECIFICATION Spec
CONSTANTS
    s1 = s1
    h1 = h1
    h2 = h2
    Rocks = {s1, h1, h2}
    NoRock = NoRock
    Seed = {s1}
    LastCycle = 1
    Loads <- OneByOne
    Direct = FALSE
INVARIANTS
    OnlyTheLockedIsDynamic
