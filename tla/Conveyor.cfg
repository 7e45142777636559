SPECIFICATION FairSpec
CONSTANTS
    Count = 2
    Ring = 20
    Home <- EvenHome
    Course <- LongAndShort
    Pitch = 2
    MaxSlide = 3
    Slides = {3}
    Reach = 1
    MinGap = 5
    Tol = 1
    Deadband = 0
    Lag = 2
    Silent = {}
INVARIANTS
    SeparationKept
    NoLap
PROPERTIES
    ImplementsConvoy
    EveryoneArrives
