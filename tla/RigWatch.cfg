SPECIFICATION Spec
CONSTANTS
    ScanPeriod = 3
    MaxReports = 2
    Dwell = 2
    ReportPeriod = 4
    HullTimeout = 3
    Knuckles <- MCKnuckles
    StopTorqueMax = 1
    Troubles <- MCTroubles
INVARIANTS
    DeadRankEndsRun
    AbortIsWarranted
    StallIsReported
    KnucklesAreHeld
CHECK_DEADLOCK FALSE
