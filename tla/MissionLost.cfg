\* A driver that has skipped the last rock drives no further: see SentHome.
CHECK_DEADLOCK FALSE
SPECIFICATION Spec
CONSTANTS
    Batch = 2
    GateTime = 2
    BedTime = 2
    DwellTime = 1
    MaxGap = 3
    MaxHarvest = 2
    Depth = 2
    Deadlines = {"target"}
PROPERTIES
    SentHome
