SPECIFICATION Spec
CONSTANTS
    Volumes <- MCVolumes
    Clusters = 3
    PerFat = 2
    SectorSize = 3
    LineSize = 2
    MaxLines = 4
    MaxPresses = 2
INVARIANTS
    TypeOK
    CardIsConsistent
    ClosedFileIsComplete
PROPERTIES
    NoWriteWhenStopped
    Stops
CHECK_DEADLOCK FALSE
