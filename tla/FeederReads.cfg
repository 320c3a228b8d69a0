SPECIFICATION FairSpec
CONSTANTS
    left = left
    right = right
    Lanes <- ReadLanes
    Backlog = 1
    MaxView = 2
    MaxFaults = 2
    Faults <- FaultKinds
INVARIANTS
    TypeOK
    OneLiveConnection
PROPERTIES
    ImplementsReadings
    ReadingsCatchUp
    ServedReadEnds
CHECK_DEADLOCK FALSE
