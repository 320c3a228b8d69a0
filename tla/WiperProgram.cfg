SPECIFICATION FairSpec
CONSTANTS
    None = None
    ModeOf <- MCModeOf
    MaxMode = 5
    MaxFaults = 2
    Faults <- FaultKinds
INVARIANTS
    TypeOK
    NoStepAfterTerminate
    NoOverrun
PROPERTIES
    ImplementsReadings
    FollowsMode
    StopEnds
\* The program may have ended.
CHECK_DEADLOCK FALSE
