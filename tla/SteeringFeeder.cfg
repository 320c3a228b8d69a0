SPECIFICATION FairSpec
CONSTANTS
    Backlog = 2
    MaxAngle = 3
    MaxStarts = 3
INVARIANTS
    TypeOK
    StoppedIsShut
    FreshAnswer
PROPERTIES
    ImplementsReadings
    NeverStale
    ReadEnds
\* With no value and no acceptor thread, a read may wait for ever.
CHECK_DEADLOCK FALSE
