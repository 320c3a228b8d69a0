SPECIFICATION FairSpec
CONSTANTS
    Garbled = Garbled
    LoopChoices <- SomeLoops
    MaxLoops = 2
INVARIANTS
    TypeOK
    ComesNearer
    EndsClear
    OneZoneAfterStop
PROPERTIES
    SimulatorEnds
\* The program ends.
CHECK_DEADLOCK FALSE
