SPECIFICATION FairSpec
CONSTANTS
    None = None
    Garbled = Garbled
    RoadViews <- SomeViews
    MaxViews = 2
    MaxTurns = 1
    MaxFaults = 1
INVARIANTS
    TypeOK
    NoFlicker
    NoFalseAlarm
PROPERTIES
    OutputOfOneView
    LightsFollowRoad
