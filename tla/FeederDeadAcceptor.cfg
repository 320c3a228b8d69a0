SPECIFICATION FairSpec
CONSTANTS
    left = left
    right = right
    Lanes <- ReadLanes
    Backlog = 1
    MaxView = 1
    MaxFaults = 1
    Faults = {"acceptError"}
PROPERTIES
    StepNeverStalls
CHECK_DEADLOCK FALSE
