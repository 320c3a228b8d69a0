SPECIFICATION FairSpec
CONSTANTS
    p1 = p1
    p2 = p2
    p3 = p3
    left = left
    right = right
    None = None
    Procs <- ThreeProcs
    Lanes <- TwoLanes
PROPERTIES
    StopCompletes
\* Every instance may have been used up.
CHECK_DEADLOCK FALSE
