SPECIFICATION Spec
CONSTANTS
    p1 = p1
    p2 = p2
    p3 = p3
    left = left
    right = right
    None = None
    Procs <- ThreeProcs
    Lanes <- TwoLanes
SYMMETRY AnyInstance
INVARIANTS
    ServiceExposed
\* Every instance may have been used up.
CHECK_DEADLOCK FALSE
