SPECIFICATION FairSpec
CONSTANTS
    None = None
    Eof = Eof
    Backlog = 1
    MaxHandlers = 2
    MaxEpoch = 2
    MaxFaults = 1
    Faults <- CoherentFaults
INVARIANTS
    CacheCoherent
PROPERTIES
    OnlyActualChanges
    FollowsModel
    ShutdownCompletes
