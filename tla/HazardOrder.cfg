SPECIFICATION Spec
CONSTANTS
    None = None
    Eof = Eof
    Backlog = 1
    MaxHandlers = 2
    MaxEpoch = 2
    MaxFaults = 2
    Faults <- OrderlyFaults
INVARIANTS
    TypeOK
    NoLostWakeup
    InOrder
PROPERTIES
    ImplementsHazardSignal
