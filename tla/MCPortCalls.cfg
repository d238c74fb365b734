SPECIFICATION Spec
CONSTANTS
    MaxSockets = 2
    SupportsRefing = TRUE
    MaxCalls = 2
    MaxSends = 1
    Faults <- AllFaults
INVARIANTS
    TypeOK
    SingleConnection
    NoCallStranded
    CountAgrees
    
PROPERTY KeepsContract
CHECK_DEADLOCK FALSE
