SPECIFICATION Spec
CONSTANTS
    MaxSockets = 1
    SupportsRefing = TRUE
    MaxCalls = 1
    MaxSends = 0
    Faults <- CompatiblePorts
INVARIANTS
    ClosedMeansProperlyClosed
CHECK_DEADLOCK FALSE
