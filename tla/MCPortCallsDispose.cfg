SPECIFICATION FairSpec
CONSTANTS
    MaxSockets = 1
    SupportsRefing = TRUE
    MaxCalls = 1
    MaxSends = 0
    Faults <- CompatiblePorts
PROPERTIES
    DisposeEnds
CHECK_DEADLOCK FALSE
