SPECIFICATION Spec
CONSTANTS
    MaxSockets = 1
    SupportsRefing = TRUE
    MaxSubscribeIds = 3
    MaxSubscribers = 1
    MaxPulls = 1
    MaxValue = 1
INVARIANTS
    RefWhileSubscribed
CHECK_DEADLOCK FALSE
