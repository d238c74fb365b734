SPECIFICATION FairSpec
CONSTANTS
    MaxSockets = 2
    SupportsRefing = FALSE
    MaxSubscribeIds = 2
    MaxSubscribers = 1
    MaxPulls = 1
    MaxValue = 0
PROPERTIES
    PullsEnd
    UnsubscribesEnd
CHECK_DEADLOCK FALSE
