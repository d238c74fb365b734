SPECIFICATION FairSpec
CONSTANTS
    MaxSockets = 2
    SupportsRefing = TRUE
    MaxSubscribeIds = 2
    MaxSubscribers = 1
    MaxUpdates = 2
    Refusals = FALSE
PROPERTIES
    WritesEnd
CHECK_DEADLOCK FALSE
