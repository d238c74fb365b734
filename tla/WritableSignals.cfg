SPECIFICATION Spec
CONSTANTS
    MaxSockets = 2
    SupportsRefing = TRUE
    MaxSubscribeIds = 3
    MaxSubscribers = 1
    MaxUpdates = 2
    Refusals = TRUE
INVARIANTS
    TypeOK
    
    OptimisticView
    
    EachUpdaterSeesAllBefore
PROPERTIES
    KeepsContract
CHECK_DEADLOCK FALSE
