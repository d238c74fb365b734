SPECIFICATION Spec
CONSTANTS
    MaxSockets = 2
    SupportsRefing = TRUE
    MaxSubscribeIds = 3
    MaxSubscribers = 1
    MaxPulls = 1
    MaxValue = 1
INVARIANTS
    TypeOK
    
    SubscriptionsAgree
PROPERTIES
    KeepsContract
CHECK_DEADLOCK FALSE
