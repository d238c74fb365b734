SPECIFICATION FairSessions
CONSTANTS
    MaxCalls = 3
    MaxPredictionRounds = 3
    Conns = {"c1", "c2"}
    Passkeys = {"p", "q"}
    Plugins = {"p1", "p2"}
    MaxToolCalls = 1
    MaxFragments = 2
    MaxReportedCalls = 2
    Tasks = {"s", "t"}
    MaxTaskUpdates = 1
    Options = {"a", "b"}
    First = "a"
    MaxPlanUpdates = 2
    MaxSelects = 2
    MaxReports = 1
    Ids = {"a", "b"}
    Callers = {1}
    MaxLoads = 2
    Sources = {"s", "t"}
    MaxChanges = 3
    MaxStales = 1
    MaxSubscriptions = 2
    MaxRejections = 1
    MaxEmitted = 3
    MaxSubscribed = 2
    NumPagers = 3
    Priorities = {0, 1}
INVARIANTS
    ComponentsTypeOK
    ChatAgrees
    OneAtATimeInOrder
    HoldersAgree
    ToolCallsAgree
    PredictionIsWhole
    TasksAgree
    PlanIsSelection
    CallsOfClient
    HandlesAgree
    
    QueuesAgree
PROPERTIES
    KeepsContract
    NothingStartsAfterFailure
    
    
\* A component that is over stops.
CHECK_DEADLOCK FALSE
