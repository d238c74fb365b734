SPECIFICATION Spec
CONSTANTS
    MaxCalls = 2
    MaxPredictionRounds = 0
INVARIANTS
    ReportedUnderItsId
CHECK_DEADLOCK FALSE
