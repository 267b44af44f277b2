SPECIFICATION Spec
CONSTANTS
    Names = {loss, recall}
    Values = {1, 2}
    NaN = NaN
    MaxGates = 3
    MaxMetrics = 2
CHECK_DEADLOCK FALSE
INVARIANTS
    TypeOK
    VerdictFollowsGates
