SPECIFICATION Spec
CONSTANTS
    Ids = {1, 2, 3}
    MaxSteps = 3
    MaxDeps = 2
    UsizeLimit = 16
CHECK_DEADLOCK FALSE
INVARIANTS
    TypeOK
    AcceptsDags
    VisitsEachIdOnce
    PanicsNeedDuplicates
