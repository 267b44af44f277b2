SPECIFICATION Spec
CONSTANTS
    MaxParallel = 3
    LeaseMs = 15
    TimeoutMs = 13
    MaxDelay = 1
INVARIANTS
    TypeOK
    LeaseCoversExecution
    RefusedOnlyBehindSlower
