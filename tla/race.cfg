SPECIFICATION Spec
CHECK_DEADLOCK FALSE
CONSTANTS
    c1 = c1
    c2 = c2
    k1 = k1
    k2 = k2
    w1 = w1
    primary = primary
    fallback = fallback
    o1 = o1
    NoTask = NoTask
    NoWorker = NoWorker
    NoOutput = NoOutput
    NoKey = NoKey
    Tasks = {primary, fallback}
    NumRuns = 2
    NumSteps = 1
    Deps <- OneDeps
    MaxAttempts <- OneAttempt
    Primary <- OnePrimary
    Fallback <- NoFallback
    Supports <- Nobody
    Workers = {w1}
    Outputs = {o1}
    Keys = {k1, k2}
    Payloads = {1, 2}
    HasGates = TRUE
    ClaimClearsBackoff = TRUE
    LeaseTicks = 1
    MaxFinishEvents = 1
    Clients = {c1, c2}
    row = 2
    FiniteNumbers = FALSE
    BatchSize = 1
SYMMETRY CallerSymmetry
INVARIANTS
    OneRunPerKey
