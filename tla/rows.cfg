SPECIFICATION FairSpec
CHECK_DEADLOCK FALSE
CONSTANTS
    c1 = c1
    c2 = c2
    k1 = k1
    k2 = k2
    w1 = w1
    primary = primary
    fallback = fallback
    o1 = o1
    NoTask = NoTask
    NoWorker = NoWorker
    NoOutput = NoOutput
    NoKey = NoKey
    Tasks = {primary, fallback}
    NumRuns = 2
    NumSteps = 2
    Deps <- ChainDeps
    MaxAttempts <- ChainAttempts
    Primary <- ChainPrimary
    Fallback <- ChainFallback
    Supports <- ChainSupports
    Workers = {w1}
    Outputs = {o1}
    Keys = {}
    Payloads = {1}
    HasGates = FALSE
    ClaimClearsBackoff = TRUE
    LeaseTicks = 1
    MaxFinishEvents = 1
    Clients = {c1}
    row = 2
    FiniteNumbers = TRUE
    BatchSize = 2
INVARIANTS
    TypeOK
PROPERTIES
    RowKeepsTheContract
    RunnableStepsAreFound
