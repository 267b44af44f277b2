SPECIFICATION Spec
CONSTANTS
    w1 = w1
    primary = primary
    fallback = fallback
    o1 = o1
    NoTask = NoTask
    NoWorker = NoWorker
    NoOutput = NoOutput
    NoKey = NoKey
    Tasks = {primary, fallback}
    NumRuns = 2
    NumSteps = 1
    Deps <- PairDeps
    MaxAttempts <- PairAttempts
    Primary <- PairPrimary
    Fallback <- PairFallback
    Supports <- PairSupports
    Workers = {w1}
    Outputs = {o1}
    Keys = {1, 2}
    Payloads = {1, 2}
    HasGates = FALSE
    ClaimClearsBackoff = FALSE
    LeaseTicks = 1
    MaxFinishEvents = 2
INVARIANTS
    OneRunPerKey
    EventsAreDeduplicable
