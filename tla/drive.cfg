SPECIFICATION WorkerSpec
CONSTANTS
    w1 = w1
    w2 = w2
    primary = primary
    fallback = fallback
    o1 = o1
    NoTask = NoTask
    NoWorker = NoWorker
    NoOutput = NoOutput
    NoKey = NoKey
    Tasks = {primary, fallback}
    NumRuns = 1
    NumSteps = 2
    Deps <- TwinDeps
    MaxAttempts <- MixedAttempts
    Primary <- TwinPrimary
    Fallback <- MixedFallback
    Supports <- MixedSupports
    Workers = {w1, w2}
    Outputs = {o1}
    Keys = {}
    Payloads = {1}
    HasGates = FALSE
    ClaimClearsBackoff = FALSE
    LeaseTicks = 1
    MaxFinishEvents = 2
    Target <- MixedTarget
    Registry <- FullRegistry
    MaxParallel = 2
    MaxCrashes = 1
    MaxDrops = 1
INVARIANTS
    WorkerTypeOK
    OwnCompletionMatches
    SuccessFollowsStart
PROPERTIES
    FinishedRunTakesNoNewWork
    RunsSettle
