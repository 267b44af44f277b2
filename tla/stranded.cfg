SPECIFICATION WorkerSpec
CONSTANTS
    w1 = w1
    w2 = w2
    primary = primary
    fallback = fallback
    o1 = o1
    NoTask = NoTask
    NoWorker = NoWorker
    NoOutput = NoOutput
    NoKey = NoKey
    Tasks = {primary, fallback}
    NumRuns = 1
    NumSteps = 2
    Deps <- TwinDeps
    MaxAttempts <- PollAttempts
    Primary <- TwinPrimary
    Fallback <- PollFallback
    Supports <- PollSupports
    Workers = {w1}
    Outputs = {o1}
    Keys = {}
    Payloads = {1}
    HasGates = FALSE
    ClaimClearsBackoff = FALSE
    LeaseTicks = 1
    MaxFinishEvents = 2
    Target <- PollTarget
    Registry <- FullRegistry
    MaxParallel = 1
    MaxCrashes = 0
    MaxDrops = 0
PROPERTIES
    RunsFinish
