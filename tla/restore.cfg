SPECIFICATION SnapSpec
CONSTANTS
    w1 = w1
    primary = primary
    o1 = o1
    NoTask = NoTask
    NoWorker = NoWorker
    NoOutput = NoOutput
    NoKey = NoKey
    Tasks = {primary}
    NumRuns = 1
    NumSteps = 1
    Deps <- OneDeps
    MaxAttempts <- TwoAttempts
    Primary <- OnePrimary
    Fallback <- NoFallback
    Supports <- OneWorker
    Workers = {w1}
    Outputs = {o1}
    Keys = {1}
    Payloads = {1}
    HasGates = FALSE
    ClaimClearsBackoff = FALSE
    LeaseTicks = 1
    MaxFinishEvents = 1
    MaxRestarts = 1
    MaxSaves = 1
INVARIANTS
    HistoriesRise
    IndexNamesStoredRuns
PROPERTIES
    TokensAreGrantedOnce
