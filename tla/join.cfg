SPECIFICATION Spec
CONSTANTS
    w1 = w1
    primary = primary
    fallback = fallback
    o1 = o1
    NoTask = NoTask
    NoWorker = NoWorker
    NoOutput = NoOutput
    NoKey = NoKey
    Tasks = {primary, fallback}
    NumRuns = 1
    NumSteps = 3
    Deps <- JoinDeps
    MaxAttempts <- JoinAttempts
    Primary <- JoinPrimary
    Fallback <- JoinFallback
    Supports <- JoinSupports
    Workers = {w1}
    Outputs = {o1}
    Keys = {}
    Payloads = {1}
    HasGates = TRUE
    ClaimClearsBackoff = FALSE
    LeaseTicks = 2
    MaxFinishEvents = 2
INVARIANTS
    TypeOK
    ClaimInputIsStable
    BudgetIsShared
    TokenIdentifiesAttempt
    LeaseMatchesOpenAttempt
    LogTellsHistory
    RunStatusIsJustified
PROPERTIES
    LedgerSpec
