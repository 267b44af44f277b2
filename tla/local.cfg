SPECIFICATION FairSpec
CONSTANTS
    NumSteps = 4
    Deps <- JoinDeps
    MaxAttempts <- JoinAttempts
    HasFallback = {2, 3}
    MaxParallel = 2
    HasGates = TRUE
    RegistryIsStatic = FALSE
    Policies <- SmallPolicies
    MaxExponent = 2
    U32Max = 15
    U64Max = 63
CHECK_DEADLOCK FALSE
INVARIANTS
    TypeOK
    StoredTellsEmitted
    StepsFollowDependencies
    AlwaysProgress
    VerdictIsJustified
    BudgetIsShared
    DelaysAreExact
    BackoffNeverShortens
PROPERTIES
    ExecuteReturns
