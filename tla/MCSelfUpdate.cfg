SPECIFICATION Spec
CONSTANTS
    toThree = toThree
    toTwo = toTwo
    Requests <- MCRequests
    Target <- MCTarget
    FirstVersion = 1
    MaxConfig = 2
    MaxCrashes = 1
    MaxFailedSaves = 1
INVARIANTS
    TypeOK
    AttemptOwnsReport
    ProgressIsResolvable
    LaunchIsPersisted
    SuccessIsReal
PROPERTIES
    RestartReportsOutcome
    NeverDowngraded
    LaunchedOnce
    ReportKept
