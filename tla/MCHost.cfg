SPECIFICATION HostSpec
CONSTANTS
    t1 = t1
    t2 = t2
    s1 = s1
    s2 = s2
    Parts <- AllParts
    Tokens <- MCTokens
    NoToken = NoToken
    Sources <- MCSources
    MaxFaults = 2
    MaxHostChanges = 2
    MaxPending = 2
    MaxPendingProcs = 1
    MaxTicks = 3
    MaxOutages = 1
    MaxRestarts = 2
    MaxAttempts = 2
    MaxCrashes = 1
    MaxRows = 4
    MaxQueued = 2
    MaxEngineStops = 2
    MaxDaemonDeaths = 1
    Width = 100
    MaxClock = 3
    MaxResets = 1
INVARIANTS
    HostTypeOK
    IdentityOutlivesToken
    SamplesAccountedFor
    ProgramIsWhole
    RowsInOrderOnce
    RatesAreMeasured
PROPERTIES
    ListConverges
    SamplesArrive
    RowsAreEvaluated
CHECK_DEADLOCK FALSE
