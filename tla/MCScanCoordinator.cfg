SPECIFICATION FairSpec
CONSTANTS
    r1 = r1
    r2 = r2
    r3 = r3
    yaraLoop = yaraLoop
    Requests <- MCRequests
    Types <- MCTypes
    RequestType <- MCRequestType
    RequestTrigger <- MCRequestTrigger
    Own <- MCOwn
    OwnType <- MCOwnType
    Available <- MCTypes
    Incremental <- MCTypes
    MaxIssued = 2
    MaxRestarts = 1
INVARIANTS
    TypeOK
    OneRunPerType
    NoStrandedRequest
    HeldOnce
    WaitingIsUnstarted
    RefusedNeverRuns
PROPERTIES
    ServiceSpec
    PendingIsServed
