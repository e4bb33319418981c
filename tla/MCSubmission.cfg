SPECIFICATION FairSpec
CONSTANTS
    Tab = {t1, t2}
    None = None
    NoHash = NoHash
    PlanLife = 1
    MaxTime = 3
    MaxNonce = 1
    MaxRequests = 2
INVARIANTS
    TypeOK
    NoSecondLiveRequest
    LiveRequestIsMarked
PROPERTIES
    MarkersResolve
CHECK_DEADLOCK FALSE
