SPECIFICATION Spec
CONSTANTS
    Tab = {t1, t2}
    None = None
    NoHash = NoHash
    PlanLife = 1
    MaxTime = 2
    MaxNonce = 1
    MaxRequests = 1
PROPERTIES
    SavedHashKept
CHECK_DEADLOCK FALSE
