SPECIFICATION FairSpec
CONSTANTS
    Budget = 5
    Slippage = 50
    MaxRuns = 2
CHECK_DEADLOCK FALSE
INVARIANTS TypeOK LinesMatch OrdersAuthorized ReceiptsTrue
PROPERTIES RunsEnd
