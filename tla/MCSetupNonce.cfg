SPECIFICATION Spec
CONSTANTS
    Tabs = {a, b}
    Feeds = {feed0}
    Faulty = "none"
    MaxTx = 2
    MaxNonce = 2
CHECK_DEADLOCK FALSE
INVARIANTS UncertainKeepsNonce
