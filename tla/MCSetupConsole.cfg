SPECIFICATION Spec
CONSTANTS
    Tabs = {a, b}
    Feeds = {feed0}
    Faulty = "primary"
    MaxTx = 3
    MaxNonce = 2
SYMMETRY Interchangeable
CHECK_DEADLOCK FALSE
INVARIANTS TypeOK OneDeployment DeploymentLocked RefreshLocked EvidenceIsReal Affordable
PROPERTIES ConfigIsReviewed
