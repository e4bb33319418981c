SPECIFICATION Spec
CONSTANTS
    Tabs = {a}
    Faulty = "primary"
    MaxRequests = 3
CHECK_DEADLOCK FALSE
INVARIANTS TypeOK UncertainStaysLocked OneRequestOut AskedWhenReady ProofIsReal
