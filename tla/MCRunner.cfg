SPECIFICATION Spec
CONSTANTS
    Hash = {h1, h2}
    NoHash = NoHash
    Slot = {request}
    Monitor = Monitor
    JournalCapacity = 2
    DeadlineBlocks = 2
    MaxHeight = 4
SYMMETRY Interchangeable
INVARIANTS TypeOK JobsDistinct FrozenUntilAcknowledged VerifiedMeansExecuted
PROPERTIES JournalIsEvidence NoPlanAfterFailure
