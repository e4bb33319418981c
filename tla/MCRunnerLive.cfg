SPECIFICATION FairSpec
CONSTANTS
    Hash = {h1}
    NoHash = NoHash
    Slot = {request}
    Monitor = Monitor
    JournalCapacity = 2
    DeadlineBlocks = 2
    MaxHeight = 3
PROPERTIES BoundJobsProved
