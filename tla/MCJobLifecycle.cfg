SPECIFICATION FairSpec
CONSTANTS
    Jobs = {j1, j2}
    Handlers = {h1, h2}
    NoJob = NoJob
    Limits = {1, 2}
    InitialLimit = 1
    MaxCopies = 2
INVARIANTS ActiveIsHeld HeldOnceUnlessRaced
PROPERTY QueuedEnds
