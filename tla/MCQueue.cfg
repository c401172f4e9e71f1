SPECIFICATION FairQueueSpec
CONSTANTS
    Jobs = {j1, j2, j3, j4}
    Limits = {1, 3}
    InitialLimit = 3
    MaxCopies = 2
    Unchecked = {j4}
INVARIANTS NoLostWakeup OneRunnerPerJob
PROPERTIES StartsWithinLimit WaitingIsStarted
