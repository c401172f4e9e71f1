SPECIFICATION Spec
CONSTANTS
    None = none
    Ttl = 3
    FailTtl = 2
    Floor = 1
    Timeout = 2
    Recheck = 4
    MaxTime = 7
INVARIANTS AnswersAreRecent ApprovalIsSeen
PROPERTY StoreMovesForward
CHECK_DEADLOCK FALSE
