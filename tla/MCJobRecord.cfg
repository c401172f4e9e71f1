SPECIFICATION Spec
CONSTANTS
    Pids = {p1, p2}
    NoPid = NoPid
    Absent = Absent
    Torn = Torn
    Garbled = Garbled
    MaxOps = 3
    InOrder = FALSE
INVARIANTS DiskCatchesUp RestartTakesOver
PROPERTY RestartKeepsReview
CHECK_DEADLOCK FALSE
