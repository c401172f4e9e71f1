SPECIFICATION Spec
CONSTANTS
    Mentions = {m1, m2}
    Prs = {p1, p2}
    None = None
    Overlap = 1
    Day = 2
    MaxTime = 3
    Faults = {"throw", "crash"}
INVARIANTS NothingLeftBehind AnsweredOnce
CHECK_DEADLOCK FALSE
SYMMETRY Symmetry
