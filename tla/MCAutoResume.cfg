SPECIFICATION FairSpec
CONSTANTS
    Prs = {p1}
    None = none
    MaxPush = 2
    Skew = TRUE
    Faults = {"crash", "delete"}
INVARIANTS NoPushForgotten OncePerHead
PROPERTY PushIsFollowedUp
CHECK_DEADLOCK FALSE
