SPECIFICATION FairSpec
CONSTANTS
    Runs = {r1, r2}
    Jobs = {j1, j2}
    Repo = repo
    Limit = 2
    Racing = FALSE
INVARIANTS MissedAgentsAreLate WorktreeIsPrivate
PROPERTY EveryRunSettles
CHECK_DEADLOCK FALSE
