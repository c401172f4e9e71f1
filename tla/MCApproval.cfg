CONSTANTS
    None = None
    j1 = j1
    j2 = j2
    owner = owner
    Jobs = {j1, j2}
    Owner = owner
    Casts <- AllCasts
    Checks = {c1, c2}
    AutoApprove = TRUE
    CommentLimit = 1
    ReviewLimit = 1
    MaxHead = 2
    MaxPosts = 2
    MaxRuns = 2
SPECIFICATION Spec
INVARIANT ConfirmedIsPosted
PROPERTIES AutoApprovalIsVerified OncePerCommit GateJudgesWhatItReads OutcomeIsHonest
CHECK_DEADLOCK FALSE
