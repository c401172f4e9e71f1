SPECIFICATION Spec
CONSTANTS
    Calls = {c1, c2}
    LockAttempts = 3
    LockStale = 1
    Tokens = {k1, k2}
    Passwords = {first_password, second_password}
    MaxFails = 2
    BaseLock = 1
    MaxLock = 2
    Forget = 2
    SessionTtl = 1
    Limit = 1
    LastTick = 3
    Reviews = {v1}
    CliTimeout = 1
    ReadingTtl = 1
    StaleAfter = 3
    MaxTime = 2
    MaxChanges = 1
    Resumes = {r1, r2, r3}
    MaxLines = 3
    ProjectPaths <- TwoPaths
    UserPaths <- OnePath
INVARIANTS WrittenStays UnlockIsEarned AdmittedOnTrueReadings NoteIsOfItsResume AgentIsHeard BriefedByTheHost
CHECK_DEADLOCK FALSE
