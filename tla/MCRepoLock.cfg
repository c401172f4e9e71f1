SPECIFICATION FairLockSpec
CONSTANTS
    Tasks = {t1, t2, t3}
    Keys = {k1, k2}
    NoTask = NoTask
INVARIANTS MutualExclusion OneChainPerKey
PROPERTIES EveryCallSettles ServesInCallOrder
