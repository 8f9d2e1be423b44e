SPECIFICATION SyncSpec
CONSTANTS
    User = {t1, t2}
    NoUser = NoUser
    MaxCounter = 4
INVARIANTS
    MutualExclusion
CHECK_DEADLOCK FALSE
