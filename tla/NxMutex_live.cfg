SPECIFICATION FairSpec
CONSTANTS
    Threads = {t1, t2, t3}
    Prios = {1}
    NoHolder = NoHolder
    MReset = MReset
    None = None
    AsyncCancel = FALSE
    Robust = TRUE
    Watched = {t1}
CHECK_DEADLOCK FALSE
PROPERTIES
    TimedLockReturns
    WaitersServed
