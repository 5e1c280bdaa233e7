SPECIFICATION Spec
CONSTANTS
    Threads = {t1, t2, t3}
    Prios = {1}
    NoHolder = NoHolder
    MReset = MReset
    None = None
    AsyncCancel = TRUE
    Robust = FALSE
    Watched = {}
CHECK_DEADLOCK FALSE
INVARIANT
    NoLostWaiter
