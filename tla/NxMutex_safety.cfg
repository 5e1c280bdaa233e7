SPECIFICATION Spec
CONSTANTS
    Threads = {t1, t2, t3}
    Prios = {1, 2}
    NoHolder = NoHolder
    MReset = MReset
    None = None
    AsyncCancel = FALSE
    Robust = FALSE
    Watched = {}
SYMMETRY Symmetry
CHECK_DEADLOCK FALSE
INVARIANTS
    MutualExclusion
    BlockingBitExact
    NoLostWaiter
    WatchdogScoped
PROPERTIES
    HandsToHighest
    NoBarging
    ImplementsMutex
