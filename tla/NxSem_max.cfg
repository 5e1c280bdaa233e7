SPECIFICATION Spec
CONSTANTS
    t1 = t1
    t2 = t2
    t3 = t3
    Threads = {t1, t2}
    Prio <- EqualPrios
    None = None
    Uses <- OnlyCapped
    StopSignal = FALSE
    InitCounts = {0}
    ResetCounts = {}
    CountCap = 2
INVARIANT
    MaxRespected
