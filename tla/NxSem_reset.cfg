SPECIFICATION Spec
CONSTANTS
    t1 = t1
    t2 = t2
    t3 = t3
    Threads = {t1, t2, t3}
    Prio <- EqualPrios
    None = None
    Uses <- OnlyFast
    StopSignal = FALSE
    InitCounts = {0}
    ResetCounts = {2}
    CountCap = 2
PROPERTY
    ResetKeepsPosts
