SPECIFICATION Spec
CONSTANTS
    t1 = t1
    t2 = t2
    t3 = t3
    Threads = {t1, t2, t3}
    Prio <- TwoPrios
    None = None
    Uses <- FastAndSlow
    StopSignal = FALSE
    InitCounts = {0, 1}
    ResetCounts = {0, 1}
    CountCap = 2
SYMMETRY Symmetry
INVARIANTS
    TypeOK
    CountIsWaiters
    SignalNotMissed
PROPERTIES
    UnitsConserved
