SPECIFICATION Spec
CONSTANTS
    t1 = t1
    t2 = t2
    t3 = t3
    Tasks = {t1, t2, t3}
    Idle = Idle
    Prios = {1, 2}
    Protocols = {"none", "inherit"}
    Slice = 2
    MaxLock = 2
    Watched = {t1}
SYMMETRY Symmetry
INVARIANTS
    ListsConsistent
    HighestRuns
PROPERTIES
    LockKeepsCpu
    UnlockBalanced
