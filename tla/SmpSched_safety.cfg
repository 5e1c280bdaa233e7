SPECIFICATION Spec
CONSTANTS
    NCPUS = 2
    t1 = t1
    t2 = t2
    t3 = t3
    Tasks = {t1, t2, t3}
    Null = Null
    Prios = {1, 2}
    Masks <- BothOrFirst
    Reprio = {t1}
    Stoppable = {t1}
    Lockers = {t2, t3}
    RobinTasks = {t1}
    StuckMoves = FALSE
    MaxStops = 2
SYMMETRY Symmetry
INVARIANTS
    ListsConsistent
    NotForgotten
    StoppedHere
PROPERTIES
    LockKeepsCpu
