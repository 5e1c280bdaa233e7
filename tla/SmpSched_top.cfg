SPECIFICATION Spec
CONSTANTS
    NCPUS = 2
    t1 = t1
    t2 = t2
    t3 = t3
    Tasks = {t1, t2, t3}
    Null = Null
    Prios = {1, 2}
    Masks <- AllCpus
    Reprio = {}
    Stoppable = {}
    Lockers = {t1, t2, t3}
    RobinTasks = {}
    StuckMoves = FALSE
    MaxStops = 0
INVARIANT
    TopRun
