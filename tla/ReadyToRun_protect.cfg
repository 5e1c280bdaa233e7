SPECIFICATION Spec
CONSTANTS
    t1 = t1
    t2 = t2
    t3 = t3
    Tasks = {t1, t2}
    Idle = Idle
    Prios = {1, 2}
    Protocols = {"none", "inherit", "protect"}
    Slice = 1
    MaxLock = 1
    Watched = {t1}
PROPERTIES
    UnlockBalanced
