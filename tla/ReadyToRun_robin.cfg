SPECIFICATION FairSpec
CONSTANTS
    t1 = t1
    t2 = t2
    t3 = t3
    Tasks = {t1, t2, t3}
    Idle = Idle
    Prios = {1}
    Protocols = {"none"}
    Slice = 1
    MaxLock = 1
    Watched = {t1}
PROPERTIES
    ReadyTaskRuns
