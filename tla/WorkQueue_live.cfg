SPECIFICATION FairSpec
CONSTANTS
    NThreads = 2
    Clients = {c1}
    Works = {a}
    Null = Null
    Delays = {0, 1}
    SyncCallers = {c1, 1}
    MaxSpin = 1
    MaxLate = 1
    Horizon = 2
    SemCap = 1
PROPERTIES
    WorkPerformed
    CancelReturns
    FreeReturns
