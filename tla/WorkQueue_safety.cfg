SPECIFICATION Spec
CONSTANTS
    NThreads = 2
    Clients = {c1, c2}
    Works = {a, b}
    Null = Null
    Delays = {0, 1}
    SyncCallers = {c1, c2, 1}
    MaxSpin = 2
    MaxLate = 1
    Horizon = 2
    SemCap = 2
SYMMETRY Symmetry
INVARIANTS
    QueueConsistent
    WakeupsSuffice
    WaitersCounted
    FreedUnused
PROPERTIES
    CancelledQuiet
