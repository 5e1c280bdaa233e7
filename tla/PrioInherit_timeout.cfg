SPECIFICATION Spec
CONSTANTS
    Tasks = {1, 2, 3, 4, 5}
    Base <- SharedPrios
    Mutexes = {1, 3}
    Counters = {2}
    Units = 2
    NHolders = 4
    Uses <- TimedMutex
    None = None
INVARIANT
    BoostedAfterTimeout
