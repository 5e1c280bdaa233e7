SPECIFICATION FairSpec
CONSTANTS
    Threads = {t1, t2, t3, t4}
    NoHolder = NoHolder
    MaxNest = 2
    MaxUnits = 5
INVARIANTS
    Exclusion
    FieldsAgree
    NoLostWakeup
PROPERTIES
    Served
