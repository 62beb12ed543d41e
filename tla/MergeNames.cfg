\* A worker whose call returned stops.
SPECIFICATION SpecApart
CONSTANTS
    Threads = {t1, t2, t3}
    MaxSpurious = 0
    Recorders = {t1}
    MaxItem = 0
    MaxCalls = 0
    Writers = {t1}
    Workers = {t1, t2, t3}
    MaxId = 3
    Kinds = {"merge"}
    MaxReset = 0
    NoThread = NoThread
    Nobody = Nobody
    Garbage = Garbage
    BaseLen = 1
    MaxLen = 2
    MaxWrites = 1
INVARIANT
    MergeNamesClasses
CHECK_DEADLOCK FALSE
