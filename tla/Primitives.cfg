\* Threads that all wait with nobody left to notify stay asleep, and threads
\* that have made their calls stop.
SPECIFICATION SpecParts
CONSTANTS
    Threads = {t1, t2, t3}
    MaxSpurious = 1
    Recorders = {t1, t2}
    MaxItem = 2
    MaxCalls = 3
    Writers = {t1, t2, t3}
    Workers = {t1, t2}
    MaxId = 2
    Kinds = {"find", "same", "merge", "copy"}
    MaxReset = 1
    NoThread = NoThread
    Nobody = Nobody
    Garbage = Garbage
    BaseLen = 1
    MaxLen = 2
    MaxWrites = 1
INVARIANTS
    NoSleeperMissed
    NoFalseWake
    ListSafe
    WriterSafe
PROPERTIES
    ForestSafe
    EveryCallReturns
CHECK_DEADLOCK FALSE
