\* A schedule that is over stops.
SPECIFICATION SpecSchedules
CONSTANTS
    SetA = SetA
    SetB = SetB
    SetC = SetC
    None = None
    Sets = {SetA, SetB, SetC}
    Control <- MCControl
    MaxChanges = 2
    MaxRuns = 15
    Programs <- MCPrograms
INVARIANTS
    FollowsControl
PROPERTIES
    ControlEnds
    CpuSafe
CHECK_DEADLOCK FALSE
