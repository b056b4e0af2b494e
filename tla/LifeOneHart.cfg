SPECIFICATION FairSpec
CONSTANTS
    CpuN = 1
    Procs = {p0, p1, p2, p3, p4}
    Idle = p0
    First = p1
    PidN = 4
    NoProc = NoProc
    AnyChild = AnyChild
CHECK_DEADLOCK FALSE
INVARIANTS FreedIsDone
PROPERTIES WaitReturns
