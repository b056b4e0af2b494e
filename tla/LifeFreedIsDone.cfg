SPECIFICATION Spec
CONSTANTS
    CpuN = 2
    Procs = {p0, p1, p2, p3}
    Idle = p0
    First = p1
    PidN = 3
    NoProc = NoProc
    AnyChild = AnyChild
CHECK_DEADLOCK FALSE
SYMMETRY Symmetry
INVARIANTS FreedIsDone
