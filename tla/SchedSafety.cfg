SPECIFICATION Spec
CONSTANTS
    Harts = {h1, h2}
    Procs = {p0, p1, p2}
    Idle = p0
    First = p1
    Sems = {s1, s2}
    MaxValue = 1
    NoHart = NoHart
    NoProc = NoProc
    NoSem = NoSem
SYMMETRY Symmetry
INVARIANTS TypeOK LockDiscipline Ownership StatusMatches CreditNeverForged
PROPERTIES WakeInOrder CountingSemaphores
