SPECIFICATION FairSpec
CONSTANTS
    Harts = {h1, h2}
    Procs = {p0, p1, p2}
    Idle = p0
    First = p1
    Sems = {s1}
    MaxValue = 0
    NoHart = NoHart
    NoProc = NoProc
    NoSem = NoSem
PROPERTIES ReadyRuns WaitEnds
