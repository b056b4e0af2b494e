SPECIFICATION FairSpec
CONSTANTS
    Procs = {p1, p2, p3}
    Creator = p1
    HartNum = 1
    Size = 2
    Signals = {}
    MaxBytes = 3
    MaxCount = 2
PROPERTIES SleeperServed EndReached
CHECK_DEADLOCK FALSE
