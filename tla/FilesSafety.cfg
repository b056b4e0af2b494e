CONSTANTS
    Procs = {p, q}
    HartNum = 1
    StdNum = 1
    SlotNum = 2
    MaxFd = 2
    Blocks = {b1, b2}
    Pipes = {c}
    Mounts = {root, m}
    Root = root
    Names = {m}
    Dev = dev
    NULL = NULL
    MaxOpen = 4
SPECIFICATION Spec
CONSTRAINT Small
SYMMETRY Symmetry
INVARIANTS
    TypeOK
    SlotsHaveOneOwner
    
PROPERTIES
    Isolated
CHECK_DEADLOCK FALSE
