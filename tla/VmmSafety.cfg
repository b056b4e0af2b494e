CONSTANTS
    Procs = {p, q}
    Pages = {g1, g2, g3}
    Top = 4
    MapLow = 4
    MapTop = 5
    MaxBrk = 3
    MaxLen = 1
    MaxAreas = 1
    Data = {"data"}
    Careless = {}
    NoPte = NoPte
    Boot <- MCBoot
    Programs <- MCPrograms
    Prots <- MCProts
SPECIFICATION Spec
CONSTRAINT Small
SYMMETRY Symmetry
INVARIANTS
    TypeOK
    AreasApart
    PagesOwned
PROPERTIES
    ImplementsMemory
CHECK_DEADLOCK FALSE
