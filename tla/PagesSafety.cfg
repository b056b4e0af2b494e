SPECIFICATION Spec
CONSTANTS
    Harts = {h1, h2}
    PageNum = 8
    Reserved = 1
    MaxRequest = 3
SYMMETRY Symmetry
INVARIANTS TypeOK RunsApart OnePageOneOwner FlagsTell PageNumCounts
PROPERTIES ImplementsPool
