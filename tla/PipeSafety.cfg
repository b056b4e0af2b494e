SPECIFICATION Spec
CONSTANTS
    Procs = {p1, p2, p3}
    Creator = p1
    HartNum = 2
    Size = 2
    Signals = {"kill", "other"}
    MaxBytes = 2
    MaxCount = 1
ACTION_CONSTRAINT FewKills
SYMMETRY Symmetry
INVARIANTS TypeOK SleepersMatch CreditPerByte RefsCountEnds SelectTellsTruth
PROPERTIES ImplementsChannel
CHECK_DEADLOCK FALSE
