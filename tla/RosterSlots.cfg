SPECIFICATION Spec
CONSTANTS
    Slots = {s1, s2}
    Commands = {c1, c2}
    Pids = {p1, p2}
    MaxStarts = 2
    MaxFaults = 1
    FastRecycle = FALSE
    Nothing = Nothing
SYMMETRY Symmetry
INVARIANTS Tracked NoDoubleRun OnlyOwnSignalled OutcomeHonest SweptClean
CHECK_DEADLOCK FALSE
