SPECIFICATION BudgetSpec
CONSTANTS
    Personas = {p1}
    Keys = {k1, k2}
    Heads = {1, 362}
    Clips = {0, 120}
    Tails = {0, 90}
    Proses = {3400, 3700, 3900}
    Durations = {8}
    V2TextLimit = 4000
    RowGrowthReserve = 140
    DetailMax = 120
    MaxRows = 3
SYMMETRY Symmetry
INVARIANTS Postable
CHECK_DEADLOCK FALSE
