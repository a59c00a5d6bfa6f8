SPECIFICATION Spec
CONSTANTS
    Personas = {p1, p2}
    Keys = {k1}
    NoKey = NoKey
    Results = {"ok"}
    Faults = {"failed", "applied"}
    AwaitsAfterSeal = FALSE
    HasBarrier = FALSE
    Capacity <- TwoThenOne
    MaxFaults = 2
SYMMETRY Symmetry
INVARIANTS PostOrder UnpostedKept SealShown NothingDropped
