SPECIFICATION FairSpec
CONSTANTS
    Personas = {p1}
    Keys = {k1}
    NoKey = NoKey
    Results = {"ok", "failed"}
    Faults = {"failed", "raised"}
    AwaitsAfterSeal = TRUE
    HasBarrier = TRUE
    Capacity <- OneEach
    MaxFaults = 1
INVARIANTS BarrierCarries
PROPERTIES RowsOnlyResolve FinishEnds BarrierReleased
