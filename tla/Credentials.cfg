SPECIFICATION FairSpec
CONSTANTS
    Callers = {c1, c2}
    MaxLogins = 2
    MaxTurns = 1
INVARIANTS
    NoReplay
PROPERTIES
    SessionKept
    LockComesFree
