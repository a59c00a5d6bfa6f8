SPECIFICATION FairSpec
CONSTANTS
    Messages = {m1, m2, m3}
    Replayed = m1
    MaxDeliveries <- MCDeliveries
    Capacity = 2
    ReplayWindow = 2
INVARIANTS
    HandledOnce
    ExitHonest
PROPERTIES
    ImplementsIngress
    StopExits
