SPECIFICATION OnboardSpec
CONSTANTS
    Commands = {c1, c2}
    Wizards = {c1}
    MaxPids = 2
INVARIANTS
    OneSupervisor
PROPERTIES
    GreenLight
    OrgClosed
