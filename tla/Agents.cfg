SPECIFICATION Spec
CONSTANTS
    Seed = assistant
    Names = {assistant, n1, n2}
    Sessions = {s1, s2}
    MaxCommands = 4
SYMMETRY Symmetry
CHECK_DEADLOCK FALSE
INVARIANTS
    AgentKept
PROPERTIES
    EditKept
