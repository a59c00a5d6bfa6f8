SPECIFICATION ProcessSpec
CONSTANTS
    v1 = v1
    v2 = v2
    empty = empty
    junk = junk
    None = None
    Versions <- AllVersions
    Valid <- ValidVersions
    Usable <- UsableVersions
    Selects <- SelectsVersions
    Processes = {p1, p2}
SYMMETRY Symmetry
INVARIANTS
    AnswerCurrent
PROPERTIES
    CleanExit
