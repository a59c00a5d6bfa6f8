SPECIFICATION Spec
CONSTANTS
    Agents = {a1, a2, a3}
    Calls = {c1, c2}
    Top = Top
    Nobody = Nobody
    Mentions <- MCMentions
    Reentrant = FALSE
    MaxChunks = 2
INVARIANTS
    KnowsOwner
    HonestOutcomes
    NothingPending
    EveryTurnAnswered
PROPERTIES
    AnswerBelowRow
SYMMETRY Symmetry
