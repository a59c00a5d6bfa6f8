SPECIFICATION Spec
CONSTANTS
    t1 = t1
    t2 = t2
    a1 = a1
    a2 = a2
    e1 = e1
    e2 = e2
    high = high
    Turns = {t1, t2}
    Agents = {a1, a2}
    Nobody = Nobody
    Author <- MCAuthor
    Unsticks = {u1}
    Commands = {e1, e2}
    Effort <- MCEffort
    Unset = Unset
    Replies <- MCReplies
    Tooled = {t1}
    Texts <- MCTexts
    MaxChars = 10
    MaxFaults = 1
    MaxCrashes = 1
INVARIANTS
    RowJoinsFirst
    OneWebhook
    StickyFollows
    OverrideAgrees
    SplitsCarryTexts
