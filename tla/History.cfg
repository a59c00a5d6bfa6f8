SPECIFICATION HistorySpec
CONSTANTS
    Fetches = {t1}
    Limit = 3
    MaxBytes = 9
    Cost <- MCCost
    MaxPosts = 5
INVARIANTS
    HistoryLegal
    ClearedGone
CHECK_DEADLOCK FALSE
