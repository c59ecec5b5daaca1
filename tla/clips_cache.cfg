SPECIFICATION FairSpec
CONSTANTS
    Clips = {c1}
    Callers = {k1, k2}
    Jobs = {j1, j2}
    MaxRestarts = 1
    Early = TRUE
    None = None
INVARIANTS
    TypeOK
    ServedComplete
PROPERTIES
    CacheSpec
    PinnedIsKept
    EveryoneIsAnswered
CHECK_DEADLOCK FALSE
