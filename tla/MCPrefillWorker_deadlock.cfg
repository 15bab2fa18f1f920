CONSTANTS
    t1 = t1  t2 = t2  t3 = t3
    NoTask = NoTask
    Task = {t1}
    IdSlot <- AnySlot
    Worker = {w1}
    Eligible = {t1}
    MayCancel = {}
    MaySleep = TRUE
    MaySleepAtWork = TRUE
SPECIFICATION FairSpec
PROPERTIES DestroyEnds
CHECK_DEADLOCK FALSE
