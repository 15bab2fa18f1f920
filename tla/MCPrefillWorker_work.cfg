CONSTANTS
    t1 = t1  t2 = t2  t3 = t3
    NoTask = NoTask
    Task = {t1, t2, t3}
    IdSlot <- AnySlot
    Worker = {w1, w2}
    Eligible = {t1, t2}
    MayCancel = {t1, t2}
    MaySleep = TRUE
    MaySleepAtWork = FALSE
SPECIFICATION FairSpec
INVARIANTS TaskInOneHand CaughtNeverRuns
PROPERTIES EveryTaskAnswered DestroyEnds
