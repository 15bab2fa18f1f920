CONSTANTS
    r1 = r1  r2 = r2  r3 = r3  r4 = r4
    t1 = t1  t2 = t2  t3 = t3  t4 = t4
    NoTask = NoTask
    Request = {r1, r2, r3}
    Task = {t1, t2, t3, t4}
    ResultTask = {t1, t2, t3, t4}
    TasksOf <- MixTasks
    ChildTasks <- ParentT2
    Kind <- MixKind
    IdSlot <- MixIds
    BatchGroup <- TwoGroups
    NSlots = 2
    NPrompt = 1
    NPredict = 2
    Streaming = {t1}
    Rejected = {t3}
    Refusable = {t2}
    DecodeMayFail = TRUE
    MayLeave = {r1, r2}
SPECIFICATION Spec
INVARIANTS TaskInOnePlace ResultsHaveReaders OnlyOvertakenSurvive StrandedChildIsCancelled
PROPERTIES KeepsItsPromise
