CONSTANTS
    r1 = r1  r2 = r2  r3 = r3  r4 = r4
    t1 = t1  t2 = t2  t3 = t3  t4 = t4
    NoTask = NoTask
    Request = {r1, r2}
    Task = {t1, t4}
    ResultTask = {t1, t4}
    TasksOf <- PairTasks
    ChildTasks <- NoChildren
    Kind <- Completions
    IdSlot <- AnySlot
    BatchGroup <- OneGroup
    NSlots = 1
    NPrompt = 1
    NPredict = 1
    Streaming = {}
    Rejected = {}
    Refusable = {}
    DecodeMayFail = FALSE
    MayLeave = {r2}
SPECIFICATION Spec
INVARIANTS AbandonedWorkIsGone
