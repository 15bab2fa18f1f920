CONSTANTS
    r1 = r1  r2 = r2  r3 = r3  r4 = r4
    t1 = t1  t2 = t2  t3 = t3  t4 = t4
    NoTask = NoTask
    Request = {r1, r2, r3, r4}
    Task = {t1, t2, t3, t4}
    ResultTask = {t1, t2, t3, t4}
    TasksOf <- SlotTasks
    ChildTasks <- NoChildren
    Kind <- SlotKind
    IdSlot <- SlotIds
    BatchGroup <- TwoGroups
    NSlots = 2
    NPrompt = 2
    NPredict = 1
    Streaming = {}
    Rejected = {}
    Refusable = {}
    DecodeMayFail = FALSE
    MayLeave = {}
SPECIFICATION FairSpec
INVARIANTS DeferredWaitsForBusySlot
PROPERTIES EveryRequestServed
