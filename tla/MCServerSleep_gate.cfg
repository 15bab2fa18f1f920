CONSTANTS
    Handler = {h1, h2, h3}
    Main = main
    AtBoundary = {TRUE, FALSE}
    SleepsOver = FALSE
    MayTerminate = TRUE
    MayTerminateEarly = FALSE
SPECIFICATION SleepFairSpec
INVARIANTS NoLostWakeup ModelIsThere
PROPERTIES GateOpens TerminateEnds EveryTaskProcessed
CHECK_DEADLOCK FALSE
