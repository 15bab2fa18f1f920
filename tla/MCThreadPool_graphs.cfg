CONSTANTS
    NThreads = 3
    Active = {1, 2, 3}
    Work <- MCWork
    Spread = 2
    Graphs = 2
    MayAbort = TRUE
    MayPause = TRUE
SPECIFICATION FairSpec
INVARIANTS NodesInOrder GraphIsComputed
PROPERTIES PoolServes
CHECK_DEADLOCK FALSE
