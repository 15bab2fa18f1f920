CONSTANTS
    A = A
    B = B
    D = D
    c1 = c1
    c2 = c2
    Name = {A, D}
    Client = {c1, c2}
    None = None
    PipeCap = 1
    MaxIncidents = 0
    MaxInstances = 2
    ModelsMax = 0
    Cached = {D}
    Programs <- DeleteADownload
    FirstSources <- Sources
SPECIFICATION Spec
INVARIANT RemoveJoinsFreely
CHECK_DEADLOCK FALSE
