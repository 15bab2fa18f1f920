CONSTANTS
    A = A
    B = B
    D = D
    c1 = c1
    c2 = c2
    Name = {A, B, D}
    Client = {c1, c2}
    None = None
    PipeCap = 1
    MaxIncidents = 1
    MaxInstances = 4
    ModelsMax = 1
    Cached = {D}
    Programs <- Workloads
    FirstSources <- Sources
SPECIFICATION FairSpec
INVARIANTS CapacityKept ServersAreManaged MarksMeanInstances
PROPERTIES RouterServes
CHECK_DEADLOCK FALSE
