SPECIFICATION Spec
CONSTANTS
    o1 = o1
    o2 = o2
    c1 = c1
    c2 = c2
    Orders = {o1, o2}
    Sparse = {o1}
    SceneId <- OwnId
    Clients = {c1}
    ClientOf <- SameClient
    Master = master
    Pipelines = {1, 2}
    QDepth = 6
    PipeDepth = 1
    MaxRequests = 4
    Quitters = {}
    None = none
INVARIANTS
    NobodyWaitsInVain
CHECK_DEADLOCK FALSE
