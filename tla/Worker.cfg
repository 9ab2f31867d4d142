SPECIFICATION Spec
CONSTANTS
    o1 = o1
    o2 = o2
    c1 = c1
    c2 = c2
    Orders = {o1, o2}
    Sparse = {o2}
    SceneId <- OwnId
    Clients = {c1, c2}
    ClientOf <- OwnClient
    Master = master
    Pipelines = {1, 2}
    QDepth = 6
    PipeDepth = 1
    MaxRequests = 5
    Quitters = {c1}
    None = none
INVARIANTS
    TypeOK
    AnsweredOnce
    SegmentsReachTheirClient
    NobodyWaitsInVain
PROPERTIES
    EveryRequestAnswered
CHECK_DEADLOCK FALSE
