CONSTANTS
    a = a
    b = b
    Hosts = {a, b}
    NumPipelines <- ThreePipelinesOnA
    ProductionTime <- BTakesTwice
    NumPixels = 3
    ChunkMin = 1
    ChunkMax = 1
    UIntMod = 16
    NumTags = 6
    MaxCrashes = 1
    RefillPolicy = 1
    Decay = 10000
    NoHost = NoHost
SPECIFICATION FairSpec
INVARIANTS
    TypeOK
    FinishedOnlyWhenShipped
    CleanupAfterWork
    JobsDisjoint
    TagsKeptWhileInUse
    AnswersBeforeException
    ClosedRefillIsReported
    NoFaultWithoutFailure
    TwoRequestsPerPipeline
PROPERTIES
    ShippedOnce
    SceneCompletes
CHECK_DEADLOCK FALSE
