CONSTANTS
    a = a
    b = b
    Hosts = {a, b}
    NumPipelines <- TwoPipelinesOnA
    ProductionTime <- EquallyFast
    NX = 5
    NY = 2
    NumPixels = 10
    ChunkMin = 5
    ChunkMax = 5
    UIntMod = 16
    NumTags = 3
    MaxCrashes = 1
    RandomChunks = TRUE
    NoHost = NoHost
SPECIFICATION Spec
INVARIANTS
    TypeOK
    JobsTileImage
    WorkersProduceTheirJobs
    FinishedAfterWork
    TagsComeBack
PROPERTIES
    SceneCompletes
CHECK_DEADLOCK FALSE
