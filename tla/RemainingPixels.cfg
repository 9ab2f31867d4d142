CONSTANTS
    a = a
    b = b
    Hosts = {a, b}
    NumPipelines <- OnePipelineEach
    ProductionTime <- EquallyFast
    NumPixels = 2
    ChunkMin = 1
    ChunkMax = 1
    UIntMod = 16
    NumTags = 3
    MaxCrashes = 1
    RefillPolicy = 0
    Decay = 10000
    NoHost = NoHost
SPECIFICATION FairSpec
PROPERTY
    RemainingPixelsAreSent
CHECK_DEADLOCK FALSE
