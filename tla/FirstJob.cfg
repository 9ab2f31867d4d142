CONSTANTS
    a = a
    b = b
    Hosts = {a, b}
    NumPipelines <- TwoPipelinesOnA
    ProductionTime <- EquallyFast
    NumPixels = 5
    ChunkMin = 1
    ChunkMax = 1
    UIntMod = 16
    NumTags = 6
    MaxCrashes = 1
    RefillPolicy = 0
    Decay = 10000
    NoHost = NoHost
SPECIFICATION Spec
CONSTRAINT NothingRead
INVARIANTS
    PendingNeverTooLow
PROPERTIES
    OnlyFirstJobForgotten
CHECK_DEADLOCK FALSE
