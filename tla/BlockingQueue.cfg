CONSTANTS
    p1 = p1
    p2 = p2
    c1 = c1
    c2 = c2
    Producers <- TwoProducers
    Consumers <- TwoConsumers
    Capacity = 2
    MaxPuts = 2
    NoThread = NoThread
SPECIFICATION FairSpec
INVARIANTS
    NoLostWakeup
PROPERTIES
    ImplementsChannel
    EverythingIsTaken
