CONSTANTS
    k1 = k1
    w1 = w1
    w2 = w2
    Kinds <- MCKinds
    Workers <- MCWorkers
    AllowedResources <- MCAllowedResources
    Discoverable <- MCKinds
    MaxChanges = 2
    ClientInitialized = TRUE
    BusCapacity = 2

SPECIFICATION TaskSpec

PROPERTY ChangeDetectionComplete
