CONSTANTS
    k1 = k1
    k2 = k2
    w1 = w1
    w2 = w2
    Kinds <- MCKinds
    Workers <- MCWorkers
    AllowedResources <- MCAllowedResources
    Discoverable <- MCKinds
    MaxChanges = 1
    ClientInitialized = TRUE
    BusCapacity = 1

SPECIFICATION Spec

INVARIANT NoSendRejectedWhenFull
