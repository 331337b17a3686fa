CONSTANTS
    c1 = c1
    c2 = c2
    o1 = o1
    r1 = r1
    NoHolder = NoHolder
    NoEntry = NoEntry
    Callers <- MCCallers
    Objects <- MCObjects
    Reviews <- MCReviews
    TTL = 2
    MaxTime = 3
    MaxChanges = 1
    ClientInitialized = TRUE

SPECIFICATION Spec

INVARIANT TypeOK
INVARIANT UpstreamCoalesced
PROPERTY CallsReturn
PROPERTY MemoSpec
