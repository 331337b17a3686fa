CONSTANTS
    s1 = s1
    s2 = s2
    Signers <- MCSigners
    MaxSignatures = 2
    MaxMatches = 2
    NotSet = NotSet

SPECIFICATION Spec

\* A verification is one call that returns: the harness stops after it.
CHECK_DEADLOCK FALSE

INVARIANT VerifyAgreesWithSpec
