CONSTANTS
    s1 = s1
    s2 = s2
    d1 = d1
    d2 = d2
    d3 = d3
    d4 = d4
    b1 = b1
    b2 = b2
    h1 = h1
    h2 = h2
    NotSet = NotSet
    NoDigest = NoDigest
    NoFile = NoFile
    Signers <- MCSigners
    Digests <- MCDigests
    Blobs <- MCBlobs
    Hexes <- MCHexes
    Sha256 <- MCSha256
    Manifest <- MCManifest
    SignedBy <- MCSignedBy
    Config <- MCAllOfConfig
    MaxSignatures = 2
    MaxMatches = 2
    MaxTagMoves = 2

SPECIFICATION Spec

\* `kwctl pull` with verification is one command: the flow stops once it
\* has accepted or rejected the policy.
CHECK_DEADLOCK FALSE

INVARIANT TypeOK
INVARIANT AcceptedFileIsVerified
INVARIANT MismatchOnlyOnChange
