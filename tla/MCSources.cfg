CONSTANTS
    h1 = h1
    h2 = h2
    pem1 = pem1
    der1 = der1
    junk = junk
    empty = empty
    p1 = p1
    p2 = p2
    Unreadable = Unreadable
    Hosts <- MCHosts
    Bytes <- MCBytes
    Paths <- MCPaths
    PemData <- MCPemData
    DerData <- MCDerData
    PemContents <- MCPemContents
    PemRest <- MCPemRest
    FileContent <- MCFileContent
SPECIFICATION Spec
INVARIANT ReadSourcesMatchesSpec
CHECK_DEADLOCK FALSE
