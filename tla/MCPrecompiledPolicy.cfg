CONSTANTS
    NoMinVersion = NoMinVersion
    NoProtocol = NoProtocol
    CargoPkgVersion <- MCCargoPkgVersion
    MinVersions <- MCMinVersions

SPECIFICATION Spec

\* Loading a policy is one call that returns: the harness stops after it.
CHECK_DEADLOCK FALSE

INVARIANT LoadMatchesSpec
