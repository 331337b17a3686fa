------------------------- MODULE PrecompiledPolicy -------------------------
(***************************************************************************)
(* Loading a policy module in policy-server (evaluation/                   *)
(* precompiled_policy.rs, PrecompiledPolicy::new): read the file, parse    *)
(* its metadata, check the minimum Kubewarden version and the protocol     *)
(* version, precompile, and hash the artifact.                             *)
(*                                                                         *)
(* Versions are semver records; a pre-release or build identifier is a     *)
(* positive number (0 is Prerelease::EMPTY / BuildMetadata::EMPTY), and    *)
(* identifiers of the same kind are ordered by their number.  Reading,     *)
(* parsing and precompiling may fail; the artifact and its hex SHA-256     *)
(* are model values.                                                       *)
(***************************************************************************)
EXTENDS Naturals

CONSTANTS
    CargoPkgVersion,    \* the policy-server's CARGO_PKG_VERSION
    MinVersions,        \* the minimum_kubewarden_version values a policy may declare
    NoMinVersion,       \* metadata without minimum_kubewarden_version
    NoProtocol          \* metadata without protocol_version

(* A semver::Version.                                                      *)
SemVer == [major : Nat, minor : Nat, patch : Nat, pre : Nat, build : Nat]

ExecutionModes == {"kubewarden_wapc", "opa", "opa_gatekeeper", "wasi"}
ProtocolVersions == {"v1", "unknown"}

ASSUME PrecompiledPolicyAssumption ==
    /\ CargoPkgVersion \in SemVer
    /\ MinVersions \subseteq SemVer
    /\ NoMinVersion \notin MinVersions
    /\ NoProtocol \notin ProtocolVersions

(* The metadata fields the load checks read.                               *)
Metadata == [executionMode : ExecutionModes,
             protocolVersion : ProtocolVersions \cup {NoProtocol},
             minimumKubewardenVersion : MinVersions \cup {NoMinVersion}]

(* semver::Version's order: major, minor, patch, then a pre-release sorts  *)
(* below the release, then build metadata (empty first).                   *)
PreLess(p, q) == p # 0 /\ (q = 0 \/ p < q)
VersionLess(a, b) ==
    \/ a.major < b.major
    \/ a.major = b.major /\ a.minor < b.minor
    \/ a.major = b.major /\ a.minor = b.minor /\ a.patch < b.patch
    \/ /\ <<a.major, a.minor, a.patch>> = <<b.major, b.minor, b.patch>>
       /\ \/ PreLess(a.pre, b.pre)
          \/ a.pre = b.pre /\ a.build < b.build

(* The (major, minor) of a version, patch, pre-release and build dropped.  *)
Sanitized(v) == [major |-> v.major, minor |-> v.minor, patch |-> 0, pre |-> 0, build |-> 0]

(* Mutant: the running version keeps its pre-release (v1.6.0-rc4 < v1.6.0). *)
KubewardenVersionUnsanitized ==
    [CargoPkgVersion EXCEPT !.patch = 0, !.build = 0]

(* The lazy_static KUBEWARDEN_VERSION: CARGO_PKG_VERSION with patch,      *)
(* pre-release and build cleared.                                          *)
KubewardenVersion == Sanitized(CargoPkgVersion)

(* has_minimum_kubewarden_version.                                         *)
HasMinimumKubewardenVersion(m) ==
    \/ m.minimumKubewardenVersion = NoMinVersion
    \/ ~VersionLess(KubewardenVersion, Sanitized(m.minimumKubewardenVersion))

(* has_valid_protocol_version: a waPC policy must declare protocol V1.     *)
HasValidProtocolVersion(m) ==
    m.executionMode = "kubewarden_wapc" => m.protocolVersion = "v1"

(* The outcome of PrecompiledPolicy::new for a file that reads (or not), *)
(* metadata that parses to m (or not) and a precompilation that succeeds  *)
(* (or not), with the checks in the code's order.                          *)
LoadResult(readOk, m, parseOk, precompileOk) ==
    IF ~readOk THEN "read_error"
    ELSE IF ~parseOk THEN "metadata_error"
    ELSE IF ~HasMinimumKubewardenVersion(m) THEN "version_error"
    ELSE IF ~HasValidProtocolVersion(m) THEN "protocol_error"
    ELSE IF ~precompileOk THEN "precompile_error"
    ELSE "ok"

=============================================================================
