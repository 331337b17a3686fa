------------------------ MODULE MCPrecompiledPolicy ------------------------
(* TLC harness for PrecompiledPolicy::new: a release-candidate server      *)
(* (1.6.2-4+1) loads every policy whose metadata and I/O outcomes lie in   *)
(* the bounds, and the outcome is compared with the spec (section 4.4,    *)
(* section 8 item 1).                                                       *)
EXTENDS PrecompiledPolicy

Version(maj, min, pat, pre, bld) ==
    [major |-> maj, minor |-> min, patch |-> pat, pre |-> pre, build |-> bld]

MCCargoPkgVersion == Version(1, 6, 2, 4, 1)

MCMinVersions ==
    {Version(maj, min, pat, pre, bld) :
        maj \in 0..2, min \in 5..7, pat \in {0, 3}, pre \in {0, 1}, bld \in {0, 1}}

VARIABLES metadata, readOk, parseOk, precompileOk, result

vars == <<metadata, readOk, parseOk, precompileOk, result>>

Init ==
    /\ metadata \in Metadata
    /\ readOk \in BOOLEAN
    /\ parseOk \in BOOLEAN
    /\ precompileOk \in BOOLEAN
    /\ result = "pending"

Load ==
    /\ result = "pending"
    /\ result' = LoadResult(readOk, metadata, parseOk, precompileOk)
    /\ UNCHANGED <<metadata, readOk, parseOk, precompileOk>>

Spec == Init /\ [][Load]_vars

(* The spec's rule: the declared minimum platform (major, minor) is at     *)
(* most the running (major, minor), and a waPC policy declares protocol    *)
(* V1; other modes ignore the protocol version.                            *)
MinorAtMost(a, b) == a.major < b.major \/ (a.major = b.major /\ a.minor <= b.minor)
SpecAccepts(m) ==
    /\ m.minimumKubewardenVersion # NoMinVersion =>
          MinorAtMost(m.minimumKubewardenVersion, CargoPkgVersion)
    /\ m.executionMode = "kubewarden_wapc" => m.protocolVersion = "v1"

(* PrecompiledPolicy::new loads a policy exactly when its file reads, its  *)
(* metadata parses, precompilation succeeds and the spec accepts its       *)
(* minimum version and protocol version, whatever the patch, pre-release   *)
(* and build parts of either version.                                      *)
LoadMatchesSpec ==
    result # "pending" =>
        (result = "ok" <=> readOk /\ parseOk /\ precompileOk /\ SpecAccepts(metadata))

=============================================================================
