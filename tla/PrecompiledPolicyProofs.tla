----------------------- MODULE PrecompiledPolicyProofs -----------------------
(***************************************************************************)
(* Proofs about PrecompiledPolicy::new for every running version and every *)
(* declared minimum version: a policy loads exactly when the spec's        *)
(* (major, minor) rule and protocol rule accept it and its I/O succeeds.   *)
(***************************************************************************)
EXTENDS MCPrecompiledPolicy, TLAPS

USE PrecompiledPolicyAssumption

(* Once both sides are cut to (major, minor), semver's order is the order *)
(* of (major, minor): patch, pre-release and build no longer matter.       *)
LEMMA SanitizedOrder ==
    ASSUME NEW v \in MinVersions
    PROVE  ~VersionLess(KubewardenVersion, Sanitized(v)) <=> MinorAtMost(v, CargoPkgVersion)
<1>1. v \in SemVer /\ CargoPkgVersion \in SemVer
  OBVIOUS
<1>2. ~PreLess(0, 0)
  BY DEF PreLess
<1>3. QED
  BY <1>1, <1>2 DEF VersionLess, KubewardenVersion, Sanitized, MinorAtMost, SemVer

(* has_minimum_kubewarden_version accepts exactly the metadata the spec's *)
(* version rule accepts.                                                   *)
LEMMA MinimumVersionDecision ==
    ASSUME NEW m \in Metadata
    PROVE  HasMinimumKubewardenVersion(m) <=>
              (m.minimumKubewardenVersion # NoMinVersion =>
                  MinorAtMost(m.minimumKubewardenVersion, CargoPkgVersion))
<1>1. CASE m.minimumKubewardenVersion = NoMinVersion
  BY <1>1 DEF HasMinimumKubewardenVersion
<1>2. CASE m.minimumKubewardenVersion # NoMinVersion
  <2>1. m.minimumKubewardenVersion \in MinVersions
    BY <1>2 DEF Metadata
  <2>2. QED
    BY <1>2, <2>1, SanitizedOrder DEF HasMinimumKubewardenVersion
<1>3. QED
  BY <1>1, <1>2

(* The outcome of PrecompiledPolicy::new is "ok" exactly when the file     *)
(* reads, the metadata parses, precompiling succeeds and the spec accepts  *)
(* the metadata.                                                           *)
LEMMA LoadDecision ==
    ASSUME NEW m \in Metadata, NEW r \in BOOLEAN, NEW p \in BOOLEAN, NEW c \in BOOLEAN
    PROVE  LoadResult(r, m, p, c) = "ok" <=> r /\ p /\ c /\ SpecAccepts(m)
<1>1. HasValidProtocolVersion(m) <=>
        (m.executionMode = "kubewarden_wapc" => m.protocolVersion = "v1")
  BY DEF HasValidProtocolVersion
<1>2. QED
  BY <1>1, MinimumVersionDecision DEF LoadResult, SpecAccepts

-----------------------------------------------------------------------------
(* The harness's inductive invariant: the inputs stay in their domains and *)
(* a result, once there, is the outcome of PrecompiledPolicy::new.          *)
IInv ==
    /\ metadata \in Metadata
    /\ readOk \in BOOLEAN
    /\ parseOk \in BOOLEAN
    /\ precompileOk \in BOOLEAN
    /\ result # "pending" => result = LoadResult(readOk, metadata, parseOk, precompileOk)

LEMMA InitIInv == Init => IInv
BY DEF Init, IInv

LEMMA NextIInv == IInv /\ [Load]_vars => IInv'
BY DEF IInv, Load, vars

(* A policy is loaded exactly when its I/O and precompilation succeed and  *)
(* its declared minimum (major, minor) and protocol version satisfy the    *)
(* spec, for every running version, pre-releases included.                *)
THEOREM LoadSound == Spec => []LoadMatchesSpec
<1>1. IInv => LoadMatchesSpec
  BY LoadDecision DEF IInv, LoadMatchesSpec
<1>2. QED
  BY InitIInv, NextIInv, <1>1, PTL DEF Spec

=============================================================================
