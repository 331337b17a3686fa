--------------------------- MODULE PolicyVerifier ---------------------------
(***************************************************************************)
(* Verifying a policy pulled from an OCI registry (policy-fetcher,         *)
(* verify/mod.rs): Verifier::verify resolves the image tag, fetches the    *)
(* trusted signature layers of the digest it resolved to and checks them   *)
(* against the verification config, returning that digest; the caller     *)
(* then pulls the policy and calls verify_local_file_checksum with the     *)
(* verified digest, which fetches the manifest by that immutable digest    *)
(* and compares its only Wasm layer with the SHA-256 of the local file.   *)
(*                                                                         *)
(* Between the steps the registry may move the tag to another manifest    *)
(* and the local policy store may be modified by someone else.  Digests,   *)
(* blobs and signers are model values; a manifest is its list of layers;  *)
(* the SHA-256 of a blob is a constant injective map.                      *)
(***************************************************************************)
EXTENDS SignatureVerification

CONSTANTS
    Digests,        \* manifest digests present in the registry
    Blobs,          \* layer contents (a Wasm module, a config blob)
    Hexes,          \* hex digests
    Sha256,         \* Sha256[b]: the hex SHA-256 of blob b
    Manifest,       \* Manifest[d]: the layers of the image manifest with digest d
    SignedBy,       \* SignedBy[d]: signers of the trusted signature layers of d
    Config,         \* the LatestVerificationConfig the user passed
    MaxTagMoves,    \* bound on how often the registry moves the tag
    NoDigest,       \* no digest verified yet
    NoFile          \* the local policy file does not exist

Layer == [media : {"wasm", "other"}, alg : {"sha256", "sha512"}, blob : Blobs]

ASSUME PolicyVerifierAssumption ==
    /\ Sha256 \in [Blobs -> Hexes]
    /\ \A a, b \in Blobs : Sha256[a] = Sha256[b] => a = b
    /\ Manifest \in [Digests -> Seq(Layer)]
    /\ SignedBy \in [Digests -> SUBSET Signers]
    /\ Config \in VerificationConfig
    /\ MaxTagMoves \in Nat
    /\ NoDigest \notin Digests
    /\ NoFile \notin Blobs

VARIABLES
    tag,        \* the digest the policy's tag points to in the registry
    tagMoves,   \* how often the tag was moved
    tampered,   \* whether the local file was written by someone else
    phase,      \* where the verification flow is
    verified,   \* the digest Verifier::verify returned
    pulled,     \* the digest the pull fetched (history)
    localFile,  \* the content of the policy's local_path
    outcome     \* how the flow ended

vars == <<tag, tagMoves, tampered, phase, verified, pulled, localFile, outcome>>

Outcomes == {"none", "ok", "fetch_error", "signature_error", "pull_error",
             "missing_wasm_file", "manifest_error", "wasm_layers",
             "not_sha256", "invalid_reference", "digest_error",
             "checksum_mismatch"}

TypeOK ==
    /\ tag \in Digests
    /\ tagMoves \in 0..MaxTagMoves
    /\ tampered \in BOOLEAN
    /\ phase \in {"verify", "pull", "checksum", "digest", "done"}
    /\ verified \in Digests \cup {NoDigest}
    /\ pulled \in Digests \cup {NoDigest}
    /\ localFile \in Blobs \cup {NoFile}
    /\ outcome \in Outcomes

Init ==
    /\ tag \in Digests
    /\ tagMoves = 0
    /\ tampered = FALSE
    /\ phase = "verify"
    /\ verified = NoDigest
    /\ pulled = NoDigest
    /\ localFile = NoFile
    /\ outcome = "none"

Finish(why) ==
    /\ phase' = "done"
    /\ outcome' = why

-----------------------------------------------------------------------------
(* fetch_sigstore_remote_data: triangulate resolves the tag to the source *)
(* image digest, trusted_signature_layers fetches its signatures.  Either  *)
(* call may fail (registry unreachable, no signature image).              *)
FetchSigstoreRemoteData ==
    {[ok |-> TRUE, digest |-> tag, layers |-> SignedBy[tag]],
     [ok |-> FALSE, digest |-> NoDigest, layers |-> {}]}

(* Verifier::verify: fetch, check the layers against the config, return   *)
(* the digest.                                                             *)
Verify ==
    /\ phase = "verify"
    /\ \E r \in FetchSigstoreRemoteData :
          \/ /\ ~r.ok
             /\ Finish("fetch_error")
             /\ UNCHANGED verified
          \/ /\ r.ok
             /\ VerifySignaturesAgainstConfig(Config, r.layers) # VerifyOk
             /\ Finish("signature_error")
             /\ UNCHANGED verified
          \/ /\ r.ok
             /\ VerifySignaturesAgainstConfig(Config, r.layers) = VerifyOk
             /\ verified' = r.digest
             /\ phase' = "pull"
             /\ UNCHANGED outcome
    /\ UNCHANGED <<tag, tagMoves, tampered, pulled, localFile>>

(* The positions of the Wasm layers of a manifest (the filter_map on the   *)
(* media type); the collected `digests` has one entry per position, in    *)
(* order, so its length is their number.                                   *)
WasmLayers(m) == {i \in 1..Len(m) : m[i].media = "wasm"}

(* digests[0] when there is exactly one.                                   *)
OnlyWasmLayer(m) == m[CHOOSE i \in WasmLayers(m) : TRUE]

(* The pull: fetch the policy by its tag, as the tag resolves now, and     *)
(* store a Wasm layer of that manifest in local_path (the spec does not   *)
(* say which one when there are several).                                  *)
Pull ==
    /\ phase = "pull"
    /\ \/ /\ \E i \in WasmLayers(Manifest[tag]) :
                localFile' = Manifest[tag][i].blob
          /\ pulled' = tag
          /\ phase' = "checksum"
          /\ UNCHANGED outcome
       \/ /\ Finish("pull_error")
          /\ UNCHANGED <<localFile, pulled>>
    /\ UNCHANGED <<tag, tagMoves, tampered, verified>>

(* Mutant: the manifest is fetched by the policy's tag instead of by the   *)
(* verified digest.                                                        *)
ManifestForChecksumByTag(digest) == Manifest[tag]

(* The manifest of registry://<registry>/<repository>@<verified digest>.   *)
ManifestForChecksum(digest) == Manifest[digest]

(* Mutant: the "sha256:" prefix is not stripped before the comparison.     *)
ChecksumMatchesUnstripped(layer, file) ==
    /\ layer.alg = "sha256"
    /\ <<"sha256:", Sha256[layer.blob]>> = Sha256[file]

(* strip_prefix("sha256:") and compare with policy.digest(), the hex       *)
(* SHA-256 of the local file.                                              *)
ChecksumMatches(layer, file) ==
    /\ layer.alg = "sha256"
    /\ Sha256[layer.blob] = Sha256[file]

(* Verifier::verify_local_file_checksum up to the awaited manifest fetch   *)
(* and the checks on the manifest, in their order.  policy.uri is the      *)
(* caller's and may not parse as an image reference (try_from; from_str   *)
(* parses the same name and then succeeds); the local file must exist;    *)
(* the manifest fetch may fail.                                            *)
VerifyLocalFileChecksum ==
    /\ phase = "checksum"
    /\ LET m == ManifestForChecksum(verified)
           layer == OnlyWasmLayer(m)
       IN
       \/ Finish("invalid_reference")
       \/ /\ localFile = NoFile
          /\ Finish("missing_wasm_file")
       \/ /\ localFile # NoFile
          /\ Finish("manifest_error")
       \/ /\ localFile # NoFile
          /\ Cardinality(WasmLayers(m)) # 1
          /\ Finish("wasm_layers")
       \/ /\ localFile # NoFile
          /\ Cardinality(WasmLayers(m)) = 1
          /\ layer.alg # "sha256"
          /\ Finish("not_sha256")
       \/ /\ localFile # NoFile
          /\ Cardinality(WasmLayers(m)) = 1
          /\ layer.alg = "sha256"
          /\ phase' = "digest"
          /\ UNCHANGED outcome
    /\ UNCHANGED <<tag, tagMoves, tampered, verified, pulled, localFile>>

(* policy.digest() reads the local file, which may have gone since the    *)
(* exists() check (an I/O error), and compares its SHA-256 with the       *)
(* manifest's Wasm layer.                                                  *)
ReadLocalFileDigest ==
    /\ phase = "digest"
    /\ \/ /\ localFile = NoFile
          /\ Finish("digest_error")
       \/ /\ localFile # NoFile
          /\ Finish(IF ChecksumMatches(OnlyWasmLayer(ManifestForChecksum(verified)), localFile)
                       THEN "ok" ELSE "checksum_mismatch")
    /\ UNCHANGED <<tag, tagMoves, tampered, verified, pulled, localFile>>

-----------------------------------------------------------------------------
(* The environment.                                                        *)

(* Mutant: an off-by-one in the bound lets the tag move once too often.   *)
TagMoveUnbounded ==
    /\ tagMoves <= MaxTagMoves
    /\ \E d \in Digests \ {tag} : tag' = d
    /\ tagMoves' = tagMoves + 1
    /\ UNCHANGED <<tampered, phase, verified, pulled, localFile, outcome>>

(* The publisher pushes another manifest under the same tag.               *)
TagMove ==
    /\ tagMoves < MaxTagMoves
    /\ \E d \in Digests \ {tag} : tag' = d
    /\ tagMoves' = tagMoves + 1
    /\ UNCHANGED <<tampered, phase, verified, pulled, localFile, outcome>>

(* Someone else rewrites or removes the file in the local policy store.    *)
TamperLocalFile ==
    /\ phase \in {"checksum", "digest"}
    /\ \E f \in (Blobs \cup {NoFile}) \ {localFile} : localFile' = f
    /\ tampered' = TRUE
    /\ UNCHANGED <<tag, tagMoves, phase, verified, pulled, outcome>>

Next ==
    \/ Verify
    \/ Pull
    \/ VerifyLocalFileChecksum
    \/ ReadLocalFileDigest
    \/ TagMove
    \/ TamperLocalFile

Spec == Init /\ [][Next]_vars /\ WF_vars(Verify \/ Pull \/ VerifyLocalFileChecksum \/ ReadLocalFileDigest)

-----------------------------------------------------------------------------
(* Properties.                                                             *)

(* A flow that accepts the local file accepts exactly the Wasm module of   *)
(* the manifest whose signatures were verified, however the tag moved and  *)
(* whatever was written to the local store between the steps: the         *)
(* checksum step fetches the manifest by the verified digest.             *)
AcceptedFileIsVerified ==
    outcome = "ok" =>
        /\ verified # NoDigest
        /\ VerifySignaturesAgainstConfig(Config, SignedBy[verified]) = VerifyOk
        /\ Cardinality(WasmLayers(Manifest[verified])) = 1
        /\ localFile = OnlyWasmLayer(Manifest[verified]).blob

(* The checksum step raises no false alarm: a mismatch is reported only   *)
(* when the pull fetched another manifest than the verified one (the tag  *)
(* moved in between) or the local file was changed after the pull.        *)
MismatchOnlyOnChange ==
    outcome = "checksum_mismatch" => pulled # verified \/ tampered


-----------------------------------------------------------------------------
(* The inductive strengthening used by the proofs.                        *)

(* The flow has an outcome only once it is done.                           *)
OutcomeOnlyWhenDone == phase # "done" => outcome = "none"

(* Past Verifier::verify, or once accepted, the verified digest is one     *)
(* whose trusted signature layers satisfy the config.                     *)
VerifiedSigned ==
    phase \in {"pull", "checksum", "digest"} \/ outcome = "ok" =>
        /\ verified \in Digests
        /\ VerifySignaturesAgainstConfig(Config, SignedBy[verified]) = VerifyOk

(* Between the pull and the file read the pulled digest is known, and an  *)
(* untouched local file is a Wasm layer of the pulled manifest.            *)
PulledFile ==
    phase \in {"checksum", "digest"} =>
        /\ pulled \in Digests
        /\ ~tampered => \E i \in WasmLayers(Manifest[pulled]) :
                            localFile = Manifest[pulled][i].blob

(* The file is read only after the verified manifest passed its checks.   *)
ManifestChecked ==
    phase = "digest" =>
        /\ Cardinality(WasmLayers(Manifest[verified])) = 1
        /\ OnlyWasmLayer(Manifest[verified]).alg = "sha256"

IInv ==
    /\ TypeOK
    /\ OutcomeOnlyWhenDone
    /\ VerifiedSigned
    /\ PulledFile
    /\ ManifestChecked
    /\ AcceptedFileIsVerified
    /\ MismatchOnlyOnChange

=============================================================================
