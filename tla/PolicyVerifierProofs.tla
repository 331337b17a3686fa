------------------------ MODULE PolicyVerifierProofs ------------------------
(***************************************************************************)
(* Proofs about the verification flow of policy-fetcher (verify/mod.rs)   *)
(* for every registry, every manifest, every verification config and     *)
(* every bound on the tag moves: the flow accepts only the Wasm module of  *)
(* the manifest whose signatures it verified, and it reports a checksum   *)
(* mismatch only when the tag moved or the local file was changed.        *)
(***************************************************************************)
EXTENDS PolicyVerifier, FiniteSetTheorems, TLAPS

USE PolicyVerifierAssumption

(* A manifest with exactly one Wasm layer: the layer verify_local_file_    *)
(* checksum takes (digests[0]) is that layer, and it is a layer.           *)
LEMMA OnlyWasmLayerIsTheOne ==
    ASSUME NEW m \in Seq(Layer), Cardinality(WasmLayers(m)) = 1
    PROVE  \E i \in 1..Len(m) : /\ WasmLayers(m) = {i}
                                /\ OnlyWasmLayer(m) = m[i]
                                /\ m[i] \in Layer
<1>1. IsFiniteSet(WasmLayers(m))
  <2>1. IsFiniteSet(1..Len(m))
    BY FS_Interval
  <2>2. WasmLayers(m) \subseteq 1..Len(m)
    BY DEF WasmLayers
  <2>3. QED
    BY <2>1, <2>2, FS_Subset
<1>2. PICK i : WasmLayers(m) = {i}
  BY <1>1, FS_Singleton
<1>3. i \in 1..Len(m)
  BY <1>2 DEF WasmLayers
<1>4. OnlyWasmLayer(m) = m[i]
  BY <1>2 DEF OnlyWasmLayer
<1>5. QED
  BY <1>2, <1>3, <1>4

-----------------------------------------------------------------------------
(* Type correctness.                                                       *)

LEMMA TypeInit == Init => TypeOK
<1> SUFFICES ASSUME Init PROVE TypeOK
  OBVIOUS
<1>1. tagMoves \in 0..MaxTagMoves
  BY DEF Init
<1>2. QED
  BY <1>1 DEF Init, TypeOK, Outcomes

LEMMA TypeStep == TypeOK /\ [Next]_vars => TypeOK'
<1> SUFFICES ASSUME TypeOK, [Next]_vars PROVE TypeOK'
  OBVIOUS
<1>1. CASE Verify
  <2>1. PICK r \in FetchSigstoreRemoteData :
            \/ ~r.ok /\ Finish("fetch_error") /\ UNCHANGED verified
            \/ r.ok /\ Finish("signature_error") /\ UNCHANGED verified
            \/ r.ok /\ verified' = r.digest /\ phase' = "pull" /\ UNCHANGED outcome
    BY <1>1 DEF Verify
  <2>2. r.ok => r.digest = tag
    BY DEF FetchSigstoreRemoteData
  <2>3. QED
    BY <1>1, <2>1, <2>2 DEF Verify, Finish, TypeOK, Outcomes
<1>2. CASE Pull
  <2>1. Manifest[tag] \in Seq(Layer)
    BY DEF TypeOK
  <2>2. \A i \in WasmLayers(Manifest[tag]) : Manifest[tag][i].blob \in Blobs
    <3> TAKE i \in WasmLayers(Manifest[tag])
    <3>1. Manifest[tag][i] \in Layer
      BY <2>1 DEF WasmLayers
    <3>2. QED
      BY <3>1 DEF Layer
  <2>3. QED
    BY <1>2, <2>2 DEF Pull, Finish, TypeOK, Outcomes
<1>3. CASE VerifyLocalFileChecksum
  BY <1>3 DEF VerifyLocalFileChecksum, Finish, TypeOK, Outcomes
<1>4. CASE ReadLocalFileDigest
  BY <1>4 DEF ReadLocalFileDigest, Finish, TypeOK, Outcomes
<1>5. CASE TagMove
  BY <1>5 DEF TagMove, TypeOK
<1>6. CASE TamperLocalFile
  BY <1>6 DEF TamperLocalFile, TypeOK
<1>7. CASE UNCHANGED vars
  BY <1>7 DEF vars, TypeOK
<1>8. QED
  BY <1>1, <1>2, <1>3, <1>4, <1>5, <1>6, <1>7 DEF Next

(* Every reachable state is well typed.                                    *)
THEOREM TypeCorrect == Spec => []TypeOK
BY TypeInit, TypeStep, PTL DEF Spec

-----------------------------------------------------------------------------
(* The inductive invariant IInv (PolicyVerifier).                          *)

LEMMA IInvInit == Init => IInv
BY TypeInit DEF Init, IInv, OutcomeOnlyWhenDone, VerifiedSigned, PulledFile, ManifestChecked,
               ManifestChecked, AcceptedFileIsVerified, MismatchOnlyOnChange

(* Verifier::verify hands on only a digest whose signatures satisfy the   *)
(* config.                                                                 *)
LEMMA VerifyStep == IInv /\ Verify => IInv'
<1> SUFFICES ASSUME IInv, Verify PROVE IInv'
  OBVIOUS
<1>1. TypeOK'
  BY TypeStep DEF IInv, Next
<1>2. outcome = "none"
  BY DEF Verify, IInv, OutcomeOnlyWhenDone
<1>3. PICK r \in FetchSigstoreRemoteData :
          \/ ~r.ok /\ Finish("fetch_error") /\ UNCHANGED verified
          \/ /\ r.ok
             /\ VerifySignaturesAgainstConfig(Config, r.layers) # VerifyOk
             /\ Finish("signature_error") /\ UNCHANGED verified
          \/ /\ r.ok
             /\ VerifySignaturesAgainstConfig(Config, r.layers) = VerifyOk
             /\ verified' = r.digest /\ phase' = "pull" /\ UNCHANGED outcome
  BY DEF Verify
<1>4. r.ok => r.digest = tag /\ r.layers = SignedBy[tag]
  BY DEF FetchSigstoreRemoteData
<1>5. CASE phase' = "done"
  BY <1>1, <1>3, <1>5 DEF Finish, IInv, OutcomeOnlyWhenDone, VerifiedSigned,
                         PulledFile, ManifestChecked, AcceptedFileIsVerified, MismatchOnlyOnChange
<1>6. CASE phase' = "pull"
  <2>1. verified' = tag /\ VerifySignaturesAgainstConfig(Config, SignedBy[tag]) = VerifyOk
    BY <1>3, <1>4, <1>6 DEF Finish
  <2>2. outcome' = "none"
    BY <1>2, <1>3, <1>6 DEF Finish
  <2>3. QED
    BY <1>1, <2>1, <2>2, <1>6 DEF IInv, TypeOK, OutcomeOnlyWhenDone, VerifiedSigned,
                                PulledFile, ManifestChecked, AcceptedFileIsVerified, MismatchOnlyOnChange
<1>7. QED
  BY <1>3, <1>5, <1>6 DEF Finish

(* The pull records what it fetched; the local file is a Wasm layer of it. *)
LEMMA PullStep == IInv /\ Pull => IInv'
<1> SUFFICES ASSUME IInv, Pull PROVE IInv'
  OBVIOUS
<1>1. TypeOK'
  BY TypeStep DEF IInv, Next
<1>2. outcome = "none" /\ verified \in Digests
      /\ VerifySignaturesAgainstConfig(Config, SignedBy[verified]) = VerifyOk
  BY DEF Pull, IInv, OutcomeOnlyWhenDone, VerifiedSigned
<1>3. CASE phase' = "checksum"
  <2>1. pulled' = tag /\ outcome' = "none"
        /\ \E i \in WasmLayers(Manifest[tag]) : localFile' = Manifest[tag][i].blob
    BY <1>2, <1>3 DEF Pull, Finish
  <2>2. QED
    BY <1>1, <1>2, <2>1, <1>3 DEF Pull, IInv, TypeOK, OutcomeOnlyWhenDone,
       VerifiedSigned, PulledFile, ManifestChecked, AcceptedFileIsVerified, MismatchOnlyOnChange
<1>4. CASE phase' = "done"
  BY <1>1, <1>4 DEF Pull, Finish, IInv, OutcomeOnlyWhenDone, VerifiedSigned,
                    PulledFile, ManifestChecked, AcceptedFileIsVerified, MismatchOnlyOnChange
<1>5. QED
  BY <1>3, <1>4 DEF Pull, Finish

(* The checks on the manifest end the flow with an error outcome or go on *)
(* to read the file once the verified manifest has one SHA-256 Wasm layer.*)
LEMMA ChecksumStep == IInv /\ VerifyLocalFileChecksum => IInv'
<1> SUFFICES ASSUME IInv, VerifyLocalFileChecksum PROVE IInv'
  OBVIOUS
<1>1. TypeOK'
  BY TypeStep DEF IInv, Next
<1>2. /\ phase = "checksum"
      /\ outcome = "none"
      /\ UNCHANGED <<verified, pulled, localFile, tampered>>
  BY DEF VerifyLocalFileChecksum, IInv, OutcomeOnlyWhenDone
<1>3. CASE phase' = "digest"
  <2>1. /\ Cardinality(WasmLayers(Manifest[verified])) = 1
        /\ OnlyWasmLayer(Manifest[verified]).alg = "sha256"
        /\ outcome' = "none"
    BY <1>2, <1>3 DEF VerifyLocalFileChecksum, Finish, ManifestForChecksum
  <2>2. QED
    BY <1>1, <1>2, <1>3, <2>1 DEF IInv, OutcomeOnlyWhenDone, VerifiedSigned,
       PulledFile, ManifestChecked, AcceptedFileIsVerified, MismatchOnlyOnChange
<1>4. CASE phase' # "digest"
  <2>1. phase' = "done" /\ outcome' \notin {"ok", "checksum_mismatch"}
    BY <1>4 DEF VerifyLocalFileChecksum, Finish
  <2>2. QED
    BY <1>1, <1>2, <2>1 DEF IInv, OutcomeOnlyWhenDone, VerifiedSigned, PulledFile,
       ManifestChecked, AcceptedFileIsVerified, MismatchOnlyOnChange
<1>5. QED
  BY <1>3, <1>4

(* The file read: "ok" only for the verified manifest's one Wasm layer,   *)
(* and "mismatch" only when the pulled file cannot be that layer.         *)
LEMMA DigestStep == IInv /\ ReadLocalFileDigest => IInv'
<1> SUFFICES ASSUME IInv, ReadLocalFileDigest PROVE IInv'
  OBVIOUS
<1> DEFINE m == Manifest[verified]
           layer == OnlyWasmLayer(m)
<1>1. TypeOK'
  BY TypeStep DEF IInv, Next
<1>2. /\ phase = "digest" /\ phase' = "done"
      /\ outcome = "none"
      /\ verified \in Digests
      /\ VerifySignaturesAgainstConfig(Config, SignedBy[verified]) = VerifyOk
      /\ pulled \in Digests
      /\ ~tampered => \E i \in WasmLayers(Manifest[pulled]) :
                         localFile = Manifest[pulled][i].blob
      /\ Cardinality(WasmLayers(m)) = 1
      /\ layer.alg = "sha256"
  BY DEF ReadLocalFileDigest, Finish, IInv, OutcomeOnlyWhenDone, VerifiedSigned,
         PulledFile, ManifestChecked
<1>3. UNCHANGED <<verified, pulled, localFile, tampered>>
  BY DEF ReadLocalFileDigest
<1>4. m \in Seq(Layer)
  BY <1>2
<1>5. CASE outcome' = "ok"
  <2>1. /\ localFile \in Blobs
        /\ ChecksumMatches(layer, localFile)
    BY <1>5 DEF ReadLocalFileDigest, Finish, ManifestForChecksum, IInv, TypeOK
  <2>2. layer \in Layer
    BY <1>2, <1>4, OnlyWasmLayerIsTheOne
  <2>3. localFile = layer.blob
    BY <2>1, <2>2 DEF ChecksumMatches, Layer
  <2>4. QED
    BY <1>1, <1>2, <1>3, <1>5, <2>1, <2>3 DEF IInv, OutcomeOnlyWhenDone,
       VerifiedSigned, PulledFile, ManifestChecked, AcceptedFileIsVerified,
       MismatchOnlyOnChange
<1>6. CASE outcome' = "checksum_mismatch"
  <2>1. SUFFICES ASSUME pulled = verified, ~tampered PROVE FALSE
    BY <1>1, <1>2, <1>3, <1>6 DEF IInv, OutcomeOnlyWhenDone, VerifiedSigned,
       PulledFile, ManifestChecked, AcceptedFileIsVerified, MismatchOnlyOnChange
  <2>2. ~ChecksumMatches(layer, localFile)
    BY <1>6 DEF ReadLocalFileDigest, Finish, ManifestForChecksum
  <2>3. PICK i \in WasmLayers(m) : localFile = m[i].blob
    BY <1>2, <2>1
  <2>4. layer = m[i]
    BY <1>2, <1>4, <2>3, OnlyWasmLayerIsTheOne
  <2>5. QED
    BY <1>2, <2>2, <2>3, <2>4 DEF ChecksumMatches
<1>7. CASE outcome' \notin {"ok", "checksum_mismatch"}
  BY <1>1, <1>2, <1>7 DEF IInv, OutcomeOnlyWhenDone, VerifiedSigned, PulledFile,
                          ManifestChecked, AcceptedFileIsVerified, MismatchOnlyOnChange
<1>8. QED
  BY <1>5, <1>6, <1>7

(* The environment touches nothing the invariant speaks of but the local   *)
(* file during the checksum phase, and then it marks it tampered.          *)
LEMMA EnvironmentStep == IInv /\ (TagMove \/ TamperLocalFile) => IInv'
<1> SUFFICES ASSUME IInv, TagMove \/ TamperLocalFile PROVE IInv'
  OBVIOUS
<1>1. TypeOK'
  BY TypeStep DEF IInv, Next
<1>2. CASE TagMove
  BY <1>1, <1>2 DEF TagMove, IInv, OutcomeOnlyWhenDone, VerifiedSigned, PulledFile, ManifestChecked,
                    AcceptedFileIsVerified, MismatchOnlyOnChange
<1>3. CASE TamperLocalFile
  BY <1>1, <1>3 DEF TamperLocalFile, IInv, OutcomeOnlyWhenDone, VerifiedSigned,
                    PulledFile, ManifestChecked, AcceptedFileIsVerified, MismatchOnlyOnChange
<1>4. QED
  BY <1>2, <1>3

LEMMA IInvStep == IInv /\ [Next]_vars => IInv'
<1> SUFFICES ASSUME IInv, [Next]_vars PROVE IInv'
  OBVIOUS
<1>1. CASE UNCHANGED vars
  BY <1>1 DEF vars, IInv, TypeOK, OutcomeOnlyWhenDone, VerifiedSigned, PulledFile, ManifestChecked,
              AcceptedFileIsVerified, MismatchOnlyOnChange
<1>2. QED
  BY <1>1, VerifyStep, PullStep, ChecksumStep, DigestStep, EnvironmentStep DEF Next

LEMMA AlwaysIInv == Spec => []IInv
BY IInvInit, IInvStep, PTL DEF Spec

(* A flow that accepts the local file accepts exactly the Wasm module of   *)
(* the verified manifest, however the registry moved the tag and whatever *)
(* was written to the local store (Verifier::verify followed by           *)
(* verify_local_file_checksum with the verified digest).                   *)
THEOREM FileVerified == Spec => []AcceptedFileIsVerified
BY AlwaysIInv, PTL DEF IInv

(* verify_local_file_checksum reports a mismatch only when the pull        *)
(* fetched another manifest than the verified one or the file changed.    *)
THEOREM NoFalseAlarm == Spec => []MismatchOnlyOnChange
BY AlwaysIInv, PTL DEF IInv

=============================================================================
