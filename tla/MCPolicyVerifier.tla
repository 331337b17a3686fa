------------------------- MODULE MCPolicyVerifier -------------------------
(* A registry with four manifests under one tag: a signed policy, an      *)
(* unsigned one, a signed manifest with two Wasm layers and a signed one  *)
(* whose Wasm layer is addressed by SHA-512; the user requires s1's        *)
(* signature (all_of).                                                     *)
EXTENDS PolicyVerifier

CONSTANTS s1, s2, d1, d2, d3, d4, b1, b2, h1, h2

MCSigners == {s1, s2}
MCDigests == {d1, d2, d3, d4}
MCBlobs == {b1, b2}
MCHexes == {h1, h2}
MCSha256 == [b \in MCBlobs |-> IF b = b1 THEN h1 ELSE h2]

WasmLayer(alg, b) == [media |-> "wasm", alg |-> alg, blob |-> b]
OtherLayer(b) == [media |-> "other", alg |-> "sha256", blob |-> b]

MCManifest ==
    [d \in MCDigests |->
        CASE d = d1 -> <<OtherLayer(b2), WasmLayer("sha256", b1)>>
          [] d = d2 -> <<WasmLayer("sha256", b2)>>
          [] d = d3 -> <<WasmLayer("sha256", b1), WasmLayer("sha256", b2)>>
          [] d = d4 -> <<WasmLayer("sha512", b1)>>]

MCSignedBy == [d \in MCDigests |-> IF d = d2 THEN {} ELSE {s1}]

MCAllOfConfig ==
    [allOf |-> <<[signer |-> s1, wellFormed |-> TRUE]>>, anyOf |-> NotSet]

=============================================================================
