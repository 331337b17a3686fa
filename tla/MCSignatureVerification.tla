---------------------- MODULE MCSignatureVerification ----------------------
(* TLC harness for the signature decision: every config and every set of  *)
(* trusted layers within the bounds is verified once, and the outcome is  *)
(* compared with the reference the spec states (section 8, items 7-8).    *)
EXTENDS SignatureVerification

CONSTANTS s1, s2

MCSigners == {s1, s2}

VARIABLES config, layers, result

vars == <<config, layers, result>>

Pending == [kind |-> "pending"]

Init ==
    /\ config \in VerificationConfig
    /\ layers \in SUBSET Signers
    /\ result = Pending

Verify ==
    /\ result = Pending
    /\ result' = VerifySignaturesAgainstConfig(config, layers)
    /\ UNCHANGED <<config, layers>>

Spec == Init /\ [][Verify]_vars

(* The reference: a constraint is satisfied when some trusted layer        *)
(* matches it; all_of needs every entry, any_of at least minimum_matches   *)
(* entries (counted by position), and a config needs one of the two.       *)
Matches(layer, sig) == sig.wellFormed /\ sig.signer = layer
SpecSatisfied(sig, ls) == \E l \in ls : Matches(l, sig)
SatisfiedPositions(sigs, ls) == {i \in 1..Len(sigs) : SpecSatisfied(sigs[i], ls)}
SpecVerifies(c, ls) ==
    /\ c.allOf # NotSet \/ c.anyOf # NotSet
    /\ c.allOf # NotSet => SatisfiedPositions(c.allOf, ls) = 1..Len(c.allOf)
    /\ c.anyOf # NotSet =>
          Cardinality(SatisfiedPositions(c.anyOf.signatures, ls)) >= c.anyOf.minimumMatches

(* A list in an error message names exactly the unsatisfied entries.      *)
ListsUnsatisfied(unsat, sigs, ls) ==
    /\ Len(unsat) = Len(sigs) - Cardinality(SatisfiedPositions(sigs, ls))
    /\ \A j \in 1..Len(unsat) : ~SpecSatisfied(unsat[j], ls)

(* verify_signatures_against_config accepts exactly the configs the spec  *)
(* accepts, an any_of failure reports minimum_matches and the number of   *)
(* satisfied entries, and a failure message lists exactly the unsatisfied *)
(* constraints of the list that failed.                                    *)
VerifyAgreesWithSpec ==
    result # Pending =>
        /\ result.kind = "ok" <=> SpecVerifies(config, layers)
        /\ result.kind = "all_of" => ListsUnsatisfied(result.unsatisfied, config.allOf, layers)
        /\ result.kind = "any_of" =>
              /\ result.needed = config.anyOf.minimumMatches
              /\ result.got = Cardinality(SatisfiedPositions(config.anyOf.signatures, layers))
              /\ ListsUnsatisfied(result.unsatisfied, config.anyOf.signatures, layers)

=============================================================================
