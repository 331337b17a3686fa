------------------------ MODULE SignatureVerification ------------------------
(***************************************************************************)
(* The signature decision of the policy verifier (policy-fetcher,          *)
(* verify/mod.rs, verify_signatures_against_config).                       *)
(*                                                                         *)
(* A verification config has an optional `all_of` list of signature        *)
(* constraints and an optional `any_of` struct {minimum_matches,           *)
(* signatures}.  The trusted layers of an image are abstracted to the set  *)
(* of signers whose signatures the cosign client verified; a constraint    *)
(* names one signer and may be malformed, in which case                    *)
(* `signature.verifier()` errs and the constraint counts as unsatisfied.   *)
(* The lists are sequences: they keep their order (rayon's filter/collect  *)
(* on an indexed iterator is order preserving) and may repeat a           *)
(* constraint.                                                             *)
(***************************************************************************)
EXTENDS Naturals, Sequences, FiniteSets

CONSTANTS
    Signers,        \* the identities a signature constraint may name
    MaxSignatures,  \* bound on the length of the all_of and any_of lists
    MaxMatches,     \* bound on any_of.minimum_matches
    NotSet          \* an absent optional field of the config (None)

ASSUME SignatureVerificationAssumption ==
    /\ MaxSignatures \in Nat
    /\ MaxMatches \in Nat

(* A signature constraint: the signer it asks for, and whether a verifier  *)
(* can be built from it.                                                   *)
Signature == [signer : Signers, wellFormed : BOOLEAN]

SignatureLists == UNION {[1..n -> Signature] : n \in 0..MaxSignatures}

AnyOf == [minimumMatches : 0..MaxMatches, signatures : SignatureLists]

VerificationConfig == [allOf : SignatureLists \cup {NotSet},
                       anyOf : AnyOf \cup {NotSet}]

(* The outcomes of the decision.  `unsatisfied` is the list the error     *)
(* message prints; `needed`/`got` the numbers of the any_of message.       *)
VerifyOk == [kind |-> "ok", needed |-> 0, got |-> 0, unsatisfied |-> <<>>]
NoSignaturesError == [kind |-> "no_signatures", needed |-> 0, got |-> 0, unsatisfied |-> <<>>]
AllOfError(unsat) == [kind |-> "all_of", needed |-> 0, got |-> 0, unsatisfied |-> unsat]
AnyOfError(needed, got, unsat) ==
    [kind |-> "any_of", needed |-> needed, got |-> got, unsatisfied |-> unsat]

(* cosign::verify_constraints on a single constraint: some trusted layer   *)
(* satisfies it.                                                           *)
VerifyConstraints(layers, sig) == sig.signer \in layers

(* The filter closure: a constraint is unsatisfied when its verifier      *)
(* cannot be built or no trusted layer satisfies it.                       *)
IsUnsatisfied(sig, layers) ==
    ~sig.wellFormed \/ ~VerifyConstraints(layers, sig)

(* The positions the filter keeps.                                         *)
UnsatisfiedPositions(sigs, layers) ==
    {i \in 1..Len(sigs) : IsUnsatisfied(sigs[i], layers)}

(* par_iter().filter().collect(): the kept constraints in list order; the *)
(* j-th of them is the one at the kept position with j kept positions up  *)
(* to and including it.                                                    *)
UnsatisfiedSignatures(sigs, layers) ==
    LET kept == UnsatisfiedPositions(sigs, layers)
        nth(j) == CHOOSE i \in kept : Cardinality({k \in kept : k <= i}) = j
    IN  [j \in 1..Cardinality(kept) |-> sigs[nth(j)]]

(* Mutant: the any_of count compares with <= (one match too many needed). *)
VerifySignaturesAgainstConfigStrict(config, layers) ==
    LET unsatAll == UnsatisfiedSignatures(config.allOf, layers)
        unsatAny == UnsatisfiedSignatures(config.anyOf.signatures, layers)
        numSatisfied == Len(config.anyOf.signatures) - Len(unsatAny)
    IN  IF config.allOf = NotSet /\ config.anyOf = NotSet
           THEN NoSignaturesError
        ELSE IF config.allOf # NotSet /\ unsatAll # <<>>
           THEN AllOfError(unsatAll)
        ELSE IF config.anyOf # NotSet /\ numSatisfied <= config.anyOf.minimumMatches
           THEN AnyOfError(config.anyOf.minimumMatches, numSatisfied, unsatAny)
        ELSE VerifyOk

(* verify_signatures_against_config: reject a config with neither list,    *)
(* then every all_of constraint must hold, then at least minimum_matches   *)
(* any_of constraints, counted as the list length minus the unsatisfied.   *)
VerifySignaturesAgainstConfig(config, layers) ==
    LET unsatAll == UnsatisfiedSignatures(config.allOf, layers)
        unsatAny == UnsatisfiedSignatures(config.anyOf.signatures, layers)
        numSatisfied == Len(config.anyOf.signatures) - Len(unsatAny)
    IN  IF config.allOf = NotSet /\ config.anyOf = NotSet
           THEN NoSignaturesError
        ELSE IF config.allOf # NotSet /\ unsatAll # <<>>
           THEN AllOfError(unsatAll)
        ELSE IF config.anyOf # NotSet /\ numSatisfied < config.anyOf.minimumMatches
           THEN AnyOfError(config.anyOf.minimumMatches, numSatisfied, unsatAny)
        ELSE VerifyOk

=============================================================================
