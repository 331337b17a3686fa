------------------------ MODULE SignatureVerificationProofs ------------------------
(***************************************************************************)
(* Proof that verify_signatures_against_config decides as the spec says    *)
(* for every set of signers and every bound on the lists and on            *)
(* minimum_matches (VerifyAgreesWithSpec of MCSignatureVerification).      *)
(***************************************************************************)
EXTENDS MCSignatureVerification, FiniteSetTheorems, TLAPS

USE SignatureVerificationAssumption

(* The number of members of P up to and including i.                      *)
RankIn(P, i) == Cardinality({k \in P : k <= i})

(* In a finite set of naturals, the ranks of its members are exactly      *)
(* 1..Cardinality(P): so the j-th kept position the filter chooses exists. *)
LEMMA RankOnto ==
  ASSUME NEW P \in SUBSET Nat, IsFiniteSet(P),
         NEW j \in 1..Cardinality(P)
  PROVE  \E i \in P : RankIn(P, i) = j
<1> DEFINE f == [i \in P |-> RankIn(P, i)]
           n == Cardinality(P)
<1>1. n \in Nat
  BY FS_CardinalityType
<1>2. ASSUME NEW i \in P
      PROVE  /\ IsFiniteSet({k \in P : k <= i})
             /\ RankIn(P, i) \in 1..n
  <2>1. IsFiniteSet({k \in P : k <= i}) /\ Cardinality({k \in P : k <= i}) <= n
    BY FS_Subset
  <2>2. Cardinality({k \in P : k <= i}) # 0
    BY <2>1, FS_EmptySet
  <2>3. Cardinality({k \in P : k <= i}) \in Nat
    BY <2>1, FS_CardinalityType
  <2>4. QED
    BY <1>1, <2>1, <2>2, <2>3 DEF RankIn
<1>3. ASSUME NEW a \in P, NEW b \in P
      PROVE  a < b => RankIn(P, a) < RankIn(P, b)
  <2> HAVE a < b
  <2> DEFINE A == {k \in P : k <= a}
             B == {k \in P : k <= b}
  <2>0. IsFiniteSet(B)
    BY <1>2
  <2>1. A \subseteq B
    <3>1. \A k \in P : k <= a => k <= b
      OBVIOUS
    <3>2. QED
      BY <3>1 DEF A, B
  <2>2. Cardinality(A) <= Cardinality(B) /\ (Cardinality(B) = Cardinality(A) => B = A)
    BY <2>0, <2>1, FS_Subset
  <2>3. b \in B /\ b \notin A
    BY <1>3
  <2>4. Cardinality(A) \in Nat /\ Cardinality(B) \in Nat
    BY <1>2, FS_CardinalityType
  <2>5. QED
    BY <2>2, <2>3, <2>4 DEF RankIn
<1>4. f \in Injection(P, 1..n)
  <2>1. f \in [P -> 1..n]
    BY <1>2
  <2>2. ASSUME NEW a \in P, NEW b \in P, a # b
        PROVE  f[a] # f[b]
    <3>1. a < b \/ b < a
      BY <2>2
    <3>2. RankIn(P, a) < RankIn(P, b) \/ RankIn(P, b) < RankIn(P, a)
      BY <3>1, <1>3
    <3>3. RankIn(P, a) \in 1..n /\ RankIn(P, b) \in 1..n
      BY <1>2, Zenon
    <3>4. QED
      BY <1>1, <3>2, <3>3 DEF f
  <2>3. QED
    BY <2>1, <2>2, Zenon DEF Injection, IsInjective
<1>5. IsFiniteSet(1..n) /\ Cardinality(1..n) = n
  BY <1>1, FS_Interval
<1>6. f \in Surjection(P, 1..n)
  BY <1>4, <1>5, FS_Injection
<1>7. QED
  BY <1>6 DEF Surjection


LEMMA SignatureListsAreSeqs == SignatureLists \subseteq Seq(Signature)
  BY DEF SignatureLists

(* The filter of verify_signatures_against_config: the collected list has  *)
(* one entry per constraint the spec counts as unsatisfied, every entry is *)
(* unsatisfied, and it is empty exactly when every constraint is satisfied.*)
LEMMA FilterCollects ==
  ASSUME NEW sigs \in Seq(Signature), NEW ls
  PROVE  LET sat == SatisfiedPositions(sigs, ls)
             u == UnsatisfiedSignatures(sigs, ls)
         IN  /\ Cardinality(sat) \in 0..Len(sigs)
             /\ Len(u) = Len(sigs) - Cardinality(sat)
             /\ \A j \in 1..Len(u) : ~SpecSatisfied(u[j], ls)
             /\ (u = <<>>) <=> (sat = 1..Len(sigs))
<1> DEFINE sat == SatisfiedPositions(sigs, ls)
           kept == UnsatisfiedPositions(sigs, ls)
           L == Len(sigs)
           nth(j) == CHOOSE i \in kept : Cardinality({k \in kept : k <= i}) = j
           u == UnsatisfiedSignatures(sigs, ls)
<1>1. \A i \in 1..L : SpecSatisfied(sigs[i], ls) <=> ~IsUnsatisfied(sigs[i], ls)
  BY DEF SpecSatisfied, Matches, IsUnsatisfied, VerifyConstraints, Signature
<1>2. sat \subseteq 1..L /\ kept = (1..L) \ sat
  BY <1>1 DEF SatisfiedPositions, UnsatisfiedPositions
<1>0. L \in Nat
  OBVIOUS
<1>3. IsFiniteSet(1..L) /\ Cardinality(1..L) = L
  <2>1. IsFiniteSet(1..L) /\ Cardinality(1..L) = IF 1 > L THEN 0 ELSE L - 1 + 1
    BY <1>0, FS_Interval
  <2>2. QED
    BY <1>0, <2>1
<1>4. IsFiniteSet(sat) /\ Cardinality(sat) <= L
  BY <1>2, <1>3, FS_Subset
<1>5. IsFiniteSet(kept) /\ Cardinality(kept) = L - Cardinality(sat)
  <2>1. (1..L) \cap sat = sat
    BY <1>2
  <2>2. QED
    BY <1>2, <1>3, <2>1, FS_Difference
<1>6. Cardinality(sat) \in Nat /\ Cardinality(kept) \in Nat
  BY <1>4, <1>5, FS_CardinalityType
<1>7. u = [j \in 1..Cardinality(kept) |-> sigs[nth(j)]]
  BY DEF UnsatisfiedSignatures
<1>8. Len(u) = Cardinality(kept) /\ DOMAIN u = 1..Cardinality(kept)
  BY <1>6, <1>7
<1>9. \A j \in 1..Cardinality(kept) : nth(j) \in kept
  <2> TAKE j \in 1..Cardinality(kept)
  <2>1. \E i \in kept : RankIn(kept, i) = j
    BY <1>2, <1>5, RankOnto
  <2>2. QED
    BY <2>1 DEF RankIn
<1>10. \A j \in 1..Len(u) : ~SpecSatisfied(u[j], ls)
  <2> TAKE j \in 1..Len(u)
  <2>1. nth(j) \in kept /\ u[j] = sigs[nth(j)]
    BY <1>7, <1>8, <1>9
  <2>2. nth(j) \in 1..L /\ IsUnsatisfied(sigs[nth(j)], ls)
    BY <2>1 DEF UnsatisfiedPositions
  <2>3. QED
    BY <1>1, <2>1, <2>2
<1>11. (u = <<>>) <=> (sat = 1..L)
  <2>1. (u = <<>>) <=> Cardinality(kept) = 0
    BY <1>6, <1>7, <1>8
  <2>2. Cardinality(kept) = 0 <=> kept = {}
    BY <1>5, FS_EmptySet
  <2>3. kept = {} <=> sat = 1..L
    BY <1>2
  <2>4. QED
    BY <2>1, <2>2, <2>3
<1>12. QED
  BY <1>4, <1>5, <1>6, <1>8, <1>10, <1>11


-----------------------------------------------------------------------------
(* The inductive invariant: the config and the trusted layers keep their  *)
(* types, and a result, once there, is the decision on them.              *)
SigInv ==
    /\ config \in VerificationConfig
    /\ layers \in SUBSET Signers
    /\ result = Pending \/ result = VerifySignaturesAgainstConfig(config, layers)

(* The decision on a typed config and set of trusted layers agrees with    *)
(* the spec, and its error reports name the right numbers and constraints. *)
LEMMA DecisionAgrees ==
  ASSUME SigInv
  PROVE  VerifyAgreesWithSpec
<1> DEFINE c == config
           ls == layers
           satAll == SatisfiedPositions(c.allOf, ls)
           satAny == SatisfiedPositions(c.anyOf.signatures, ls)
           unsatAll == UnsatisfiedSignatures(c.allOf, ls)
           unsatAny == UnsatisfiedSignatures(c.anyOf.signatures, ls)
           numSat == Len(c.anyOf.signatures) - Len(unsatAny)
<1> SUFFICES ASSUME result # Pending
             PROVE  /\ result.kind = "ok" <=> SpecVerifies(c, ls)
                    /\ result.kind = "all_of" => ListsUnsatisfied(result.unsatisfied, c.allOf, ls)
                    /\ result.kind = "any_of" =>
                          /\ result.needed = c.anyOf.minimumMatches
                          /\ result.got = Cardinality(satAny)
                          /\ ListsUnsatisfied(result.unsatisfied, c.anyOf.signatures, ls)
  BY DEF VerifyAgreesWithSpec
<1>1. result = VerifySignaturesAgainstConfig(c, ls)
  BY DEF SigInv, Pending, VerifySignaturesAgainstConfig, NoSignaturesError, AllOfError,
         AnyOfError, VerifyOk
<1>2. c.allOf # NotSet =>
        /\ c.allOf \in Seq(Signature)
        /\ Cardinality(satAll) \in 0..Len(c.allOf)
        /\ Len(unsatAll) = Len(c.allOf) - Cardinality(satAll)
        /\ \A j \in 1..Len(unsatAll) : ~SpecSatisfied(unsatAll[j], ls)
        /\ (unsatAll = <<>>) <=> (satAll = 1..Len(c.allOf))
  BY SignatureListsAreSeqs, FilterCollects DEF SigInv, VerificationConfig
<1>3. c.anyOf # NotSet =>
        /\ c.anyOf.signatures \in Seq(Signature)
        /\ c.anyOf.minimumMatches \in Nat
        /\ Cardinality(satAny) \in 0..Len(c.anyOf.signatures)
        /\ numSat = Cardinality(satAny)
        /\ Len(unsatAny) = Len(c.anyOf.signatures) - Cardinality(satAny)
        /\ \A j \in 1..Len(unsatAny) : ~SpecSatisfied(unsatAny[j], ls)
  <2> HAVE c.anyOf # NotSet
  <2>1. c.anyOf \in AnyOf
    BY DEF SigInv, VerificationConfig
  <2>2. c.anyOf.signatures \in Seq(Signature) /\ c.anyOf.minimumMatches \in Nat
    BY <2>1, SignatureListsAreSeqs DEF AnyOf
  <2>3. /\ Cardinality(satAny) \in 0..Len(c.anyOf.signatures)
        /\ Len(unsatAny) = Len(c.anyOf.signatures) - Cardinality(satAny)
        /\ \A j \in 1..Len(unsatAny) : ~SpecSatisfied(unsatAny[j], ls)
    BY <2>2, FilterCollects
  <2>4. numSat = Cardinality(satAny)
    BY <2>2, <2>3
  <2>5. QED
    BY <2>2, <2>3, <2>4
<1> HIDE DEF satAll, satAny, unsatAll, unsatAny, numSat
<1>4. CASE c.allOf = NotSet /\ c.anyOf = NotSet
  <2>1. result = NoSignaturesError
    BY <1>1, <1>4 DEF VerifySignaturesAgainstConfig
  <2>2. ~SpecVerifies(c, ls)
    BY <1>4 DEF SpecVerifies
  <2>3. QED
    BY <2>1, <2>2 DEF NoSignaturesError
<1>5. CASE ~(c.allOf = NotSet /\ c.anyOf = NotSet) /\ c.allOf # NotSet /\ unsatAll # <<>>
  <2>1. result = AllOfError(unsatAll)
    BY <1>1, <1>5 DEF VerifySignaturesAgainstConfig, unsatAll, unsatAny, numSat
  <2>2. ~SpecVerifies(c, ls)
    BY <1>2, <1>5 DEF SpecVerifies, satAll
  <2>3. ListsUnsatisfied(unsatAll, c.allOf, ls)
    BY <1>2, <1>5 DEF ListsUnsatisfied, satAll
  <2>4. QED
    BY <2>1, <2>2, <2>3 DEF AllOfError
<1>6. CASE /\ ~(c.allOf = NotSet /\ c.anyOf = NotSet)
           /\ ~(c.allOf # NotSet /\ unsatAll # <<>>)
           /\ c.anyOf # NotSet /\ numSat < c.anyOf.minimumMatches
  <2>1. result = AnyOfError(c.anyOf.minimumMatches, numSat, unsatAny)
    BY <1>1, <1>6 DEF VerifySignaturesAgainstConfig, unsatAll, unsatAny, numSat
  <2>2. ~SpecVerifies(c, ls)
    <3>1. Cardinality(satAny) < c.anyOf.minimumMatches
      BY <1>3, <1>6
    <3>2. QED
      BY <3>1, <1>3, <1>6 DEF SpecVerifies, satAny
  <2>3. ListsUnsatisfied(unsatAny, c.anyOf.signatures, ls)
    BY <1>3, <1>6 DEF ListsUnsatisfied, satAny
  <2>4. QED
    BY <1>3, <1>6, <2>1, <2>2, <2>3 DEF AnyOfError
<1>7. CASE /\ ~(c.allOf = NotSet /\ c.anyOf = NotSet)
           /\ ~(c.allOf # NotSet /\ unsatAll # <<>>)
           /\ ~(c.anyOf # NotSet /\ numSat < c.anyOf.minimumMatches)
  <2>1. result = VerifyOk
    BY <1>1, <1>7 DEF VerifySignaturesAgainstConfig, unsatAll, unsatAny, numSat
  <2>2. c.allOf # NotSet => satAll = 1..Len(c.allOf)
    BY <1>2, <1>7
  <2>3. c.anyOf # NotSet => Cardinality(satAny) >= c.anyOf.minimumMatches
    <3> HAVE c.anyOf # NotSet
    <3>1. ~(numSat < c.anyOf.minimumMatches)
      BY <1>7
    <3>2. numSat = Cardinality(satAny) /\ numSat \in Nat /\ c.anyOf.minimumMatches \in Nat
      BY <1>3
    <3>3. QED
      BY <3>1, <3>2
  <2>4. SpecVerifies(c, ls)
    BY <1>7, <2>2, <2>3 DEF SpecVerifies, satAll, satAny
  <2>5. QED
    BY <2>1, <2>4 DEF VerifyOk
<1>8. QED
  BY <1>4, <1>5, <1>6, <1>7

LEMMA SigInvInit == Init => SigInv
  BY DEF Init, SigInv

LEMMA SigInvStep == SigInv /\ [Verify]_vars => SigInv'
  BY DEF SigInv, Verify, vars

(* For every set of signers and every bound on the lists and on           *)
(* minimum_matches, verify_signatures_against_config accepts exactly the  *)
(* configs the spec accepts; an any_of failure reports minimum_matches and *)
(* the number of satisfied constraints, and every failure lists exactly    *)
(* the unsatisfied constraints of the list that failed.                    *)
THEOREM DecisionCorrect == Spec => []VerifyAgreesWithSpec
<1>1. SigInv => VerifyAgreesWithSpec
  BY DecisionAgrees
<1>2. QED
  BY <1>1, SigInvInit, SigInvStep, PTL DEF Spec

=============================================================================
