---------------------------- MODULE SourcesProofs ----------------------------
(***************************************************************************)
(* Proof that read_sources_file agrees with the sources file contract of   *)
(* the spec for every set of hosts, byte strings, paths and parsers, and   *)
(* for any HashMap order (ReadSourcesMatchesSpec of MCSources).            *)
(***************************************************************************)
EXTENDS MCSources, FiniteSetTheorems, TLAPS

USE SourcesAssumption

(* A non-empty set of naturals has a least element: the CHOOSE of         *)
(* HostCertificates, which picks the first failing authority, picks one.   *)
LEMMA NatMin ==
  ASSUME NEW T \in SUBSET Nat, T # {}
  PROVE  \E i \in T : \A j \in T : i <= j
<1>1. PICK x \in T : \A y \in T : ~(<<y, x>> \in OpToRel(<, Nat))
  BY NatLessThanWellFounded, WFMin
<1>2. \A y \in T : y < x => <<y, x>> \in OpToRel(<, Nat)
  BY Zenon DEF OpToRel
<1>3. \A y \in T : ~(y < x)
  BY <1>1, <1>2, Zenon
<1>4. QED
  BY <1>3

(* One authority converts exactly when the data it stands for (inline, or  *)
(* the readable content of its file) is PEM or DER, and then into the     *)
(* certificate the spec names: PEM is tried first.                        *)
LEMMA AuthorityOk ==
  ASSUME NEW a \in RawSourceAuthority
  PROVE  /\ AuthorityTryFrom(a).ok <=> DataOf(a) \in PemData \cup DerData
         /\ AuthorityTryFrom(a).ok => AuthorityTryFrom(a).value = SpecCertificate(a)
<1>1. CASE a.type = "Data"
  BY <1>1 DEF AuthorityTryFrom, RawCertificateTryFrom, CertificateTryFrom,
              DataOf, SpecCertificate, Ok, Err
<1>2. CASE a.type = "Path"
  <2>1. a.path \in Paths
    BY <1>2 DEF RawSourceAuthority
  <2>2. FileContent[a.path] = Unreadable => FileContent[a.path] \notin PemData \cup DerData
    OBVIOUS
  <2>3. QED
    BY <1>2, <2>2 DEF AuthorityTryFrom, RawCertificateTryFrom, CertificateTryFrom,
                      DataOf, SpecCertificate, Ok, Err
<1>3. QED
  BY <1>1, <1>2 DEF RawSourceAuthority

(* The certificates of one host: the list converts exactly when every     *)
(* authority does, into the certificates in file order; otherwise the      *)
(* result is the error of a failing authority.                            *)
LEMMA HostOk ==
  ASSUME NEW auths \in Seq(RawSourceAuthority)
  PROVE  /\ HostCertificates(auths).ok <=>
               \A i \in 1..Len(auths) : DataOf(auths[i]) \in PemData \cup DerData
         /\ HostCertificates(auths).ok =>
               HostCertificates(auths).value = [i \in 1..Len(auths) |-> SpecCertificate(auths[i])]
         /\ HostCertificates(auths).error # "pending"
<1> DEFINE bad == {i \in 1..Len(auths) : ~AuthorityTryFrom(auths[i]).ok}
<1>1. \A i \in 1..Len(auths) : auths[i] \in RawSourceAuthority
  OBVIOUS
<1>2. \A a \in RawSourceAuthority : AuthorityTryFrom(a).error # "pending"
  BY DEF RawSourceAuthority, AuthorityTryFrom, RawCertificateTryFrom, CertificateTryFrom, Ok, Err
<1>3. CASE bad = {}
  <2>1. \A i \in 1..Len(auths) : AuthorityTryFrom(auths[i]).ok
    BY <1>3
  <2>2. HostCertificates(auths) = Ok([i \in 1..Len(auths) |-> AuthorityTryFrom(auths[i]).value])
    BY <1>3 DEF HostCertificates
  <2>3. \A i \in 1..Len(auths) :
           /\ AuthorityTryFrom(auths[i]).value = SpecCertificate(auths[i])
           /\ DataOf(auths[i]) \in PemData \cup DerData
    BY <1>1, <2>1, AuthorityOk
  <2>4. [i \in 1..Len(auths) |-> AuthorityTryFrom(auths[i]).value]
          = [i \in 1..Len(auths) |-> SpecCertificate(auths[i])]
    BY <2>3
  <2>5. /\ HostCertificates(auths).ok
        /\ HostCertificates(auths).error = "none"
        /\ HostCertificates(auths).value = [i \in 1..Len(auths) |-> SpecCertificate(auths[i])]
    BY <2>2, <2>4 DEF Ok
  <2>6. QED
    BY <2>3, <2>5
<1>4. CASE bad # {}
  <2>0. bad \in SUBSET Nat
    OBVIOUS
  <2>1. PICK k \in bad : \A j \in bad : k <= j
    BY <1>4, <2>0, NatMin
  <2>2. (CHOOSE i \in bad : \A j \in bad : i <= j) \in bad
    BY <2>1
  <2>3. PICK c \in bad : HostCertificates(auths) = AuthorityTryFrom(auths[c])
    BY <1>4, <2>2 DEF HostCertificates
  <2>4. ~\A i \in 1..Len(auths) : DataOf(auths[i]) \in PemData \cup DerData
    BY <1>1, AuthorityOk
  <2>5. QED
    BY <1>1, <1>2, <2>3, <2>4
<1>5. QED
  BY <1>3, <1>4


-----------------------------------------------------------------------------
(* The inductive invariant: the harness's inputs keep their types, and a  *)
(* result, once there, is one that read_sources_file can return on them.  *)
ReadInv ==
    /\ opened \in BOOLEAN
    /\ parsed \in BOOLEAN
    /\ insecure \in SUBSET Hosts
    /\ raw \in RawConfigs
    /\ result = NoResult \/ result \in ReadSourcesFile(opened, parsed, insecure, raw)

(* The (host, position) pairs of a map from hosts to certificate lists.    *)
Positions(sa) == UNION {{<<h, i>> : i \in DOMAIN sa[h]} : h \in DOMAIN sa}

LEMMA RawConfigsTyped ==
  ASSUME NEW r \in RawConfigs
  PROVE  \A h \in DOMAIN r : /\ r[h] \in Seq(RawSourceAuthority)
                             /\ DOMAIN r[h] = 1..Len(r[h])
<1>1. PICK D \in SUBSET Hosts : r \in [D -> AuthorityLists]
  BY DEF RawConfigs
<1>2. SUFFICES ASSUME NEW h \in D
               PROVE  /\ r[h] \in Seq(RawSourceAuthority)
                      /\ DOMAIN r[h] = 1..Len(r[h])
  BY <1>1
<1>3. PICK n \in 0..2 : r[h] \in [1..n -> RawSourceAuthority]
  BY <1>1 DEF AuthorityLists
<1>4. r[h] \in Seq(RawSourceAuthority)
  BY <1>3
<1>5. QED
  BY <1>4

(* Every result of read_sources_file agrees with the spec's contract on    *)
(* its inputs.                                                             *)
LEMMA ReadMatches ==
  ASSUME ReadInv
  PROVE  ReadSourcesMatchesSpec
<1> SUFFICES ASSUME result.error # "pending"
             PROVE  /\ result.ok <=> SpecValid
                    /\ result.ok =>
                          LET s == result.value
                              cfg == ClientConfig(s)
                          IN  /\ s.sourceAuthorities =
                                    [h \in DOMAIN raw |-> [i \in DOMAIN raw[h] |-> SpecCertificate(raw[h][i])]]
                              /\ \A h \in Hosts : IsInsecureSource(s, h) <=> h \in insecure
                              /\ (cfg.protocol = "Https") <=> (insecure = {})
                              /\ cfg.extraRootCertificates =
                                    [p \in UNION {{<<h, i>> : i \in DOMAIN raw[h]} : h \in DOMAIN raw} |->
                                        SpecCertificate(raw[p[1]][p[2]])]
  BY DEF ReadSourcesMatchesSpec
<1>1. result \in ReadSourcesFile(opened, parsed, insecure, raw)
  BY DEF ReadInv, NoResult
<1>2. CASE ~opened
  BY <1>1, <1>2 DEF ReadSourcesFile, SpecValid, Err
<1>3. CASE opened /\ ~parsed
  BY <1>1, <1>3 DEF ReadSourcesFile, SpecValid, Err
<1>4. CASE opened /\ parsed
  <2> DEFINE hc(h) == HostCertificates(raw[h])
             badH == {h \in DOMAIN raw : ~hc(h).ok}
  <2>1. \A h \in DOMAIN raw : /\ raw[h] \in Seq(RawSourceAuthority)
                              /\ DOMAIN raw[h] = 1..Len(raw[h])
    BY RawConfigsTyped DEF ReadInv
  <2>2. PICK r \in SourceAuthoritiesTryFrom(raw) :
           result = IF r.ok THEN Ok([insecureSources |-> insecure, sourceAuthorities |-> r.value])
                    ELSE r
    BY <1>1, <1>4 DEF ReadSourcesFile, SourcesTryFrom
  <2>3. CASE badH = {}
    <3>1. r = Ok([h \in DOMAIN raw |-> hc(h).value])
      BY <2>2, <2>3 DEF SourceAuthoritiesTryFrom
    <3>2. \A h \in DOMAIN raw :
             /\ \A i \in 1..Len(raw[h]) : DataOf(raw[h][i]) \in PemData \cup DerData
             /\ hc(h).value = [i \in DOMAIN raw[h] |-> SpecCertificate(raw[h][i])]
      BY <2>1, <2>3, HostOk
    <3>3. SpecValid
      BY <1>4, <2>1, <3>2 DEF SpecValid
    <3>4. [h \in DOMAIN raw |-> hc(h).value]
            = [h \in DOMAIN raw |-> [i \in DOMAIN raw[h] |-> SpecCertificate(raw[h][i])]]
      BY <3>2
    <3> DEFINE sa == [h \in DOMAIN raw |-> [i \in DOMAIN raw[h] |-> SpecCertificate(raw[h][i])]]
    <3>5. result = Ok([insecureSources |-> insecure, sourceAuthorities |-> sa])
      BY <2>2, <3>1, <3>4 DEF Ok
    <3>6. Positions(sa) = Positions(raw)
      BY DEF Positions
    <3>7. result.ok /\ result.value.sourceAuthorities = sa
      BY <3>5 DEF Ok
    <3>8. \A h \in Hosts : IsInsecureSource(result.value, h) <=> h \in insecure
      BY <3>5 DEF Ok, IsInsecureSource
    <3>9. (ClientConfig(result.value).protocol = "Https") <=> (insecure = {})
      BY <3>5 DEF Ok, ClientConfig
    <3>10. ClientConfig(result.value).extraRootCertificates =
             [p \in Positions(raw) |-> sa[p[1]][p[2]]]
      <4>1. ClientConfig(result.value).extraRootCertificates =
              [p \in Positions(result.value.sourceAuthorities) |->
                  result.value.sourceAuthorities[p[1]][p[2]]]
        BY DEF ClientConfig, Positions
      <4>2. QED
        BY <4>1, <3>6, <3>7
    <3>11. \A p \in Positions(raw) : sa[p[1]][p[2]] = SpecCertificate(raw[p[1]][p[2]])
      <4> TAKE p \in Positions(raw)
      <4>1. PICK x \in DOMAIN raw : \E y \in DOMAIN raw[x] : p = <<x, y>>
        BY DEF Positions
      <4>2. PICK y \in DOMAIN raw[x] : p = <<x, y>>
        BY <4>1
      <4>3. QED
        BY <4>2
    <3>12. QED
      BY <3>3, <3>7, <3>8, <3>9, <3>10, <3>11 DEF Positions
  <2>4. CASE badH # {}
    <3>1. PICK h \in badH : r = hc(h)
      BY <2>2, <2>4 DEF SourceAuthoritiesTryFrom
    <3>2. ~r.ok /\ result = r
      BY <2>2, <3>1
    <3>3. ~SpecValid
      BY <2>1, <3>1, HostOk DEF SpecValid
    <3>4. QED
      BY <3>2, <3>3
  <2>5. QED
    BY <2>3, <2>4
<1>5. QED
  BY <1>2, <1>3, <1>4

LEMMA ReadInvInit == Init => ReadInv
  BY DEF Init, ReadInv

LEMMA ReadInvStep == ReadInv /\ [Read]_vars => ReadInv'
  BY DEF ReadInv, Read, vars

(* Whatever the HashMap order and for every set of hosts, certificate     *)
(* data, file contents and parser behaviour, read_sources_file accepts     *)
(* exactly the files the spec accepts, keeps each host's certificates in   *)
(* file order, and the client configs built from the result use HTTPS for *)
(* exactly the secure hosts and trust exactly those certificates.          *)
THEOREM ReadSourcesCorrect == Spec => []ReadSourcesMatchesSpec
<1>1. ReadInv => ReadSourcesMatchesSpec
  BY ReadMatches
<1>2. QED
  BY <1>1, ReadInvInit, ReadInvStep, PTL DEF Spec

=============================================================================
