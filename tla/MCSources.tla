----------------------------- MODULE MCSources -----------------------------
(***************************************************************************)
(* read_sources_file and the client configs, on every sources file with    *)
(* two hosts and up to two authorities per host, checked against the      *)
(* sources file contract of the spec (section 5): certificates must parse *)
(* as PEM or DER, and a malformed file or an invalid certificate is a     *)
(* startup error.                                                          *)
(***************************************************************************)
EXTENDS Sources

CONSTANTS h1, h2, pem1, der1, junk, empty, p1, p2

MCHosts == {h1, h2}
MCBytes == {pem1, der1, junk, empty}
MCPaths == {p1, p2}
MCPemData == {pem1}
MCDerData == {der1}
MCPemContents == [b \in {pem1} |-> der1]
MCPemRest == [b \in {pem1} |-> empty]
MCFileContent == [p \in {p1, p2} |-> IF p = p1 THEN pem1 ELSE Unreadable]

AuthorityLists == UNION {[1..n -> RawSourceAuthority] : n \in 0..2}
RawConfigs == UNION {[D -> AuthorityLists] : D \in SUBSET Hosts}

VARIABLES opened, parsed, insecure, raw, result

vars == <<opened, parsed, insecure, raw, result>>

NoResult == [ok |-> FALSE, error |-> "pending", value |-> <<>>]

Init ==
    /\ opened \in BOOLEAN
    /\ parsed \in BOOLEAN
    /\ insecure \in SUBSET Hosts
    /\ raw \in RawConfigs
    /\ result = NoResult

(* One call of read_sources_file, in any HashMap order.                    *)
Read ==
    /\ result.error = "pending"
    /\ result' \in ReadSourcesFile(opened, parsed, insecure, raw)
    /\ UNCHANGED <<opened, parsed, insecure, raw>>

Spec == Init /\ [][Read]_vars

-----------------------------------------------------------------------------
(* The reference: the data an authority stands for, and the spec's rule.  *)
DataOf(a) == IF a.type = "Data" THEN a.data ELSE FileContent[a.path]

SpecValid ==
    /\ opened
    /\ parsed
    /\ \A h \in DOMAIN raw : \A i \in DOMAIN raw[h] :
          DataOf(raw[h][i]) \in PemData \cup DerData

SpecCertificate(a) ==
    [encoding |-> IF DataOf(a) \in PemData THEN "Pem" ELSE "Der", data |-> DataOf(a)]

(* Whatever the HashMap order, read_sources_file succeeds exactly when the *)
(* file opens, parses and every certificate of every host is PEM or DER;  *)
(* the Sources it returns keep every host's certificates in file order,   *)
(* and the registry client configs built from them use HTTPS for exactly *)
(* the hosts not listed insecure and trust exactly those certificates.    *)
ReadSourcesMatchesSpec ==
    result.error # "pending" =>
        /\ result.ok <=> SpecValid
        /\ result.ok =>
              LET s == result.value
                  cfg == ClientConfig(s)
              IN  /\ s.sourceAuthorities =
                        [h \in DOMAIN raw |-> [i \in DOMAIN raw[h] |-> SpecCertificate(raw[h][i])]]
                  /\ \A h \in Hosts : IsInsecureSource(s, h) <=> h \in insecure
                  /\ (cfg.protocol = "Https") <=> (insecure = {})
                  /\ cfg.extraRootCertificates =
                        [p \in UNION {{<<h, i>> : i \in DOMAIN raw[h]} : h \in DOMAIN raw} |->
                            SpecCertificate(raw[p[1]][p[2]])]

(* Every certificate accepted at startup converts to the DER encoding of  *)
(* that certificate when a rustls root store is built from it (the        *)
(* TryFrom<&Certificate> for CertificateDer conversion).                  *)
PemConvertsToItsDer ==
    result.ok =>
        \A h \in DOMAIN result.value.sourceAuthorities :
           \A i \in DOMAIN result.value.sourceAuthorities[h] :
              LET c == result.value.sourceAuthorities[h][i] IN
              /\ ToCertificateDer(c).ok
              /\ ToCertificateDer(c).value =
                    IF c.encoding = "Der" THEN c.data ELSE PemContents[c.data]

=============================================================================
