------------------------------ MODULE Sources ------------------------------
(***************************************************************************)
(* The registry sources configuration of policy-fetcher (sources.rs):      *)
(* read_sources_file parses a YAML file into insecure hosts and, per host, *)
(* a list of certificate authorities given inline (Data) or by file path   *)
(* (Path); every authority is read and classified as a PEM or DER          *)
(* certificate, the first failure aborting the whole conversion.  The      *)
(* resulting Sources are turned into the OCI and sigstore client configs   *)
(* and, per certificate, into a rustls CertificateDer.                     *)
(*                                                                         *)
(* Byte strings are model values; what the x509 parsers accept of them is  *)
(* given by constant sets.  A HashMap is iterated in an arbitrary order,   *)
(* so a conversion that stops at the first failing host yields one of      *)
(* several errors: such operators return the set of possible results.      *)
(***************************************************************************)
EXTENDS Naturals, Sequences, FiniteSets

CONSTANTS
    Hosts,          \* registry hosts named in the file
    Bytes,          \* byte strings (certificate data, file contents)
    Paths,          \* certificate file paths
    PemData,        \* the byte strings parse_x509_pem accepts
    DerData,        \* the byte strings X509Certificate::from_der accepts
    PemContents,    \* PemContents[b]: the DER certificate inside PEM block b
    PemRest,        \* PemRest[b]: the bytes that follow the PEM block in b
    FileContent,    \* FileContent[p]: the content of file p, or Unreadable
    Unreadable      \* fs::read fails

ASSUME SourcesAssumption ==
    /\ PemData \subseteq Bytes
    /\ DerData \subseteq Bytes
    /\ PemContents \in [PemData -> DerData]
    /\ PemRest \in [PemData -> Bytes]
    /\ Unreadable \notin Bytes
    /\ FileContent \in [Paths -> Bytes \cup {Unreadable}]

(* RawSourceAuthority, tagged by `type`.                                   *)
RawSourceAuthority == [type : {"Data"}, data : Bytes] \cup [type : {"Path"}, path : Paths]

Certificate == [encoding : {"Pem", "Der"}, data : Bytes]

(* A SourceResult: Ok(value) or Err(kind of SourceError).                  *)
Ok(v) == [ok |-> TRUE, error |-> "none", value |-> v]
Err(e) == [ok |-> FALSE, error |-> e, value |-> <<>>]

(* RawCertificate::try_from(RawSourceAuthority): inline data as is, a     *)
(* path read from disk.                                                    *)
RawCertificateTryFrom(a) ==
    IF a.type = "Data" THEN Ok(a.data)
    ELSE IF FileContent[a.path] = Unreadable THEN Err("CannotReadCertificate")
    ELSE Ok(FileContent[a.path])

(* Certificate::try_from(RawCertificate): PEM first, then DER.             *)
CertificateTryFrom(b) ==
    IF b \in PemData THEN Ok([encoding |-> "Pem", data |-> b])
    ELSE IF b \in DerData THEN Ok([encoding |-> "Der", data |-> b])
    ELSE Err("InvalidCertificate")

(* One authority through both conversions (the two `?` of the loop body). *)
AuthorityTryFrom(a) ==
    LET raw == RawCertificateTryFrom(a) IN
    IF raw.ok THEN CertificateTryFrom(raw.value) ELSE raw

(* Mutant: authorities that fail to convert are skipped, not reported.     *)
HostCertificatesSkipping(auths) ==
    LET good == SelectSeq(auths, LAMBDA a : AuthorityTryFrom(a).ok) IN
    Ok([i \in 1..Len(good) |-> AuthorityTryFrom(good[i]).value])

(* The inner loop of SourceAuthorities::try_from for one host: the certs  *)
(* in list order, or the error of the first authority that fails.         *)
HostCertificates(auths) ==
    LET bad == {i \in 1..Len(auths) : ~AuthorityTryFrom(auths[i]).ok} IN
    IF bad = {} THEN Ok([i \in 1..Len(auths) |-> AuthorityTryFrom(auths[i]).value])
    ELSE AuthorityTryFrom(auths[CHOOSE i \in bad : \A j \in bad : i <= j])

(* SourceAuthorities::try_from(RawSourceAuthorities): the hosts in HashMap *)
(* order, returning at the first host whose list fails.                    *)
SourceAuthoritiesTryFrom(raw) ==
    LET bad == {h \in DOMAIN raw : ~HostCertificates(raw[h]).ok} IN
    IF bad = {} THEN {Ok([h \in DOMAIN raw |-> HostCertificates(raw[h]).value])}
    ELSE {HostCertificates(raw[h]) : h \in bad}

(* Sources::try_from(RawSources).                                          *)
SourcesTryFrom(insecure, raw) ==
    {IF r.ok THEN Ok([insecureSources |-> insecure, sourceAuthorities |-> r.value])
          ELSE r : r \in SourceAuthoritiesTryFrom(raw)}

(* read_sources_file: open the file (its io::Error converts into           *)
(* CannotReadCertificateError), parse the YAML, then Sources::try_from.     *)
ReadSourcesFile(opened, parsed, insecure, raw) ==
    IF ~opened THEN {Err("CannotReadCertificate")}
    ELSE IF ~parsed THEN {Err("FailedToParseYamlData")}
    ELSE SourcesTryFrom(insecure, raw)

(* Sources::is_insecure_source and Sources::source_authority.              *)
IsInsecureSource(s, host) == host \in s.insecureSources
SourceAuthority(s, host) ==
    IF host \in DOMAIN s.sourceAuthorities THEN {s.sourceAuthorities[host]} ELSE {}

(* From<Sources> for the oci_client and sigstore ClientConfigs: HTTPS     *)
(* unless some host is insecure, and every certificate of every host as   *)
(* an extra root, keyed here by (host, position) since the Vec follows     *)
(* HashMap order.  Certificates keep their encoding and data.             *)
ClientConfig(s) ==
    LET sa == s.sourceAuthorities
        positions == UNION {{<<h, i>> : i \in DOMAIN sa[h]} : h \in DOMAIN sa}
    IN [protocol |-> IF s.insecureSources = {} THEN "Https" ELSE "HttpsExcept",
        insecure |-> s.insecureSources,
        acceptInvalidCertificates |-> FALSE,
        extraRootCertificates |-> [p \in positions |-> sa[p[1]][p[2]]]]

(* TryFrom<&Certificate> for CertificateDer: DER data as is; PEM data is   *)
(* parsed again and the conversion takes field 0 of the parser's          *)
(* (remaining input, Pem) pair.                                            *)
ToCertificateDer(c) ==
    IF c.encoding = "Der" THEN Ok(c.data)
    ELSE IF c.data \in PemData THEN Ok(PemRest[c.data])
    ELSE Err("Failed to parse PEM data")

=============================================================================
