------------------------------- MODULE Enclave -------------------------------
(***************************************************************************)
(* sgx/enclave.go: what a node asks of the certificates a peer presents.   *)
(* A certificate carries a public key, who signed it and the attestation   *)
(* reports among its extensions.                                           *)
(***************************************************************************)
EXTENDS Sequences

CONSTANTS
  EnclaveConfig        \* productId, securityVersions, debug and signerId

(* GetRemoteReport and VerifyRemoteReport (ego): a report is genuine when  *)
(* an enclave made it, over the data it was given.                         *)
GetRemoteReport(enclave, data) == [enclave |-> enclave, data |-> data, genuine |-> TRUE]

VerifyReport(enclave) ==
  /\ enclave.productId = EnclaveConfig.productId
  /\ enclave.securityVersion \in EnclaveConfig.securityVersions
  /\ enclave.debug = EnclaveConfig.debug
  /\ enclave.signerId = EnclaveConfig.signerId

(* NewNodeTlsConfig: a new key, and a report over its hash.                *)
NewNodeTlsConfig(enclave, key) ==
  [key |-> key, signedBy |-> key, reports |-> <<GetRemoteReport(enclave, key)>>]

(* Mutant: the report may be over any key.                                 *)
CertVerifierAnyKey(certs) ==
  /\ certs # <<>>
  /\ LET cert == Head(certs)
     IN /\ cert.signedBy = cert.key
        /\ cert.reports # <<>>
        /\ Head(cert.reports).genuine /\ VerifyReport(Head(cert.reports).enclave)

(* The first certificate counts, and in it the first report.               *)
CertVerifier(certs) ==
  /\ certs # <<>>
  /\ LET cert == Head(certs)
     IN /\ cert.signedBy = cert.key
        /\ cert.reports # <<>>
        /\ Head(cert.reports).genuine
        /\ Head(cert.reports).data = cert.key
        /\ VerifyReport(Head(cert.reports).enclave)
=============================================================================
