----------------------------- MODULE MCTransport -----------------------------
(* Peers of this cluster send anything; the others, each with one thing    *)
(* wrong in what it presents, send a packet.                               *)
EXTENDS Transport

Config == [productId |-> 1, securityVersions |-> {1, 2}, debug |-> FALSE, signerId |-> "signer"]
Own == [productId |-> 1, securityVersion |-> 2, debug |-> FALSE, signerId |-> "signer"]
Cert(enclave) == NewNodeTlsConfig(enclave, "key")

OtherEnclaves ==
  {[Own EXCEPT !.productId = 2], [Own EXCEPT !.securityVersion = 3],
   [Own EXCEPT !.debug = TRUE], [Own EXCEPT !.signerId = "other"]}
Rejected ==
  {<<>>, <<[Cert(Own) EXCEPT !.signedBy = "other"]>>,
   <<[Cert(Own) EXCEPT !.reports = <<>>]>>,
   <<[Cert(Own) EXCEPT !.key = "other", !.signedBy = "other"]>>,
   <<[Cert(Own) EXCEPT !.reports[1].genuine = FALSE]>>}
  \cup {<<Cert(e)>> : e \in OtherEnclaves}

AnyRequest ==
  [type : {"packet", "stream", "other"}, length : 0 .. 1, certs : {<<Cert(Own)>>}]
    \cup [type : {"packet"}, length : {1}, certs : Rejected]
=============================================================================
