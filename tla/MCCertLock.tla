----------------------------- MODULE MCCertLock -----------------------------
(* Instances of the certificate lock for TLC: two threads of one node and  *)
(* one of another.                                                         *)
EXTENDS CertLock

CONSTANTS t1, t2, t3

MCNodeOf == [t \in Threads |-> IF t = t3 THEN "n2" ELSE "n1"]
=============================================================================
