------------------------------ MODULE MCJournal ------------------------------
(* Instances of the key server with its journal for TLC.                   *)
EXTENDS MCKeyServer, KeyApi

(* One VM, which presents its own log: the journal does not tell VMs apart.*)
OneMachine == {[mrtd |-> <<"td">>, log |-> SecureBoot]}
OneLog == {SecureBoot}
=============================================================================
