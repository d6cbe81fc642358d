------------------------------ MODULE MCCluster ------------------------------
(* Instances of the cluster for TLC.                                       *)
EXTENDS ClusterInv

(* As in the compose files: every node lists the seed nodes.               *)
MCPeers == [n \in Nodes |-> Seeds]
OneCluster == [n \in Nodes |-> "c1"]
(* A joiner that was started with another CLUSTER_ID.                      *)
ForeignJoiner == [n \in Nodes |-> IF n \in Joiners THEN "c2" ELSE "c1"]

=============================================================================
