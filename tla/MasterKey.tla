----------------------------- MODULE MasterKey -----------------------------
(***************************************************************************)
(* What a betterkey cluster promises: its nodes come to hold one master    *)
(* key, each in a file that never changes again.                           *)
(***************************************************************************)
CONSTANTS Nodes, Keys, NoKey

VARIABLE file

Init == file = [n \in Nodes |-> NoKey]

(* The key comes into being in the first file that is written.             *)
Create(n, k) ==
  /\ \A m \in Nodes : file[m] = NoKey
  /\ file' = [file EXCEPT ![n] = k]

(* A node without the key gets it from what another node holds.            *)
Copy(n, m) ==
  /\ file[n] = NoKey /\ file[m] # NoKey
  /\ file' = [file EXCEPT ![n] = file[m]]

Next == \E n \in Nodes : \/ \E k \in Keys : Create(n, k)
                         \/ \E m \in Nodes : Copy(n, m)

Spec == Init /\ [][Next]_file
=============================================================================
