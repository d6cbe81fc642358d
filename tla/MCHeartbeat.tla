----------------------------- MODULE MCHeartbeat -----------------------------
(* Two peers that are READY, one with a key of its own, one that is not    *)
(* READY, and this node reached under its own address.                     *)
EXTENDS Heartbeat

FivePushPulls == 1 .. 5
Senders == <<"peer", "peer", "stray", "joining", "self">>
Keys == [peer |-> "cluster", self |-> "cluster", stray |-> "other", joining |-> NoKey]
=============================================================================
