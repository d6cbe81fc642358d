----------------------------- MODULE ClusterBase -----------------------------
(***************************************************************************)
(* What every part of a betterkey node shares: the process and its         *)
(* NodeState, the sealed master-key file, the goroutines that still have   *)
(* something to do, and the connections of the memberlist transport.       *)
(*                                                                         *)
(* A message travels on a TLS/TCP connection of its own, so messages are   *)
(* not ordered, none is lost while its receiver lives, and what a process  *)
(* has not consumed dies with it.                                          *)
(***************************************************************************)
EXTENDS Naturals, FiniteSets, Bags

CONSTANTS
  Seeds,        \* SEED_NODES; numbers stand for the sorted node names
  Joiners,      \* the other nodes
  Peers,        \* CLUSTER_PEERS of each node
  ClusterOf,    \* CLUSTER_ID of each node
  Keys,         \* what rand.Read may return; bounds the number of seedings
  NoKey,        \* no key: an empty slice, no file
  DummyKey,     \* seed.go's dummyKey
  Torn,         \* a key file that is neither absent nor readable
  AlwaysListed, \* nodes that no member list loses again once they have started
  Crashing,     \* nodes that may crash
  MaxRestarts,  \* bound on the restarts of one behaviour
  MaxCrashes,   \* bound on the crashes of one behaviour
  MaxFailures   \* bound on sends that fail although the receiver is up

Nodes == Seeds \cup Joiners

ASSUME NodesAssumption ==
  /\ Seeds \subseteq Nat /\ Joiners \subseteq Nat
  /\ IsFiniteSet(Seeds) /\ Seeds \cap Joiners = {}
ASSUME ConfigAssumption ==
  /\ DOMAIN ClusterOf = Nodes
  /\ Peers \in [Nodes -> SUBSET Nodes]
  /\ AlwaysListed \subseteq Nodes /\ Crashing \subseteq Nodes
ASSUME KeysAssumption ==
  /\ NoKey \notin Keys /\ DummyKey \notin Keys /\ Torn \notin Keys
  /\ NoKey # DummyKey /\ NoKey # Torn /\ DummyKey # Torn
ASSUME BoundsAssumption == MaxCrashes \in Nat /\ MaxRestarts \in Nat /\ MaxFailures \in Nat

VARIABLES
  status,       \* NodeState.state; "DOWN" while there is no process
  main,         \* where Start() is: "start", "join", "wait", or how it ended:
                \* "ready", "seed", "query" or "validate"
  disk,         \* the sealed key file: a key, NoKey or Torn
  sealing,      \* the key loop() is about to write, NoKey when loop() is idle
  jobs,         \* bag of goroutines that still have something to do
  asking,       \* READY peers a query or challenge goroutine may still try
  net,          \* bag of messages on their way to a node or in its inMessages
  booted,       \* nodes that have been in some member list
  wasReady,     \* nodes that have gossiped READY at some time
  crashes, restarts, failures,
  seeded        \* history: nodes that sealed a key they got by seeding

procVars == <<status, main, sealing, asking>>
viewVars == <<booted, wasReady>>
boundVars == <<crashes, restarts, failures>>

Status == {"DOWN", "INIT", "NO_KEY", "SEEDING", "VALIDATING", "QUERY_KEY",
           "READY"}
Main == {"start", "join", "wait", "ready", "seed", "query", "validate"}
Message == [type : {"CHALLENGE", "CHALLENGE_RESP", "KEYQUERY",
                    "KEYQUERY_RESP", "KEYINIT"},
            from : Nodes, key : Keys \cup {NoKey}]
Job == [kind : {"SEED_KEY", "FORWARD", "CLEANUP", "KEY_REPLY",
                "CHALLENGE_REPLY", "STUCK_REPLY"},
        to : Nodes, key : Keys]

(* CHALLENGE_RESP carries the challenger's id encrypted under the key.     *)
Msg(t, n, k) == [type |-> t, from |-> n, key |-> k]
Go(t, p, k) == [kind |-> t, to |-> p, key |-> k]

Up(n) == status[n] # "DOWN"
HasKey(n) == disk[n] \in Keys

Put(b, e) == b (+) SetToBag({e})
Take(b, e) == b (-) SetToBag({e})

(* SendReliable: dial, handshake and write succeed only while the receiver *)
(* runs; they may fail though it does.                                     *)
Send(to, m) ==
  /\ Up(to)
  /\ net' = [net EXCEPT ![to] = Put(@, m)]
  /\ UNCHANGED failures

SendFails(to) ==
  /\ Up(to) => failures < MaxFailures
  /\ failures' = IF Up(to) THEN failures + 1 ELSE failures
  /\ UNCHANGED net

SetStatus(n, s) ==
  /\ status' = [status EXCEPT ![n] = s]
  /\ wasReady' = IF s = "READY" THEN wasReady \cup {n} ELSE wasReady

Consume(n, m) == net' = [net EXCEPT ![n] = Take(@, m)]
=============================================================================
