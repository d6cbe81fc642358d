----------------------------- MODULE ClusterInv -----------------------------
(***************************************************************************)
(* The inductive invariant behind ReadyAgreement and KeyAgreement.         *)
(***************************************************************************)
EXTENDS Cluster

(* x has, or is about to seal, a key it got by seeding.                    *)
Committed(x, k) == \/ x \in seeded /\ disk[x] = k
                   \/ status[x] = "SEEDING" /\ sealing[x] = k

Holds(x, k) == generatedKey[x] = k \/ Committed(x, k)

(* The life of x that is running now has k from y or will receive it.      *)
Heard(x, y, k) == \/ BagIn(Msg("KEYINIT", y, k), net[x])
                  \/ y \in receivedFrom[x] /\ generatedKey[x] = k
                  \/ Committed(x, k)

(* When two seed nodes have heard different keys of one another, one of    *)
(* them still is in the life that sent its key: a key cannot be older than *)
(* the lives of both.                                                      *)
NoCrossing ==
  \A x, y \in Seeds : \A k, l \in Keys :
    x # y /\ k # l /\ Heard(x, y, k) /\ Heard(y, x, l)
      => Holds(y, k) \/ Holds(x, l)

OneKey == \A x \in Seeds : \A k, l \in Keys : Holds(x, k) /\ Holds(x, l) => k = l

(* What the state of a process says about its key file and its exchange.   *)
Lifecycle ==
  \A n \in Nodes :
    /\ status[n] \in {"NO_KEY", "SEEDING", "QUERY_KEY"} => ~HasKey(n)
    /\ status[n] \in {"VALIDATING", "READY"} => HasKey(n)
    /\ status[n] = "DOWN" => main[n] = "start"
    /\ main[n] = "start" => status[n] \in {"DOWN", "INIT"}
    /\ status[n] = "INIT" /\ main[n] # "start" => HasKey(n)
    /\ sealing[n] # NoKey => status[n] \in {"SEEDING", "QUERY_KEY"}
    /\ n \in seeded => n \in Seeds /\ HasKey(n)
    /\ status[n] = "SEEDING" => n \in Seeds
    /\ generatedKey[n] # NoKey => \/ status[n] = "SEEDING"
                                  \/ status[n] = "READY" /\ n \in seeded

Exchange ==
  \A n \in Nodes :
    /\ otherSeedNodes[n] \in {Others(n), {}}
    /\ exchanged[n] \subseteq otherSeedNodes[n]
    /\ receivedFrom[n] \subseteq exchanged[n]
    /\ receivedFrom[n] # {} => generatedKey[n] \in Keys
    /\ receivedFrom[n] # {} /\ receivedFrom[n] = otherSeedNodes[n]
         => Committed(n, generatedKey[n])

(* Goroutines and messages of the exchange carry the key of the process    *)
(* that started them.                                                      *)
Goroutines ==
  \A n \in Nodes : \A j \in BagToSet(jobs[n]) :
    /\ j.kind \in {"SEED_KEY", "FORWARD", "CLEANUP"}
         => n \in Seeds /\ Holds(n, j.key)
    /\ j.kind = "SEED_KEY" => j.to # n
    /\ j.kind \in {"FORWARD", "CLEANUP"}
         => receivedFrom[n] # {} \/ Committed(n, j.key)
    /\ j.kind = "CLEANUP" => exchanged[n] = otherSeedNodes[n]

Messages ==
  \A n \in Nodes : \A m \in BagToSet(net[n]) :
    m.type = "KEYINIT" => m.from \in Seeds \ {n} /\ m.key \in Keys

(* Every key outside the exchange is one that a seed node sealed, but for  *)
(* the key file of a joiner that has not become READY.                     *)
Sealed(k) == \E s \in seeded : disk[s] = k

Provenance ==
  \A n \in Nodes :
    /\ HasKey(n) /\ (n \in Seeds \/ status[n] = "READY") => Sealed(disk[n])
    /\ status[n] = "QUERY_KEY" /\ sealing[n] # NoKey => Sealed(sealing[n])
    /\ \A m \in BagToSet(net[n]) :
          m.type \in {"KEYQUERY_RESP", "CHALLENGE_RESP"} => Sealed(m.key)
    /\ \A j \in BagToSet(jobs[n]) :
          j.kind \in {"KEY_REPLY", "CHALLENGE_REPLY"} => Sealed(j.key)

(* Together with TypeOK, what every step preserves.                        *)
AgreementInv ==
  /\ Lifecycle /\ Exchange /\ Goroutines /\ Messages /\ Provenance
  /\ OneKey /\ NoCrossing

(* When no node was given a key file, no other key is on any disk.         *)
FilesSealed == \A n \in Nodes : HasKey(n) => Sealed(disk[n])
-----------------------------------------------------------------------------
(* The invariant behind ClusterIsolation, when the seed nodes are of one   *)
(* cluster: a key, or an answer that carries one, is only ever with a node *)
(* of theirs.                                                              *)
SeedsTogether == \A s, t \in Seeds : ClusterOf[s] = ClusterOf[t]

WithSeeds(n) == \A s \in Seeds : ClusterOf[s] = ClusterOf[n]

IsolationInv ==
  \A n \in Nodes :
    /\ HasKey(n) \/ sealing[n] # NoKey => WithSeeds(n)
    /\ \A m \in BagToSet(net[n]) : m.type = "KEYQUERY_RESP" => WithSeeds(m.from)
    /\ \A j \in BagToSet(jobs[n]) : j.kind = "KEY_REPLY" => WithSeeds(n)
-----------------------------------------------------------------------------
(* No node is of another cluster than the rest.                            *)
SameCluster == \A m, n \in Nodes : ClusterOf[m] = ClusterOf[n]

(* The invariant behind NoPanic, when the first seed node does not crash   *)
(* and all nodes are of one cluster: seed() draws one key, because its     *)
(* process never waits for the seed nodes a second time, and no other key  *)
(* is in the exchange.                                                     *)
OneSeeding ==
  /\ \A k, l \in generated : k = l
  /\ generated # {} => Master \in Seeds /\ main[Master] = "seed"
  /\ \A n \in Nodes :
       /\ generatedKey[n] \in {NoKey, DummyKey} \cup generated
       /\ \A m \in BagToSet(net[n]) : m.type = "KEYINIT" => m.key \in generated
       /\ \A j \in BagToSet(jobs[n]) :
            j.kind \in {"SEED_KEY", "FORWARD", "CLEANUP"} => j.key \in generated
=============================================================================
