----------------------------- MODULE SeedProofs -----------------------------
(***************************************************************************)
(* The steps of seeding preserve the invariant of key agreement.           *)
(***************************************************************************)
EXTENDS ClusterFrame

(* The two goroutines that send the key of an exchange.                    *)
LEMMA SendSeedKeyUntouched ==
  ASSUME Inv, TypeOK', NEW n \in Nodes, NEW j \in BagToSet(jobs[n]),
         SendSeedKey(n, j.to, j.key)
  PROVE  AgreementInv'
<1>. USE DEF Inv, AgreementInv, procVars, seedVars, exchangeVars
<1>. DEFINE e == Msg("KEYINIT", n, j.key)
<1>1. Lifecycle'
  BY DEF SendSeedKey, Lifecycle, HasKey
<1>2. j.to \in Nodes \ {n} /\ j.key \in Keys /\ n \in Seeds /\ Holds(n, j.key)
  BY DEF SendSeedKey, TypeOK, BagsOf, Job, Goroutines, BagIn, Go
<1>3. \A x \in Nodes : \A i \in BagToSet(net'[x]) : i \in BagToSet(net[x]) \/ Sendable(x, i)
  <2>1. \A x \in Nodes : BagToSet(net'[x]) \subseteq BagToSet(net[x]) \cup {i \in {e} : x = j.to}
    BY <1>2, Sent DEF SendSeedKey
  <2>. QED  BY <1>2, <2>1 DEF Sendable, Msg
<1>4. \A x \in Nodes : \A i \in BagToSet(jobs'[x]) : i \in BagToSet(jobs[x])
  <2>1. /\ BagsOf(jobs, Job)
        /\ jobs' = [jobs EXCEPT ![n] = Take(@, Go("SEED_KEY", j.to, j.key))]
    BY DEF SendSeedKey, TypeOK
  <2>. QED  BY <2>1, TakenOut
<1>5. KeysUntouched
  BY <1>3, <1>4 DEF SendSeedKey, KeysUntouched, Committed, Provenance
<1>. QED  BY <1>1, <1>5, Untouched

LEMMA ForwardUntouched ==
  ASSUME Inv, TypeOK', NEW n \in Nodes, NEW j \in BagToSet(jobs[n]),
         NEW D \in SUBSET otherSeedNodes[n], Forward(n, j.key, D)
  PROVE  AgreementInv'
<1>. USE DEF Inv, AgreementInv, procVars
<1>. DEFINE e == Msg("KEYINIT", n, j.key)
            a == Go("FORWARD", n, j.key)
            b == Go("CLEANUP", n, j.key)
<1>1. Lifecycle'
  BY DEF Forward, Lifecycle, HasKey
<1>2. /\ j.key \in Keys /\ n \in Seeds /\ Holds(n, j.key)
      /\ receivedFrom[n] # {} \/ Committed(n, j.key)
  <2>1. a \in BagToSet(jobs[n])
    BY DEF Forward, BagIn
  <2>. QED  BY <2>1 DEF TypeOK, BagsOf, Job, Goroutines, Go
<1>3. exchanged' = [exchanged EXCEPT ![n] = otherSeedNodes[n]]
  <2>1. exchanged' = [exchanged EXCEPT ![n] = @ \cup otherSeedNodes[n]]
    BY DEF Forward
  <2>2. exchanged[n] \cup otherSeedNodes[n] = otherSeedNodes[n]
    BY DEF Exchange
  <2>. QED  BY <2>1, <2>2, Zenon DEF TypeOK
<1>4. \A x \in Nodes : \A i \in BagToSet(net'[x]) : i \in BagToSet(net[x]) \/ Sendable(x, i)
  <2>1. D \subseteq Seeds \ {n}
    BY DEF Exchange, Others
  <2>2. \A x \in Nodes : /\ IsABag(net[x])
                         /\ net'[x] = IF x \in D THEN Put(net[x], e) ELSE net[x]
    BY DEF Forward, TypeOK, BagsOf
  <2>3. \A x \in Nodes : BagToSet(net'[x]) \subseteq BagToSet(net[x]) \cup {i \in {e} : x \in D}
    <3>. HIDE DEF e
    <3>. QED  BY <2>2, PutBag
  <2>. QED  BY <1>2, <2>1, <2>3 DEF Sendable, Msg
<1>5. \A x \in Nodes : \A i \in BagToSet(jobs'[x]) : i \in BagToSet(jobs[x]) \/ Startable(x, i)
  <2>1. /\ IsABag(jobs[n]) /\ jobs'[n] = Put(Take(jobs[n], a), b)
        /\ \A x \in Nodes \ {n} : jobs'[x] = jobs[x]
    BY DEF Forward, TypeOK, BagsOf
  <2>2. \A x \in Nodes : BagToSet(jobs'[x]) \subseteq BagToSet(jobs[x]) \cup {i \in {b} : x = n}
    <3>. HIDE DEF a, b
    <3>. QED  BY <2>1, Replaced
  <2>3. exchanged'[n] = otherSeedNodes[n]
    BY <1>3 DEF TypeOK
  <2>. QED  BY <1>2, <2>2, <2>3 DEF Startable, Go
<1>6. KeysUntouched
  <2>1. /\ UNCHANGED <<disk, seeded, generatedKey, receivedFrom, otherSeedNodes>>
        /\ UNCHANGED <<status, sealing>>
    BY DEF Forward
  <2>2. \A x \in Nodes : exchanged'[x] \in {exchanged[x], otherSeedNodes[x]}
    BY <1>3 DEF TypeOK
  <2>. QED  BY <1>4, <1>5, <2>1, <2>2 DEF KeysUntouched, Committed, Provenance
<1>. QED  BY <1>1, <1>6, Untouched
-----------------------------------------------------------------------------
(* NoCrossing survives a step in which nobody hears or loses a key.        *)
LEMMA NothingHeard ==
  ASSUME NoCrossing,
         \A u, v \in Seeds : \A i \in Keys : u # v /\ Heard(u, v, i)' => Heard(u, v, i),
         \A u \in Seeds : \A i \in Keys : Holds(u, i) => Holds(u, i)'
  PROVE  NoCrossing'
BY DEF NoCrossing

(* Seeding begins on a node that holds no key and runs no goroutine of an  *)
(* exchange.                                                               *)
LEMMA BeginSeedInv ==
  ASSUME Inv, TypeOK', NEW n \in Nodes, NEW members, BeginSeed(n, members),
         generatedKey'[n] # NoKey,
         \A x \in Nodes \ {n} : generatedKey'[x] = generatedKey[x] /\ jobs'[x] = jobs[x],
         \A j \in BagToSet(jobs'[n]) :
            \/ j \in BagToSet(jobs[n])
            \/ j.kind = "SEED_KEY" /\ j.key = generatedKey'[n] /\ j.to # n
  PROVE  AgreementInv'
<1>. DEFINE k == generatedKey'[n]
<1>. USE DEF Inv, AgreementInv, SetStatus
<1>1. /\ n \in Seeds /\ ~HasKey(n) /\ n \notin seeded /\ generatedKey[n] = NoKey
      /\ sealing[n] = NoKey /\ receivedFrom[n] = {} /\ status[n] = "NO_KEY"
  BY KeysAssumption, Zenon DEF BeginSeed, Lifecycle, Exchange
<1>2. \A i \in Keys : ~Holds(n, i)
  BY <1>1, KeysAssumption DEF Holds, Committed
<1>3. \A j \in BagToSet(jobs[n]) : j.kind \notin {"SEED_KEY", "FORWARD", "CLEANUP"}
  BY <1>2 DEF Goroutines, TypeOK, BagsOf, Job
<1>4. \A x \in Nodes : x # n => /\ status'[x] = status[x] /\ main'[x] = main[x]
                                /\ generatedKey'[x] = generatedKey[x]
                                /\ receivedFrom'[x] = receivedFrom[x]
                                /\ exchanged'[x] = exchanged[x] /\ jobs'[x] = jobs[x]
  BY DEF BeginSeed, TypeOK, BagsOf
<1>5. /\ status'[n] = "SEEDING" /\ main'[n] = "seed" /\ receivedFrom'[n] = {}
      /\ exchanged'[n] = {}
  BY DEF BeginSeed, TypeOK
<1>6. UNCHANGED <<disk, sealing, net, seeded, otherSeedNodes>>
  BY DEF BeginSeed
<1>7. \A x \in Nodes : \A i \in Keys : Committed(x, i)' <=> Committed(x, i)
  BY <1>1, <1>4, <1>5, <1>6, KeysAssumption DEF Committed
<1>8. Lifecycle'
  BY <1>1, <1>4, <1>5, <1>6, KeysAssumption DEF Lifecycle, HasKey
<1>9. Exchange'
  <2>1. \A x \in Nodes : x # n => (Committed(x, generatedKey[x]) => Committed(x, generatedKey[x])')
    BY <1>4, <1>6, Zenon DEF Committed
  <2>. QED  BY <1>4, <1>5, <1>6, <2>1 DEF Exchange, Others
<1>10. \A x \in Nodes : \A i \in Keys : Holds(x, i)' <=> Holds(x, i) \/ (x = n /\ i = k)
  BY <1>1, <1>4, <1>5, <1>7, KeysAssumption DEF Holds
<1>11. Goroutines'
  <2>. SUFFICES ASSUME NEW x \in Nodes, NEW j \in BagToSet(jobs'[x])
                PROVE  /\ j.kind \in {"SEED_KEY", "FORWARD", "CLEANUP"}
                            => x \in Seeds /\ Holds(x, j.key)'
                       /\ j.kind = "SEED_KEY" => j.to # x
                       /\ j.kind \in {"FORWARD", "CLEANUP"}
                            => receivedFrom'[x] # {} \/ Committed(x, j.key)'
                       /\ j.kind = "CLEANUP" => exchanged'[x] = otherSeedNodes'[x]
    BY DEF Goroutines
  <2>1. j.key \in Keys
    BY DEF TypeOK, BagsOf, Job
  <2>2. CASE x = n
    BY <1>1, <1>3, <1>10, <2>1, <2>2
  <2>3. CASE x # n
    BY <1>4, <1>6, <1>7, <1>10, <2>1, <2>3 DEF Goroutines
  <2>. QED  BY <2>2, <2>3, Zenon
<1>12. Messages'
  BY <1>6, Zenon DEF Messages
<1>13. Provenance'
  <2>1. \A i : Sealed(i)' <=> Sealed(i)
    BY <1>6 DEF Sealed
  <2>2. \A x \in Nodes : \A j \in BagToSet(jobs'[x]) :
           j.kind \in {"KEY_REPLY", "CHALLENGE_REPLY"} => Sealed(j.key)
    BY <1>4 DEF Provenance
  <2>. QED  BY <1>4, <1>5, <1>6, <2>1, <2>2 DEF Provenance, HasKey
<1>14. OneKey'
  BY <1>2, <1>10 DEF OneKey, Nodes
<1>15. NoCrossing'
  <2>1. \A u, v \in Seeds : \A i \in Keys : Heard(u, v, i)' => Heard(u, v, i)
    BY <1>4, <1>5, <1>6, <1>7 DEF Heard, Nodes
  <2>. QED  BY <1>10, <2>1, NothingHeard DEF Nodes
<1>. QED  BY <1>8, <1>9, <1>11, <1>12, <1>13, <1>14, <1>15

LEMMA StartSeedInv ==
  ASSUME Inv, TypeOK', NEW n \in Nodes, NEW members \in SUBSET (booted \ {n}),
         StartSeedAsMaster(n, members) \/ StartSeedAsSlave(n, members)
  PROVE  AgreementInv'
<1>1. IsABag(jobs[n]) /\ jobs = [p \in Nodes |-> jobs[p]]
  BY DEF Inv, TypeOK, BagsOf
<1>2. CASE StartSeedAsMaster(n, members)
  <2>1. PICK k \in Keys :
          /\ generatedKey' = [generatedKey EXCEPT ![n] = k]
          /\ jobs' = [jobs EXCEPT ![n] =
                       @ (+) SetToBag({Go("SEED_KEY", p, k) : p \in members})]
    BY <1>2, Zenon DEF StartSeedAsMaster
  <2>. DEFINE J == {Go("SEED_KEY", p, k) : p \in members}
  <2>2. \A j \in J : j.kind = "SEED_KEY" /\ j.key = k /\ j.to # n
    BY DEF Go
  <2>3. jobs'[n] = jobs[n] (+) SetToBag(J) /\ generatedKey'[n] = k
        /\ \A x \in Nodes \ {n} : generatedKey'[x] = generatedKey[x] /\ jobs'[x] = jobs[x]
    <3>. HIDE DEF J
    <3>1. jobs' = [jobs EXCEPT ![n] = @ (+) SetToBag(J)]
      BY <2>1 DEF J
    <3>. QED  BY <1>1, <2>1, <3>1 DEF Inv, TypeOK
  <2>4. BagToSet(jobs'[n]) = BagToSet(jobs[n]) \cup J
    <3>. HIDE DEF J
    <3>. QED  BY <1>1, <2>3, AddToBag
  <2>5. BeginSeed(n, members) /\ k # NoKey
    BY <1>2, KeysAssumption DEF StartSeedAsMaster
  <2>. HIDE DEF J
  <2>. QED  BY <2>2, <2>3, <2>4, <2>5, BeginSeedInv
<1>3. CASE StartSeedAsSlave(n, members)
  <2>1. /\ BeginSeed(n, members) /\ jobs' = jobs
        /\ generatedKey' = [generatedKey EXCEPT ![n] = DummyKey]
    BY <1>3 DEF StartSeedAsSlave
  <2>2. /\ generatedKey'[n] = DummyKey
        /\ \A x \in Nodes \ {n} : generatedKey'[x] = generatedKey[x]
    BY <2>1 DEF Inv, TypeOK
  <2>. QED  BY <2>1, <2>2, BeginSeedInv, KeysAssumption
<1>. QED  BY <1>2, <1>3

(* The exchange is complete exactly when every other seed node's key has   *)
(* been received.                                                          *)
LEMMA CompleteExchange ==
  ASSUME NEW stat, NEW received \in SUBSET stat, NEW others, stat \subseteq others,
         IsFiniteSet(others)
  PROVE  hasReceivedKeysFromAllSeedPeers(stat, received, others) <=> received = others
<1>1. IsFiniteSet(stat) /\ Cardinality(stat) <= Cardinality(others)
      /\ (Cardinality(stat) = Cardinality(others) => stat = others)
      /\ Cardinality(stat) \in Nat /\ Cardinality(others) \in Nat
  BY FS_Subset, FS_CardinalityType
<1>. QED  BY <1>1 DEF hasReceivedKeysFromAllSeedPeers

(* keyReceived: whatever n now has from m.from was on its way to it.       *)
LEMMA KeyReceivedInv ==
  ASSUME Inv, TypeOK', NEW n \in Nodes, NEW m \in BagToSet(net[n]),
         Received(n, m, "SEEDING", "KEYINIT"), KeyReceived(n, m)
  PROVE  AgreementInv'
<1>. USE DEF Inv, AgreementInv
<1>. DEFINE k == m.key
<1>1. /\ k \in Keys /\ m.from \in Seeds \ {n} /\ m = Msg("KEYINIT", m.from, k)
      /\ n \in Seeds /\ ~HasKey(n) /\ n \notin seeded /\ sealing[n] = NoKey
      /\ status[n] = "SEEDING"
  <2>1. m \in Message
    BY DEF TypeOK, BagsOf
  <2>. QED  BY <2>1, KeysAssumption, Zenon DEF Received, Messages, Lifecycle, Msg, Message
<1>2. /\ m.from \in otherSeedNodes[n] /\ otherSeedNodes[n] = Others(n)
      /\ generatedKey[n] \in {DummyKey, k}
      /\ (generatedKey[n] = DummyKey => receivedFrom[n] = {})
  BY <1>1, KeysAssumption, Zenon DEF KeyReceived, Exchange
<1>3. \A i \in Keys : ~Committed(n, i)
  BY <1>1, KeysAssumption DEF Committed
<1>4. \A x \in Nodes : x # n => /\ generatedKey'[x] = generatedKey[x]
                                /\ receivedFrom'[x] = receivedFrom[x]
                                /\ exchanged'[x] = exchanged[x] /\ jobs'[x] = jobs[x]
                                /\ sealing'[x] = sealing[x]
  BY DEF KeyReceived, TypeOK, BagsOf
<1>5. /\ generatedKey'[n] = k
      /\ receivedFrom'[n] = receivedFrom[n] \cup {m.from}
      /\ exchanged'[n] = exchanged[n] \cup {m.from}
      /\ sealing'[n] = IF hasReceivedKeysFromAllSeedPeers(exchanged'[n], receivedFrom'[n],
                                                           otherSeedNodes[n])
                       THEN k ELSE NoKey
  BY DEF KeyReceived, TypeOK
<1>6. UNCHANGED <<status, main, disk, seeded, otherSeedNodes>>
  BY DEF KeyReceived
<1>7. \A x \in Nodes : BagToSet(net'[x]) \subseteq BagToSet(net[x])
  BY Consumed DEF KeyReceived
<1>8. BagToSet(jobs'[n]) \subseteq BagToSet(jobs[n]) \cup {Go("FORWARD", n, k)}
  <2>1. IsABag(jobs[n]) /\ jobs'[n] = Put(jobs[n], Go("FORWARD", n, k))
    BY DEF KeyReceived, TypeOK, BagsOf
  <2>. QED  BY <2>1, PutBag
<1>9. /\ receivedFrom'[n] \subseteq exchanged'[n] /\ exchanged'[n] \subseteq otherSeedNodes[n]
      /\ sealing'[n] = IF receivedFrom'[n] = otherSeedNodes[n] THEN k ELSE NoKey
  <2>1. receivedFrom'[n] \subseteq exchanged'[n] /\ exchanged'[n] \subseteq otherSeedNodes[n]
    BY <1>2, <1>5, Zenon DEF Exchange
  <2>2. IsFiniteSet(otherSeedNodes[n])
    BY <1>2, NodesAssumption, FS_Subset DEF Others
  <2>3. hasReceivedKeysFromAllSeedPeers(exchanged'[n], receivedFrom'[n], otherSeedNodes[n])
          <=> receivedFrom'[n] = otherSeedNodes[n]
    BY <2>1, <2>2, CompleteExchange, Zenon
  <2>. QED  BY <1>5, <2>1, <2>3, Zenon
<1>10. \A x \in Nodes : \A i \in Keys :
          Committed(x, i)' <=> (Committed(x, i)
                                \/ (x = n /\ i = k /\ receivedFrom'[n] = otherSeedNodes[n]))
  BY <1>1, <1>4, <1>6, <1>9, KeysAssumption, Zenon DEF Committed
<1>11. \A i \in Keys : Holds(n, i) => i = k
  BY <1>2, <1>3, KeysAssumption, Zenon DEF Holds
<1>12. \A x \in Nodes : \A i \in Keys : Holds(x, i)' <=> Holds(x, i) \/ (x = n /\ i = k)
  BY <1>4, <1>5, <1>10, <1>11, Zenon DEF Holds
<1>13. Lifecycle'
  BY <1>1, <1>4, <1>5, <1>6, KeysAssumption, Zenon DEF Lifecycle, HasKey
<1>14. Exchange'
  <2>1. \A x \in Nodes : x # n => (Committed(x, generatedKey[x]) => Committed(x, generatedKey[x])')
    BY <1>4, <1>6, Zenon DEF Committed
  <2>2. receivedFrom'[n] = otherSeedNodes[n] => Committed(n, k)'
    BY <1>1, <1>10
  <2>. SUFFICES ASSUME NEW x \in Nodes
                PROVE  /\ otherSeedNodes'[x] \in {Others(x), {}}
                       /\ exchanged'[x] \subseteq otherSeedNodes'[x]
                       /\ receivedFrom'[x] \subseteq exchanged'[x]
                       /\ receivedFrom'[x] # {} => generatedKey'[x] \in Keys
                       /\ receivedFrom'[x] # {} /\ receivedFrom'[x] = otherSeedNodes'[x]
                            => Committed(x, generatedKey[x])'
    BY Zenon DEF Exchange, Others
  <2>3. CASE x = n
    BY <1>1, <1>2, <1>5, <1>6, <1>9, <2>2, <2>3, Zenon
  <2>4. CASE x # n
    BY <1>4, <1>6, <2>1, <2>4, Zenon DEF Exchange
  <2>. QED  BY <2>3, <2>4
<1>15. Goroutines'
  <2>. SUFFICES ASSUME NEW x \in Nodes, NEW j \in BagToSet(jobs'[x])
                PROVE  /\ j.kind \in {"SEED_KEY", "FORWARD", "CLEANUP"}
                            => x \in Seeds /\ Holds(x, j.key)'
                       /\ j.kind = "SEED_KEY" => j.to # x
                       /\ j.kind \in {"FORWARD", "CLEANUP"}
                            => receivedFrom'[x] # {} \/ Committed(x, j.key)'
                       /\ j.kind = "CLEANUP" => exchanged'[x] = otherSeedNodes'[x]
    BY DEF Goroutines
  <2>1. j.key \in Keys
    BY DEF TypeOK, BagsOf, Job
  <2>2. CASE x = n
    <3>1. receivedFrom'[n] # {} /\ (exchanged[n] = otherSeedNodes[n]
                                    => exchanged'[n] = otherSeedNodes'[n])
      BY <1>2, <1>5, <1>6, Zenon
    <3>2. CASE j = Go("FORWARD", n, k)
      <4>1. j.kind = "FORWARD" /\ j.key = k
        BY <3>2, Zenon DEF Go
      <4>. QED  BY <1>1, <1>12, <2>2, <3>1, <4>1, Zenon
    <3>3. CASE j \in BagToSet(jobs[n])
      BY <1>1, <1>12, <2>1, <2>2, <3>1, <3>3, Zenon DEF Goroutines
    <3>. QED  BY <1>8, <2>2, <3>2, <3>3, Zenon
  <2>3. CASE x # n
    BY <1>4, <1>6, <1>10, <1>12, <2>1, <2>3, Zenon DEF Goroutines
  <2>. QED  BY <2>2, <2>3
<1>16. Messages'
  BY <1>7, Zenon DEF Messages
<1>17. Provenance'
  <2>1. \A i : Sealed(i)' <=> Sealed(i)
    BY <1>6, Zenon DEF Sealed
  <2>2. \A x \in Nodes : \A j \in BagToSet(jobs'[x]) :
           j.kind \in {"KEY_REPLY", "CHALLENGE_REPLY"} => Sealed(j.key)
    BY <1>4, <1>8 DEF Provenance, Go
  <2>. QED  BY <1>1, <1>4, <1>6, <1>7, <2>1, <2>2 DEF Provenance, HasKey
<1>18. OneKey'
  BY <1>11, <1>12 DEF OneKey, Nodes
<1>19. NoCrossing'
  <2>1. ASSUME NEW u \in Seeds, NEW v \in Seeds, NEW i \in Keys, u # v, Heard(u, v, i)'
        PROVE  Heard(u, v, i)
    <3>1. CASE u # n
      BY <1>4, <1>6, <1>7, <1>10, <2>1, <3>1, Zenon DEF Heard, BagIn, Nodes
    <3>2. CASE u = n
      <4>1. BagIn(Msg("KEYINIT", v, i), net[n]) \/ (v \in receivedFrom'[n] /\ i = k)
        BY <1>2, <1>3, <1>5, <1>7, <1>10, <2>1, <3>2, Zenon DEF Heard, BagIn, Others, Nodes
      <4>2. v \in receivedFrom[n] => generatedKey[n] = k
        BY <1>2, Zenon
      <4>. QED  BY <1>1, <1>5, <3>2, <4>1, <4>2, Zenon DEF Heard, BagIn
    <3>. QED  BY <3>1, <3>2
  <2>. QED  BY <1>12, <2>1, NothingHeard DEF Nodes
<1>. QED  BY <1>13, <1>14, <1>15, <1>16, <1>17, <1>18, <1>19

(* checkCleanup wipes an exchange only when its key is committed.          *)
LEMMA CheckCleanupInv ==
  ASSUME Inv, TypeOK', NEW n \in Nodes, NEW j \in BagToSet(jobs[n]),
         CheckCleanup(n, j.key)
  PROVE  AgreementInv'
<1>. USE DEF Inv, AgreementInv, procVars
<1>1. /\ UNCHANGED <<status, main, disk, sealing, net, seeded>>
      /\ \A x \in Nodes : BagToSet(jobs'[x]) \subseteq BagToSet(jobs[x])
  <2>1. /\ BagsOf(jobs, Job)
        /\ jobs' = [jobs EXCEPT ![n] = Take(@, Go("CLEANUP", n, j.key))]
    BY DEF CheckCleanup, TypeOK
  <2>2. \A x \in Nodes : BagToSet(jobs'[x]) \subseteq BagToSet(jobs[x])
    BY <2>1, TakenOut
  <2>. QED  BY <2>2 DEF CheckCleanup
<1>2. \A x \in Nodes : \A i : Committed(x, i)' <=> Committed(x, i)
  BY <1>1, Zenon DEF Committed
<1>3. CASE ExchangeOpen(n)
  <2>1. UNCHANGED <<generatedKey, exchanged, receivedFrom, otherSeedNodes>>
    BY <1>3 DEF CheckCleanup
  <2>2. Lifecycle'
    BY <1>1, <2>1, Zenon DEF Lifecycle, HasKey
  <2>3. KeysUntouched
    BY <1>1, <1>2, <2>1, Zenon DEF KeysUntouched, Provenance
  <2>. QED  BY <2>2, <2>3, Untouched
<1>4. CASE ~ExchangeOpen(n)
  <2>1. /\ n \in Seeds /\ Holds(n, j.key) /\ j.key \in Keys
        /\ receivedFrom[n] # {} \/ Committed(n, j.key)
        /\ exchanged[n] = otherSeedNodes[n]
    <3>1. Go("CLEANUP", n, j.key) \in BagToSet(jobs[n])
      BY DEF CheckCleanup, BagIn
    <3>. QED  BY <3>1, Zenon DEF Goroutines, TypeOK, BagsOf, Job, Go
  <2>2. receivedFrom[n] = otherSeedNodes[n]
    BY <1>4, <2>1, Zenon DEF ExchangeOpen, Exchange
  <2>3. \A i \in Keys : Holds(n, i) => Committed(n, i)
    <3>1. PICK i \in Keys : Committed(n, i)
      BY <2>1, <2>2 DEF Exchange
    <3>. QED  BY <2>1, <3>1, Zenon DEF OneKey, Holds
  <2>4. /\ generatedKey'[n] = NoKey /\ exchanged'[n] = {} /\ receivedFrom'[n] = {}
        /\ otherSeedNodes'[n] = {}
    BY <1>4, Zenon DEF CheckCleanup, TypeOK
  <2>5. \A x \in Nodes : x # n => /\ generatedKey'[x] = generatedKey[x]
                                  /\ receivedFrom'[x] = receivedFrom[x]
                                  /\ exchanged'[x] = exchanged[x]
                                  /\ otherSeedNodes'[x] = otherSeedNodes[x]
    BY DEF CheckCleanup, TypeOK
  <2>6. \A x \in Nodes : \A i \in Keys : Holds(x, i)' <=> Holds(x, i)
    BY <1>2, <2>3, <2>4, <2>5, KeysAssumption, Zenon DEF Holds
  <2>7. Lifecycle'
    BY <1>1, <2>4, <2>5, Zenon DEF Lifecycle, HasKey
  <2>8. Exchange'
    BY <1>2, <2>4, <2>5, Zenon DEF Exchange, Others
  <2>9. Goroutines'
    <3>. SUFFICES ASSUME NEW x \in Nodes, NEW i \in BagToSet(jobs'[x])
                  PROVE  /\ i.kind \in {"SEED_KEY", "FORWARD", "CLEANUP"}
                              => x \in Seeds /\ Holds(x, i.key)'
                         /\ i.kind = "SEED_KEY" => i.to # x
                         /\ i.kind \in {"FORWARD", "CLEANUP"}
                              => receivedFrom'[x] # {} \/ Committed(x, i.key)'
                         /\ i.kind = "CLEANUP" => exchanged'[x] = otherSeedNodes'[x]
      BY DEF Goroutines
    <3>1. i.key \in Keys /\ i \in BagToSet(jobs[x])
      BY <1>1 DEF TypeOK, BagsOf, Job
    <3>2. CASE x = n
      BY <1>2, <2>3, <2>4, <2>6, <3>1, <3>2, Zenon DEF Goroutines
    <3>3. CASE x # n
      BY <1>2, <2>5, <2>6, <3>1, <3>3, Zenon DEF Goroutines
    <3>. QED  BY <3>2, <3>3
  <2>10. Messages'
    BY <1>1, Zenon DEF Messages
  <2>11. Provenance'
    <3>1. \A i : Sealed(i)' <=> Sealed(i)
      BY <1>1 DEF Sealed
    <3>. QED  BY <1>1, <3>1, Zenon DEF Provenance, HasKey
  <2>12. OneKey'
    BY <2>6 DEF OneKey, Nodes
  <2>13. NoCrossing'
    <3>1. \A u, v \in Seeds : \A i \in Keys : Heard(u, v, i)' => Heard(u, v, i)
      BY <1>1, <1>2, <2>4, <2>5, Zenon DEF Heard, Nodes
    <3>. QED  BY <2>6, <3>1, NothingHeard DEF Nodes
  <2>. QED  BY <2>7, <2>8, <2>9, <2>10, <2>11, <2>12, <2>13
<1>. QED  BY <1>3, <1>4
=============================================================================
