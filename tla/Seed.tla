-------------------------------- MODULE Seed --------------------------------
(***************************************************************************)
(* seed.go: the first seed node generates the master key, every seed node  *)
(* passes it on to every other, and a node seals it once all of them have  *)
(* sent it the same key.                                                   *)
(***************************************************************************)
EXTENDS ClusterBase

VARIABLES
  generatedKey,   \* NoKey, DummyKey or a key
  exchanged,      \* the peers with an entry in keyExchangeStat
  sentTo,         \* ... whose entry has sentTo set
  receivedFrom,   \* ... whose entry has receivedFrom set
  otherSeedNodes, \* the seed nodes but this one; emptied by checkCleanup
  otherMembers,   \* the member list when seeding began
  generated       \* keys drawn so far: rand.Read never repeats one

exchangeVars == <<exchanged, sentTo, receivedFrom>>
seedVars == <<generatedKey, exchangeVars, otherSeedNodes, otherMembers,
              generated>>

(* allSeedNodes[0] of seed().                                              *)
Master == CHOOSE s \in Seeds : \A t \in Seeds : s <= t

(* onNoKey found every seed node in the member list and none that is known *)
(* to be READY; the list is read again for the snapshot handed to seed().  *)
BeginSeed(n, members) ==
  /\ status[n] = "NO_KEY" /\ main[n] = "wait"
  /\ n \in Seeds /\ Seeds \subseteq booted
  /\ members \subseteq booted \ {n}
  /\ (AlwaysListed \cap booted) \ {n} \subseteq members
  /\ SetStatus(n, "SEEDING")
  /\ main' = [main EXCEPT ![n] = "seed"]
  /\ exchanged' = [exchanged EXCEPT ![n] = {}]
  /\ sentTo' = [sentTo EXCEPT ![n] = {}]
  /\ receivedFrom' = [receivedFrom EXCEPT ![n] = {}]
  /\ otherMembers' = [otherMembers EXCEPT ![n] = members]
  /\ UNCHANGED <<disk, sealing, asking, net, booted, boundVars, seeded,
                 otherSeedNodes>>

(* Mutant: the goroutines start before the key is generated.               *)
StartSeedAsMasterEarly(n, members) ==
  /\ n = Master
  /\ BeginSeed(n, members)
  /\ \E k \in Keys \ generated :
       /\ generatedKey' = [generatedKey EXCEPT ![n] = k]
       /\ generated' = generated \cup {k}
  /\ jobs' = [jobs EXCEPT ![n] =
                @ (+) SetToBag({Go("SEED_KEY", p, generatedKey[n]) : p \in members})]

(* The goroutine of startSeedAsMaster is one SEED_KEY job per member: it   *)
(* tries each once and never again, and does not touch keyExchangeStat.    *)
StartSeedAsMaster(n, members) ==
  /\ n = Master
  /\ BeginSeed(n, members)
  /\ \E k \in Keys \ generated :
       /\ generatedKey' = [generatedKey EXCEPT ![n] = k]
       /\ generated' = generated \cup {k}
       /\ jobs' = [jobs EXCEPT ![n] =
                     @ (+) SetToBag({Go("SEED_KEY", p, k) : p \in members})]

StartSeedAsSlave(n, members) ==
  /\ n # Master
  /\ BeginSeed(n, members)
  /\ generatedKey' = [generatedKey EXCEPT ![n] = DummyKey]
  /\ UNCHANGED <<jobs, generated>>

(* Mutant: the first seed node keeps its key as soon as it is sent.        *)
SendAndSeal(n, p, k) ==
  /\ BagIn(Go("SEED_KEY", p, k), jobs[n])
  /\ Send(p, Msg("KEYINIT", n, k))
  /\ jobs' = [jobs EXCEPT ![n] = Take(@, Go("SEED_KEY", p, k))]
  /\ sealing' = [sealing EXCEPT ![n] = k]
  /\ UNCHANGED <<status, main, asking, disk, viewVars, crashes, restarts, seeded, seedVars>>

SendSeedKey(n, p, k) ==
  /\ BagIn(Go("SEED_KEY", p, k), jobs[n])
  /\ Send(p, Msg("KEYINIT", n, k)) \/ SendFails(p)
  /\ jobs' = [jobs EXCEPT ![n] = Take(@, Go("SEED_KEY", p, k))]
  /\ UNCHANGED <<procVars, disk, viewVars, crashes, restarts, seeded, seedVars>>

(* Mutant: an exchange that has all entries is not complete.               *)
hasReceivedFromMore(stat, received, others) ==
  Cardinality(stat) > Cardinality(others) /\ stat \subseteq received

hasReceivedKeysFromAllSeedPeers(stat, received, others) ==
  Cardinality(stat) >= Cardinality(others) /\ stat \subseteq received

(* keyReceived, up to the return into handleSeedKey: a complete exchange   *)
(* leaves loop() with the key in hand and not yet on disk.                 *)
KeyReceived(n, m) ==
  /\ m.from \in otherSeedNodes[n]
  /\ generatedKey[n] \in {DummyKey, m.key}
  /\ Consume(n, m)
  /\ generatedKey' = [generatedKey EXCEPT ![n] = m.key]
  /\ exchanged' = [exchanged EXCEPT ![n] = @ \cup {m.from}]
  /\ receivedFrom' = [receivedFrom EXCEPT ![n] = @ \cup {m.from}]
  /\ jobs' = [jobs EXCEPT ![n] = Put(@, Go("FORWARD", n, m.key))]
  /\ sealing' = [sealing EXCEPT ![n] =
       IF hasReceivedKeysFromAllSeedPeers(exchanged'[n], receivedFrom'[n],
                                          otherSeedNodes[n])
       THEN m.key ELSE NoKey]
  /\ UNCHANGED <<status, main, asking, disk, viewVars, boundVars, seeded,
                 sentTo, otherSeedNodes, otherMembers, generated>>

(* keyReceived panics on a key from a node it does not expect and on a key *)
(* other than the one it has.  Its early return for an empty key is never  *)
(* taken: checkCleanup empties otherSeedNodes with it, so the sender is    *)
(* unknown first.                                                          *)
SeedKeyRejected(n, m) ==
  ~ (m.from \in otherSeedNodes[n]
     /\ generatedKey[n] \in {NoKey, DummyKey, m.key})

(* fowardKeyToOtherSeedPeers holds the seed lock while it sends, so the    *)
(* sends are one step; a crash in the middle is a step where the rest fail.*)
Forward(n, k, delivered) ==
  LET targets == (otherSeedNodes[n] \ sentTo[n]) \cap otherMembers[n]
      reachable == {p \in targets : Up(p)}
      m == Msg("KEYINIT", n, k)
  IN /\ BagIn(Go("FORWARD", n, k), jobs[n])
     /\ delivered \subseteq reachable
     /\ failures' = failures + Cardinality(reachable \ delivered)
     /\ failures' <= MaxFailures
     /\ net' = [p \in Nodes |-> IF p \in delivered THEN Put(net[p], m)
                                                   ELSE net[p]]
     /\ sentTo' = [sentTo EXCEPT ![n] = @ \cup delivered]
     /\ exchanged' = [exchanged EXCEPT ![n] = @ \cup otherSeedNodes[n]]
     /\ jobs' = [jobs EXCEPT ![n] =
                   Put(Take(@, Go("FORWARD", n, k)), Go("CLEANUP", n, k))]
     /\ UNCHANGED <<procVars, disk, viewVars, crashes, restarts, seeded, generatedKey,
                    receivedFrom, otherSeedNodes, otherMembers, generated>>

(* Mutant: checkCleanup looks at what was sent only.                       *)
ExchangeOpenSent(n) ==
  /\ Cardinality(otherSeedNodes[n]) = Cardinality(exchanged[n])
  /\ exchanged[n] \ sentTo[n] # {}

(* The early return of checkCleanup; when the sizes differ it cleans up.   *)
ExchangeOpen(n) ==
  /\ Cardinality(otherSeedNodes[n]) = Cardinality(exchanged[n])
  /\ exchanged[n] \ (sentTo[n] \cap receivedFrom[n]) # {}

CheckCleanup(n, k) ==
  LET cleared(f, v) == IF ExchangeOpen(n) THEN f ELSE [f EXCEPT ![n] = v]
  IN /\ BagIn(Go("CLEANUP", n, k), jobs[n])
     /\ jobs' = [jobs EXCEPT ![n] = Take(@, Go("CLEANUP", n, k))]
     /\ generatedKey' = cleared(generatedKey, NoKey)
     /\ exchanged' = cleared(exchanged, {})
     /\ sentTo' = cleared(sentTo, {})
     /\ receivedFrom' = cleared(receivedFrom, {})
     /\ otherSeedNodes' = cleared(otherSeedNodes, {})
     /\ otherMembers' = cleared(otherMembers, {})
     /\ UNCHANGED <<procVars, disk, net, viewVars, boundVars, seeded,
                    generated>>
=============================================================================
