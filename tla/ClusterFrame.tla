---------------------------- MODULE ClusterFrame ----------------------------
(***************************************************************************)
(* The steps that leave every node's keys as they are preserve the         *)
(* invariant of key agreement.                                             *)
(***************************************************************************)
EXTENDS ClusterTypes

Inv == TypeOK /\ AgreementInv

(* A message the exchange may have on its way to x.                        *)
Sendable(x, m) ==
  /\ m.type = "KEYINIT" => m.from \in Seeds \ {x} /\ m.key \in Keys
                           /\ Holds(m.from, m.key)
  /\ m.type \in {"KEYQUERY_RESP", "CHALLENGE_RESP"} => Sealed(m.key)

(* A goroutine that x may have started in this step.                       *)
Startable(x, j) ==
  /\ j.kind \notin {"SEED_KEY", "FORWARD"}
  /\ j.kind = "CLEANUP" => /\ x \in Seeds /\ Holds(x, j.key)
                           /\ receivedFrom[x] # {} \/ Committed(x, j.key)
                           /\ exchanged'[x] = otherSeedNodes[x]
  /\ j.kind \in {"KEY_REPLY", "CHALLENGE_REPLY"} => Sealed(j.key)

(* A step that leaves the keys of every node as they are.                  *)
KeysUntouched ==
  /\ UNCHANGED <<disk, seeded, generatedKey, receivedFrom, otherSeedNodes>>
  /\ \A x \in Nodes : \A k \in Keys : Committed(x, k)' <=> Committed(x, k)
  /\ \A x \in Nodes : exchanged'[x] \in {exchanged[x], otherSeedNodes[x]}
  /\ \A x \in Nodes : \A m \in BagToSet(net'[x]) :
        m \in BagToSet(net[x]) \/ Sendable(x, m)
  /\ \A x \in Nodes : \A j \in BagToSet(jobs'[x]) :
        j \in BagToSet(jobs[x]) \/ Startable(x, j)
  /\ \A x \in Nodes : status'[x] = "QUERY_KEY" /\ sealing'[x] # NoKey
                        => Sealed(sealing'[x])
  /\ \A x \in Nodes : status'[x] = "READY" => status[x] = "READY" \/ Sealed(disk[x])

(* Such a step preserves the invariant if it preserves Lifecycle.          *)
LEMMA Untouched ==
  ASSUME Inv, TypeOK', KeysUntouched, Lifecycle'
  PROVE  AgreementInv'
<1>. USE DEF Inv, AgreementInv, KeysUntouched
<1>1. \A x \in Nodes : \A k \in Keys : Holds(x, k)' <=> Holds(x, k)
  BY DEF Holds
<1>2. \A k : Sealed(k)' <=> Sealed(k)
  BY DEF Sealed
<1>3. Exchange'
  BY DEF Exchange, Others, TypeOK
<1>4. Goroutines'
  <2>. SUFFICES ASSUME NEW n \in Nodes, NEW j \in BagToSet(jobs'[n])
                PROVE  /\ j.kind \in {"SEED_KEY", "FORWARD", "CLEANUP"}
                            => n \in Seeds /\ Holds(n, j.key)'
                       /\ j.kind = "SEED_KEY" => j.to # n
                       /\ j.kind \in {"FORWARD", "CLEANUP"}
                            => receivedFrom'[n] # {} \/ Committed(n, j.key)'
                       /\ j.kind = "CLEANUP" => exchanged'[n] = otherSeedNodes'[n]
    BY DEF Goroutines
  <2>1. j.key \in Keys
    BY DEF TypeOK, BagsOf, Job
  <2>. QED  BY <1>1, <2>1 DEF Goroutines, Startable
<1>5. Messages'
  BY DEF Messages, Sendable
<1>6. Provenance'
  BY <1>2 DEF Provenance, Lifecycle, Sendable, Startable, HasKey
<1>7. OneKey'
  BY <1>1 DEF OneKey, Nodes
<1>8. NoCrossing'
  <2>. SUFFICES ASSUME NEW x \in Seeds, NEW y \in Seeds, NEW k \in Keys, NEW l \in Keys,
                       x # y, k # l, Heard(x, y, k)', Heard(y, x, l)'
                PROVE  Holds(y, k) \/ Holds(x, l)
    BY <1>1 DEF NoCrossing, Nodes
  <2>1. ASSUME NEW u \in Seeds, NEW v \in Seeds, NEW i \in Keys, Heard(u, v, i)'
        PROVE  Heard(u, v, i) \/ Holds(v, i)
    BY <2>1 DEF Heard, BagIn, Sendable, Msg, Nodes
  <2>. QED  BY <2>1 DEF NoCrossing
<1>. QED  BY <1>3, <1>4, <1>5, <1>6, <1>7, <1>8
-----------------------------------------------------------------------------
(* Steps of the process that leave the keys as they are.                   *)
LEMMA ProcessUntouched ==
  ASSUME Inv, TypeOK', NEW n \in Nodes, Start(n) \/ ReadKey(n) \/ Join(n)
  PROVE  AgreementInv'
<1>. USE DEF Inv, AgreementInv, SetStatus, boundVars, seedVars, exchangeVars
<1>1. CASE Start(n)
  <2>1. Lifecycle'
    BY <1>1 DEF Start, Lifecycle, HasKey, TypeOK, Up
  <2>2. KeysUntouched
    BY <1>1, KeysAssumption DEF Start, KeysUntouched, Committed, TypeOK, Lifecycle, Provenance, Up
  <2>. QED  BY <2>1, <2>2, Untouched
<1>2. CASE ReadKey(n)
  <2>1. Lifecycle'
    BY <1>2 DEF ReadKey, Lifecycle, HasKey, TypeOK, Up
  <2>2. KeysUntouched
    BY <1>2, KeysAssumption DEF ReadKey, KeysUntouched, Committed, TypeOK, Lifecycle, Provenance, Up
  <2>. QED  BY <2>1, <2>2, Untouched
<1>3. CASE Join(n)
  <2>1. Lifecycle'
    BY <1>3 DEF Join, Lifecycle, HasKey, TypeOK, Up
  <2>2. KeysUntouched
    BY <1>3, KeysAssumption DEF Join, KeysUntouched, Committed, TypeOK, Lifecycle, Provenance, Up
  <2>. QED  BY <2>1, <2>2, Untouched
<1>. QED  BY <1>1, <1>2, <1>3

LEMMA QueryUntouched ==
  ASSUME Inv, TypeOK', NEW n \in Nodes, QueryStep(n)
  PROVE  AgreementInv'
<1>. USE DEF Inv, AgreementInv, SetStatus, procVars, seedVars, exchangeVars
<1>1. ASSUME NEW P \in SUBSET wasReady, QueryKey(n, P), UNCHANGED seedVars
      PROVE  AgreementInv'
  <2>1. Lifecycle'
    BY <1>1 DEF QueryKey, Lifecycle, HasKey, TypeOK
  <2>2. KeysUntouched
    BY <1>1, KeysAssumption DEF QueryKey, KeysUntouched, Committed, TypeOK, Lifecycle, Provenance
  <2>. QED  BY <2>1, <2>2, Untouched
<1>2. ASSUME NEW m \in Nodes, SendQuery(n, m), UNCHANGED seedVars
      PROVE  AgreementInv'
  <2>1. Lifecycle'
    BY <1>2 DEF SendQuery, Lifecycle, HasKey, viewVars
  <2>2. \A x \in Nodes : \A i \in BagToSet(net'[x]) : i \in BagToSet(net[x]) \/ Sendable(x, i)
    <3>. DEFINE e == Msg("KEYQUERY", n, NoKey)
    <3>1. \A x \in Nodes : BagToSet(net'[x]) \subseteq BagToSet(net[x]) \cup {i \in {e} : x = m}
      BY <1>2, Sent DEF SendQuery
    <3>. QED  BY <3>1 DEF Sendable, Msg
  <2>3. KeysUntouched
    BY <1>2, <2>2 DEF SendQuery, KeysUntouched, Committed, Provenance
  <2>. QED  BY <2>1, <2>3, Untouched
<1>3. CASE AskNobody(n) /\ UNCHANGED seedVars
  <2>1. Lifecycle' /\ KeysUntouched
    BY <1>3 DEF AskNobody, Lifecycle, HasKey, KeysUntouched, Committed, Provenance
  <2>. QED  BY <2>1, Untouched
<1>4. ASSUME NEW j \in BagToSet(jobs[n]), SendKeyReply(n, j.to, j.key), UNCHANGED seedVars
      PROVE  AgreementInv'
  <2>1. Lifecycle'
    BY <1>4 DEF SendKeyReply, Lifecycle, HasKey
  <2>2. j.to \in Nodes /\ Sealed(j.key)
    BY <1>4 DEF SendKeyReply, TypeOK, BagsOf, Job, Provenance, BagIn, Go
  <2>3. \A x \in Nodes : \A i \in BagToSet(net'[x]) : i \in BagToSet(net[x]) \/ Sendable(x, i)
    <3>. DEFINE e == Msg("KEYQUERY_RESP", n, j.key)
    <3>1. \A x \in Nodes : BagToSet(net'[x]) \subseteq BagToSet(net[x]) \cup {i \in {e} : x = j.to}
      BY <1>4, <2>2, Sent DEF SendKeyReply
    <3>. QED  BY <2>2, <3>1 DEF Sendable, Msg
  <2>4. \A x \in Nodes : \A i \in BagToSet(jobs'[x]) : i \in BagToSet(jobs[x])
    BY <1>4, TakenOut, Zenon DEF SendKeyReply, TypeOK
  <2>5. KeysUntouched
    BY <1>4, <2>3, <2>4 DEF SendKeyReply, KeysUntouched, Committed, Provenance
  <2>. QED  BY <2>1, <2>5, Untouched
<1>. QED  BY <1>1, <1>2, <1>3, <1>4 DEF QueryStep

LEMMA ValidateUntouched ==
  ASSUME Inv, TypeOK', NEW n \in Nodes, ValidateStep(n)
  PROVE  AgreementInv'
<1>. USE DEF Inv, AgreementInv, SetStatus, procVars, seedVars, exchangeVars
<1>1. ASSUME NEW P \in SUBSET wasReady, FindValidators(n, P), UNCHANGED seedVars
      PROVE  AgreementInv'
  <2>1. Lifecycle'
    BY <1>1 DEF FindValidators, Lifecycle, HasKey, TypeOK
  <2>2. KeysUntouched
    BY <1>1 DEF FindValidators, KeysUntouched, Committed, Provenance
  <2>. QED  BY <2>1, <2>2, Untouched
<1>2. ASSUME NEW m \in Nodes, SendChallenge(n, m), UNCHANGED seedVars
      PROVE  AgreementInv'
  <2>1. Lifecycle'
    BY <1>2, Zenon DEF SendChallenge, Lifecycle, HasKey, viewVars
  <2>2. \A x \in Nodes : \A i \in BagToSet(net'[x]) : i \in BagToSet(net[x]) \/ Sendable(x, i)
    <3>. DEFINE e == Msg("CHALLENGE", n, NoKey)
    <3>1. \A x \in Nodes : BagToSet(net'[x]) \subseteq BagToSet(net[x]) \cup {i \in {e} : x = m}
      BY <1>2, Sent, Zenon DEF SendChallenge
    <3>. QED  BY <3>1 DEF Sendable, Msg
  <2>3. KeysUntouched
    BY <1>2, <2>2, Zenon DEF SendChallenge, KeysUntouched, Committed, Provenance
  <2>. QED  BY <2>1, <2>3, Untouched
<1>3. ASSUME NEW m \in Nodes, PassOver(n, m), UNCHANGED seedVars
      PROVE  AgreementInv'
  <2>1. Lifecycle'
    BY <1>3, Zenon DEF PassOver, Lifecycle, HasKey, viewVars
  <2>2. KeysUntouched
    BY <1>3, Zenon DEF PassOver, SendFails, KeysUntouched, Committed, Provenance
  <2>. QED  BY <2>1, <2>2, Untouched
<1>4. ASSUME NEW j \in BagToSet(jobs[n]), SendChallengeReply(n, j.to, j.key),
             UNCHANGED seedVars
      PROVE  AgreementInv'
  <2>. DEFINE e == Msg("CHALLENGE_RESP", n, j.key)
              a == Go("CHALLENGE_REPLY", j.to, j.key)
              b == Go("STUCK_REPLY", j.to, j.key)
  <2>1. Lifecycle'
    BY <1>4, Zenon DEF SendChallengeReply, Lifecycle, HasKey
  <2>2. j.to \in Nodes /\ BagsOf(jobs, Job) /\ Sealed(j.key)
    BY <1>4 DEF SendChallengeReply, TypeOK, BagsOf, Job, Provenance, BagIn, Go
  <2>3. \A x \in Nodes : \A i \in BagToSet(net'[x]) : i \in BagToSet(net[x]) \/ Sendable(x, i)
    <3>1. \A x \in Nodes : BagToSet(net'[x]) \subseteq BagToSet(net[x]) \cup {i \in {e} : x = j.to}
      BY <1>4, <2>2, Sent, Zenon DEF SendChallengeReply
    <3>. QED  BY <2>2, <3>1 DEF Sendable, Msg
  <2>4. \A x \in Nodes : \A i \in BagToSet(jobs'[x]) : i \in BagToSet(jobs[x]) \/ Startable(x, i)
    <3>1. /\ IsABag(jobs[n])
          /\ \A x \in Nodes \ {n} : jobs'[x] = jobs[x]
          /\ jobs'[n] = Take(jobs[n], a) \/ jobs'[n] = Put(Take(jobs[n], a), b)
      BY <1>4, <2>2 DEF SendChallengeReply, BagsOf
    <3>2. \A x \in Nodes : BagToSet(jobs'[x]) \subseteq BagToSet(jobs[x]) \cup {i \in {b} : x = n}
      <4>. HIDE DEF a, b
      <4>. QED  BY <3>1, TakeBag, Replaced
    <3>. QED  BY <3>2 DEF Startable, Go
  <2>5. KeysUntouched
    BY <1>4, <2>3, <2>4, Zenon DEF SendChallengeReply, KeysUntouched, Committed, Provenance
  <2>. QED  BY <2>1, <2>5, Untouched
<1>. QED  BY <1>1, <1>2, <1>3, <1>4 DEF ValidateStep

(* The handlers of loop() that neither seed nor panic.                     *)
LEMMA LoopUntouched ==
  ASSUME Inv, TypeOK', NEW n \in Nodes, NEW m \in BagToSet(net[n]),
         \/ Received(n, m, "READY", "KEYQUERY") /\ HandleQueryKey(n, m)
         \/ Received(n, m, "READY", "CHALLENGE") /\ HandleKeyChallengeRequest(n, m)
         \/ Received(n, m, "VALIDATING", "CHALLENGE_RESP") /\ HandleKeyChallengeResponse(n, m)
         \/ Received(n, m, "QUERY_KEY", "KEYQUERY_RESP") /\ HandleKeyResponse(n, m)
         \/ DropMsg(n, m),
         UNCHANGED seedVars
  PROVE  AgreementInv'
<1>. USE DEF Inv, AgreementInv, SetStatus, procVars, seedVars, exchangeVars
<1>1. \A x \in Nodes : \A i \in BagToSet(net'[x]) : i \in BagToSet(net[x])
  BY Consumed, Zenon DEF HandleQueryKey, HandleKeyChallengeRequest, HandleKeyChallengeResponse,
                  HandleKeyResponse, DropMsg
<1>2. ASSUME NEW t \in {"KEY_REPLY", "CHALLENGE_REPLY"}, status[n] = "READY",
             jobs' = [jobs EXCEPT ![n] = Put(@, Go(t, m.from, disk[n]))]
      PROVE  \A x \in Nodes : \A j \in BagToSet(jobs'[x]) :
                j \in BagToSet(jobs[x]) \/ Startable(x, j)
  <2>. DEFINE e == Go(t, m.from, disk[n])
  <2>1. /\ IsABag(jobs[n]) /\ jobs'[n] = Put(jobs[n], e)
        /\ \A x \in Nodes \ {n} : jobs'[x] = jobs[x]
    BY <1>2 DEF TypeOK, BagsOf
  <2>2. \A x \in Nodes : BagToSet(jobs'[x]) \subseteq BagToSet(jobs[x]) \cup {e}
    <3>. HIDE DEF e
    <3>. QED  BY <2>1, PutBag
  <2>3. Sealed(disk[n])
    BY <1>2, Zenon DEF Lifecycle, Provenance
  <2>. QED  BY <2>2, <2>3 DEF Startable, Go
<1>3. CASE Received(n, m, "READY", "KEYQUERY") /\ HandleQueryKey(n, m)
  <2>1. Lifecycle'
    BY <1>3, Zenon DEF HandleQueryKey, Lifecycle, HasKey
  <2>2. KeysUntouched
    BY <1>1, <1>2, <1>3, Zenon DEF HandleQueryKey, Received, KeysUntouched, Committed, Provenance
  <2>. QED  BY <2>1, <2>2, Untouched
<1>4. CASE Received(n, m, "READY", "CHALLENGE") /\ HandleKeyChallengeRequest(n, m)
  <2>1. Lifecycle'
    BY <1>4, Zenon DEF HandleKeyChallengeRequest, Lifecycle, HasKey
  <2>2. KeysUntouched
    BY <1>1, <1>2, <1>4, Zenon
       DEF HandleKeyChallengeRequest, Received, KeysUntouched, Committed, Provenance
  <2>. QED  BY <2>1, <2>2, Untouched
<1>5. CASE Received(n, m, "VALIDATING", "CHALLENGE_RESP") /\ HandleKeyChallengeResponse(n, m)
  <2>1. Lifecycle'
    BY <1>5, Zenon DEF HandleKeyChallengeResponse, Received, Lifecycle, HasKey, TypeOK
  <2>2. Sealed(disk[n])
    BY <1>5, Zenon DEF HandleKeyChallengeResponse, Received, Provenance
  <2>3. KeysUntouched
    BY <1>1, <1>5, <2>2, Zenon
       DEF HandleKeyChallengeResponse, Received, KeysUntouched, Committed, Provenance, TypeOK
  <2>. QED  BY <2>1, <2>3, Untouched
<1>6. CASE Received(n, m, "QUERY_KEY", "KEYQUERY_RESP") /\ HandleKeyResponse(n, m)
  <2>1. Sealed(m.key)
    BY <1>6, Zenon DEF Received, Provenance
  <2>2. Lifecycle'
    BY <1>6, Zenon DEF HandleKeyResponse, Received, Lifecycle, HasKey, TypeOK
  <2>3. KeysUntouched
    BY <1>1, <1>6, <2>1, Zenon
       DEF HandleKeyResponse, Received, KeysUntouched, Committed, Provenance, TypeOK
  <2>. QED  BY <2>2, <2>3, Untouched
<1>7. CASE DropMsg(n, m)
  <2>1. Lifecycle'
    BY <1>7, Zenon DEF DropMsg, Lifecycle, HasKey
  <2>2. KeysUntouched
    BY <1>1, <1>7, Zenon DEF DropMsg, KeysUntouched, Committed, Provenance
  <2>. QED  BY <2>1, <2>2, Untouched
<1>. QED  BY <1>3, <1>4, <1>5, <1>6, <1>7, Zenon
=============================================================================
