---------------------------- MODULE ClusterSafety ----------------------------
(***************************************************************************)
(* Clean-up after the exchange, isolation of clusters, the cluster with    *)
(* one seed node, and what ends a process, for every number of nodes,      *)
(* keys, crashes, restarts and failed sends.                               *)
(***************************************************************************)
EXTENDS ClusterProofs

(* checkCleanup wipes a complete exchange only: the sizes it compares are  *)
(* equal whenever its goroutine runs.                                      *)
LEMMA CleanupComplete ==
  ASSUME Inv, NEW n \in Nodes, NEW k, CheckCleanup(n, k), otherSeedNodes'[n] # Others(n)
  PROVE  otherSeedNodes[n] # Others(n) \/ status[n] = "READY" \/ sealing[n] # NoKey
<1>. USE DEF Inv, AgreementInv
<1>. SUFFICES ASSUME otherSeedNodes[n] = Others(n)
              PROVE  status[n] = "READY" \/ sealing[n] # NoKey
  OBVIOUS
<1>1. ~ExchangeOpen(n) /\ otherSeedNodes[n] # {}
  BY DEF CheckCleanup, TypeOK
<1>2. exchanged[n] = otherSeedNodes[n]
  BY DEF CheckCleanup, Goroutines, BagIn, Go
<1>3. receivedFrom[n] = otherSeedNodes[n]
  BY <1>1, <1>2 DEF ExchangeOpen, Exchange
<1>4. generatedKey[n] \in Keys /\ Committed(n, generatedKey[n])
  BY <1>1, <1>3 DEF Exchange
<1>. QED  BY <1>4, KeysAssumption DEF Committed, Lifecycle

LEMMA CleanupStep ==
  ASSUME Inv, CleanupAfterCompletion, [Next]_vars
  PROVE  CleanupAfterCompletion'
<1>. USE DEF CleanupAfterCompletion, Others
<1>1. /\ status \in [Nodes -> Status] /\ sealing \in [Nodes -> Keys \cup {NoKey}]
      /\ otherSeedNodes \in [Nodes -> SUBSET Seeds]
  BY DEF Inv, TypeOK
<1>2. \A n \in Nodes : /\ sealing[n] # NoKey => status[n] \in {"SEEDING", "QUERY_KEY"}
                       /\ main[n] = "start" => status[n] \in {"DOWN", "INIT"}
  BY DEF Inv, AgreementInv, Lifecycle
<1>3. ASSUME NEW n \in Nodes, Crash(n) \/ CrashWhileSealing(n) \/ Panic(n)
      PROVE  CleanupAfterCompletion'
  BY <1>1, <1>3 DEF Crash, CrashWhileSealing, Panic, Die
<1>4. ASSUME NEW n \in Nodes, Start(n) \/ ReadKey(n) \/ Join(n) \/ Seal(n)
      PROVE  CleanupAfterCompletion'
  BY <1>1, <1>2, <1>4 DEF Start, ReadKey, Join, Seal, SetStatus, Up, seedVars
<1>5. ASSUME NEW n \in Nodes, NEW m, Loop(n, m), ~Panic(n)
      PROVE  CleanupAfterCompletion'
  <2>1. CASE Received(n, m, "SEEDING", "KEYINIT") /\ KeyReceived(n, m)
    BY <1>1, <2>1, Zenon DEF Received, KeyReceived
  <2>2. CASE Received(n, m, "VALIDATING", "CHALLENGE_RESP") /\ HandleKeyChallengeResponse(n, m)
             /\ UNCHANGED seedVars
    BY <1>1, <2>2 DEF Received, HandleKeyChallengeResponse, SetStatus, seedVars
  <2>3. CASE Received(n, m, "QUERY_KEY", "KEYQUERY_RESP") /\ HandleKeyResponse(n, m)
             /\ UNCHANGED seedVars
    BY <1>1, <1>2, <2>3 DEF Received, HandleKeyResponse, seedVars
  <2>4. CASE (HandleQueryKey(n, m) \/ HandleKeyChallengeRequest(n, m) \/ DropMsg(n, m))
             /\ UNCHANGED seedVars
    BY <2>4 DEF HandleQueryKey, HandleKeyChallengeRequest, DropMsg, procVars, seedVars
  <2>. QED  BY <1>5, <2>1, <2>2, <2>3, <2>4 DEF Loop, DropMsg
<1>6. ASSUME NEW n \in Nodes, NEW members, BeginSeed(n, members)
      PROVE  CleanupAfterCompletion'
  BY <1>1, <1>2, <1>6 DEF BeginSeed, SetStatus
<1>7. ASSUME NEW n \in Nodes, NEW k, CheckCleanup(n, k)
      PROVE  CleanupAfterCompletion'
  <2>1. UNCHANGED <<status, sealing>> /\ \A x \in Nodes \ {n} : otherSeedNodes'[x] = otherSeedNodes[x]
    BY <1>1, <1>7 DEF CheckCleanup, procVars
  <2>. QED  BY <1>7, <2>1, CleanupComplete
<1>8. ASSUME NEW n \in Nodes, NEW p, NEW k, NEW d, SendSeedKey(n, p, k) \/ Forward(n, k, d)
      PROVE  CleanupAfterCompletion'
  BY <1>8 DEF SendSeedKey, Forward, procVars, seedVars
<1>9. ASSUME NEW n \in Nodes, SeedStep(n)
      PROVE  CleanupAfterCompletion'
  BY <1>6, <1>7, <1>8, <1>9 DEF SeedStep, StartSeedAsMaster, StartSeedAsSlave
<1>10. ASSUME NEW n \in Nodes, QueryStep(n) \/ ValidateStep(n)
       PROVE  CleanupAfterCompletion'
  <2>1. ASSUME NEW P, QueryKey(n, P), UNCHANGED seedVars PROVE CleanupAfterCompletion'
    BY <1>1, <1>2, <2>1 DEF QueryKey, SetStatus, seedVars
  <2>2. ASSUME NEW m, SendQuery(n, m) \/ SendChallenge(n, m) \/ PassOver(n, m)
        PROVE  UNCHANGED <<status, sealing>>
    BY <2>2 DEF SendQuery, SendChallenge, PassOver
  <2>3. ASSUME NEW p, NEW k, SendKeyReply(n, p, k) \/ SendChallengeReply(n, p, k)
        PROVE  UNCHANGED <<status, sealing>>
    BY <2>3 DEF SendKeyReply, SendChallengeReply, procVars
  <2>4. ASSUME NEW P, FindValidators(n, P) \/ AskNobody(n) PROVE UNCHANGED <<status, sealing>>
    BY <2>4 DEF FindValidators, AskNobody
  <2>5. UNCHANGED seedVars /\ (UNCHANGED <<status, sealing>> \/ \E P : QueryKey(n, P))
    BY <1>10, <2>2, <2>3, <2>4 DEF QueryStep, ValidateStep
  <2>6. CASE UNCHANGED <<status, sealing>> /\ UNCHANGED seedVars
    BY <2>6 DEF seedVars
  <2>. QED  BY <2>1, <2>5, <2>6, Zenon
<1>11. ASSUME NEW n \in Nodes, Step(n)
       PROVE  CleanupAfterCompletion'
  <2>1. NotifyMsg(n) \/ (\E p \in Nodes : MergeRemoteState(n, p)) => Panic(n)
    BY Zenon DEF NotifyMsg, MergeRemoteState
  <2>. QED  BY <1>3, <1>4, <1>5, <1>9, <1>10, <1>11, <2>1 DEF Step
<1>12. CASE UNCHANGED vars
  BY <1>12 DEF vars, procVars, seedVars
<1>. QED  BY <1>3, <1>11, <1>12 DEF Next

(* In a cluster of any size an exchange is wiped only when it is complete. *)
THEOREM CleanupSafe == JoinSpec => []CleanupAfterCompletion
<1>1. JoinInit => CleanupAfterCompletion
  BY Zenon DEF JoinInit, InitWith, CleanupAfterCompletion, Others
<1>. QED  BY <1>1, CleanupStep, Invariance, PTL DEF JoinSpec
-----------------------------------------------------------------------------
(* A step that gives no key to a node outside the seed nodes' cluster.     *)
Isolated ==
  \A x \in Nodes :
    /\ HasKey(x)' \/ sealing'[x] # NoKey => HasKey(x) \/ sealing[x] # NoKey \/ WithSeeds(x)
    /\ \A m \in BagToSet(net'[x]) : \/ m \in BagToSet(net[x]) \/ m.type # "KEYQUERY_RESP"
                                    \/ WithSeeds(m.from)
    /\ \A j \in BagToSet(jobs'[x]) : \/ j \in BagToSet(jobs[x]) \/ j.kind # "KEY_REPLY"
                                     \/ WithSeeds(x)

LEMMA IsolatedStep ==
  ASSUME IsolationInv, Isolated
  PROVE  IsolationInv'
<1>1. \A x : WithSeeds(x)' <=> WithSeeds(x)
  BY DEF WithSeeds
<1>. QED  BY <1>1 DEF IsolationInv, Isolated

LEMMA JobsPut ==
  ASSUME TypeOK, NEW n \in Nodes, NEW e, NEW d, NEW x \in Nodes,
         \/ jobs' = [jobs EXCEPT ![n] = Put(@, e)]
         \/ jobs' = [jobs EXCEPT ![n] = Put(Take(@, d), e)]
  PROVE  BagToSet(jobs'[x]) \subseteq BagToSet(jobs[x]) \cup {i \in {e} : x = n}
<1>1. /\ IsABag(jobs[n])
      /\ x # n => jobs'[x] = jobs[x]
      /\ x = n => jobs'[x] = Put(jobs[n], e) \/ jobs'[x] = Put(Take(jobs[n], d), e)
  BY DEF TypeOK, BagsOf
<1>. QED  BY <1>1, PutBag, Replaced

LEMMA UntouchedIsolated ==
  ASSUME UNCHANGED <<disk, sealing, net, jobs>>
  PROVE  Isolated
BY DEF Isolated, HasKey

LEMMA ProcessIsolated ==
  ASSUME Inv, NEW n \in Nodes,
         \/ Start(n) \/ ReadKey(n) \/ Join(n) \/ Seal(n)
         \/ Crash(n) \/ CrashWhileSealing(n) \/ Panic(n)
  PROVE  Isolated
<1>0. /\ disk \in [Nodes -> Keys \cup {NoKey, Torn}] /\ sealing \in [Nodes -> Keys \cup {NoKey}]
      /\ net \in [Nodes -> {net[x] : x \in Nodes}] /\ jobs \in [Nodes -> {jobs[x] : x \in Nodes}]
  BY DEF Inv, TypeOK, BagsOf
<1>1. CASE Start(n) \/ ReadKey(n) \/ Join(n)
  <2>1. UNCHANGED <<disk, sealing, net, jobs>>
    BY <1>1, Zenon DEF Start, ReadKey, Join
  <2>. QED  BY <2>1, UntouchedIsolated
<1>2. CASE Seal(n)
  <2>1. /\ sealing[n] # NoKey /\ UNCHANGED <<net, jobs>>
        /\ \A x \in Nodes \ {n} : disk'[x] = disk[x] /\ sealing'[x] = sealing[x]
    BY <1>0, <1>2 DEF Seal
  <2>. QED  BY <2>1, Zenon DEF Isolated, HasKey
<1>3. CASE Crash(n) \/ CrashWhileSealing(n) \/ Panic(n)
  <2>1. Die(n)
    BY <1>3 DEF Crash, CrashWhileSealing, Panic
  <2>2. \A x \in Nodes : HasKey(x)' => HasKey(x)
    BY <1>0, <1>3, KeysAssumption, Zenon DEF Crash, CrashWhileSealing, Panic, HasKey
  <2>3. \A x \in Nodes : \/ x # n /\ sealing'[x] = sealing[x] /\ net'[x] = net[x] /\ jobs'[x] = jobs[x]
                         \/ sealing'[x] = NoKey /\ net'[x] = EmptyBag /\ jobs'[x] = EmptyBag
    BY <1>0, <2>1, Zenon DEF Die
  <2>. QED  BY <2>2, <2>3, EmptyBagIsBag, Zenon DEF Isolated
<1>. QED  BY <1>1, <1>2, <1>3

LEMMA SeedIsolated ==
  ASSUME Inv, NEW n \in Nodes, SeedStep(n)
  PROVE  Isolated
<1>0. TypeOK /\ BagsOf(jobs, Job) /\ BagsOf(net, Message)
  BY Zenon DEF Inv, TypeOK
<1>1. ASSUME NEW members \in SUBSET (booted \ {n}), StartSeedAsMaster(n, members)
      PROVE  Isolated
  <2>1. PICK k \in Keys : jobs' = [jobs EXCEPT ![n] =
                                     @ (+) SetToBag({Go("SEED_KEY", p, k) : p \in members})]
    BY <1>1, Zenon DEF StartSeedAsMaster
  <2>. DEFINE J == {Go("SEED_KEY", p, k) : p \in members}
  <2>2. \A j \in J : j.kind = "SEED_KEY"
    BY DEF Go
  <2>3. \A x \in Nodes : BagToSet(jobs'[x]) \subseteq BagToSet(jobs[x]) \cup {j \in J : x = n}
    <3>1. jobs' = [jobs EXCEPT ![n] = @ (+) SetToBag(J)]
      BY <2>1
    <3>. HIDE DEF J
    <3>2. /\ IsABag(jobs[n]) /\ jobs'[n] = jobs[n] (+) SetToBag(J)
          /\ \A x \in Nodes \ {n} : jobs'[x] = jobs[x]
      BY <1>0, <3>1 DEF BagsOf
    <3>. QED  BY <3>2, AddToBag
  <2>4. UNCHANGED <<disk, sealing, net>>
    BY <1>1 DEF StartSeedAsMaster, BeginSeed
  <2>. HIDE DEF J
  <2>. QED  BY <2>2, <2>3, <2>4 DEF Isolated, HasKey
<1>2. ASSUME NEW members, StartSeedAsSlave(n, members)
      PROVE  Isolated
  BY <1>2, UntouchedIsolated DEF StartSeedAsSlave, BeginSeed
<1>3. ASSUME NEW j \in BagToSet(jobs[n]), SendSeedKey(n, j.to, j.key)
      PROVE  Isolated
  <2>. DEFINE e == Msg("KEYINIT", n, j.key)
              a == Go("SEED_KEY", j.to, j.key)
  <2>1. j.to \in Nodes
    BY <1>0, Zenon DEF BagsOf, Job
  <2>2. /\ Send(j.to, e) \/ SendFails(j.to)
        /\ jobs' = [jobs EXCEPT ![n] = Take(@, a)] /\ UNCHANGED <<disk, sealing>>
    BY <1>3 DEF SendSeedKey, procVars
  <2>3. e.type = "KEYINIT"
    BY DEF Msg
  <2>. HIDE DEF e, a
  <2>4. \A x \in Nodes : BagToSet(net'[x]) \subseteq BagToSet(net[x]) \cup {e}
    BY <1>0, <2>1, <2>2, Sent
  <2>5. \A x \in Nodes : BagToSet(jobs'[x]) \subseteq BagToSet(jobs[x])
    BY <1>0, <2>2, TakenOut, Zenon
  <2>. QED  BY <2>2, <2>3, <2>4, <2>5 DEF Isolated, HasKey
<1>4. ASSUME NEW j \in BagToSet(jobs[n]), NEW D \in SUBSET otherSeedNodes[n], Forward(n, j.key, D)
      PROVE  Isolated
  <2>. DEFINE e == Msg("KEYINIT", n, j.key)
              a == Go("FORWARD", n, j.key)
              b == Go("CLEANUP", n, j.key)
  <2>1. /\ net' = [p \in Nodes |-> IF p \in D THEN Put(net[p], e) ELSE net[p]]
        /\ jobs' = [jobs EXCEPT ![n] = Put(Take(@, a), b)] /\ UNCHANGED <<disk, sealing>>
    BY <1>4, Zenon DEF Forward, procVars
  <2>2. e.type = "KEYINIT" /\ b.kind = "CLEANUP"
    BY DEF Msg, Go
  <2>. HIDE DEF e, a, b
  <2>3. \A x \in Nodes : BagToSet(net'[x]) \subseteq BagToSet(net[x]) \cup {e}
    BY <1>0, <2>1, PutBag DEF BagsOf
  <2>4. \A x \in Nodes : BagToSet(jobs'[x]) \subseteq BagToSet(jobs[x]) \cup {i \in {b} : x = n}
    BY <1>0, <2>1, JobsPut, Zenon
  <2>. QED  BY <2>1, <2>2, <2>3, <2>4, Zenon DEF Isolated, HasKey
<1>5. ASSUME NEW k, CheckCleanup(n, k)
      PROVE  Isolated
  <2>1. /\ jobs' = [jobs EXCEPT ![n] = Take(@, Go("CLEANUP", n, k))]
        /\ UNCHANGED <<disk, sealing, net>>
    BY <1>5 DEF CheckCleanup, procVars
  <2>2. \A x \in Nodes : BagToSet(jobs'[x]) \subseteq BagToSet(jobs[x])
    BY <1>0, <2>1, TakenOut
  <2>. QED  BY <2>1, <2>2, Zenon DEF Isolated, HasKey
<1>. QED  BY <1>1, <1>2, <1>3, <1>4, <1>5, Zenon DEF SeedStep

LEMMA QueryIsolated ==
  ASSUME Inv, IsolationInv, NEW n \in Nodes, QueryStep(n) \/ ValidateStep(n)
  PROVE  Isolated
<1>0. TypeOK /\ BagsOf(jobs, Job)
  BY Zenon DEF Inv, TypeOK
<1>1. ASSUME NEW P, QueryKey(n, P) \/ AskNobody(n) \/ FindValidators(n, P)
      PROVE  Isolated
  BY <1>1, UntouchedIsolated DEF QueryKey, AskNobody, FindValidators
<1>2. ASSUME NEW m \in Nodes, SendQuery(n, m) \/ SendChallenge(n, m) \/ PassOver(n, m)
      PROVE  Isolated
  <2>1. PICK e \in {Msg("KEYQUERY", n, NoKey), Msg("CHALLENGE", n, NoKey)} :
           Send(m, e) \/ SendFails(m) \/ UNCHANGED net
    BY <1>2, Zenon DEF SendQuery, SendChallenge, PassOver
  <2>2. \A x \in Nodes : BagToSet(net'[x]) \subseteq BagToSet(net[x]) \cup {e}
    BY <1>0, <2>1, Sent
  <2>3. e.type # "KEYQUERY_RESP"
    BY DEF Msg
  <2>4. UNCHANGED <<disk, sealing, jobs>>
    BY <1>2 DEF SendQuery, SendChallenge, PassOver, procVars
  <2>. QED  BY <2>2, <2>3, <2>4, Zenon DEF Isolated, HasKey
<1>3. ASSUME NEW j \in BagToSet(jobs[n]), SendKeyReply(n, j.to, j.key)
      PROVE  Isolated
  <2>. DEFINE e == Msg("KEYQUERY_RESP", n, j.key)
              a == Go("KEY_REPLY", j.to, j.key)
  <2>1. j.to \in Nodes
    BY <1>0, Zenon DEF BagsOf, Job
  <2>2. /\ a \in BagToSet(jobs[n]) /\ (Send(j.to, e) \/ SendFails(j.to))
        /\ jobs' = [jobs EXCEPT ![n] = Take(@, a)] /\ UNCHANGED <<disk, sealing>>
    BY <1>3 DEF SendKeyReply, BagIn, procVars
  <2>3. e.from = n /\ a.kind = "KEY_REPLY"
    BY DEF Msg, Go
  <2>. HIDE DEF e, a
  <2>4. WithSeeds(n)
    BY <2>2, <2>3 DEF IsolationInv
  <2>5. \A x \in Nodes : BagToSet(net'[x]) \subseteq BagToSet(net[x]) \cup {e}
    BY <1>0, <2>1, <2>2, Sent, Zenon
  <2>6. \A x \in Nodes : BagToSet(jobs'[x]) \subseteq BagToSet(jobs[x])
    BY <1>0, <2>2, TakenOut, Zenon
  <2>. QED  BY <2>2, <2>3, <2>4, <2>5, <2>6, Zenon DEF Isolated, HasKey
<1>4. ASSUME NEW j \in BagToSet(jobs[n]), SendChallengeReply(n, j.to, j.key)
      PROVE  Isolated
  <2>. DEFINE e == Msg("CHALLENGE_RESP", n, j.key)
              a == Go("CHALLENGE_REPLY", j.to, j.key)
              b == Go("STUCK_REPLY", j.to, j.key)
  <2>1. j.to \in Nodes
    BY <1>0 DEF BagsOf, Job
  <2>2. /\ Send(j.to, e) \/ SendFails(j.to)
        /\ \/ jobs' = [jobs EXCEPT ![n] = Take(@, a)]
           \/ jobs' = [jobs EXCEPT ![n] = Put(Take(@, a), b)]
        /\ UNCHANGED <<disk, sealing>>
    BY <1>4 DEF SendChallengeReply, procVars
  <2>3. e.type = "CHALLENGE_RESP" /\ b.kind = "STUCK_REPLY"
    BY DEF Msg, Go
  <2>. HIDE DEF e, a, b
  <2>4. \A x \in Nodes : BagToSet(net'[x]) \subseteq BagToSet(net[x]) \cup {e}
    BY <1>0, <2>1, <2>2, Sent, Zenon
  <2>5. \A x \in Nodes : BagToSet(jobs'[x]) \subseteq BagToSet(jobs[x]) \cup {b}
    <3>1. CASE jobs' = [jobs EXCEPT ![n] = Take(@, a)]
      BY <1>0, <3>1, TakenOut, Zenon
    <3>2. CASE jobs' = [jobs EXCEPT ![n] = Put(Take(@, a), b)]
      BY <1>0, <3>2, JobsPut, Zenon
    <3>. QED  BY <2>2, <3>1, <3>2, Zenon
  <2>. QED  BY <2>2, <2>3, <2>4, <2>5, Zenon DEF Isolated, HasKey
<1>. QED  BY <1>1, <1>2, <1>3, <1>4 DEF QueryStep, ValidateStep

LEMMA LoopIsolated ==
  ASSUME Inv, SeedsTogether, IsolationInv, NEW n \in Nodes, NEW m \in BagToSet(net[n]),
         Loop(n, m), ~Panic(n)
  PROVE  Isolated
<1>0. /\ TypeOK /\ sealing \in [Nodes -> Keys \cup {NoKey}]
      /\ status[n] = "SEEDING" => n \in Seeds
      /\ status[n] = "READY" => HasKey(n)
  BY Zenon DEF Inv, TypeOK, AgreementInv, Lifecycle
<1>1. ASSUME Consume(n, m)
      PROVE  \A x \in Nodes : BagToSet(net'[x]) \subseteq BagToSet(net[x])
  BY <1>0, <1>1, Consumed, Zenon
<1>2. CASE Received(n, m, "SEEDING", "KEYINIT") /\ KeyReceived(n, m)
  <2>. DEFINE e == Go("FORWARD", n, m.key)
  <2>1. WithSeeds(n)
    BY <1>0, <1>2, Zenon DEF Received, SeedsTogether, WithSeeds
  <2>2. /\ Consume(n, m) /\ jobs' = [jobs EXCEPT ![n] = Put(@, e)] /\ disk' = disk
        /\ \A x \in Nodes \ {n} : sealing'[x] = sealing[x]
    BY <1>0, <1>2, Zenon DEF KeyReceived
  <2>3. e.kind = "FORWARD"
    BY DEF Go
  <2>. HIDE DEF e
  <2>4. \A x \in Nodes : BagToSet(jobs'[x]) \subseteq BagToSet(jobs[x]) \cup {e}
    BY <1>0, <2>2, JobsPut, Zenon
  <2>. QED  BY <1>1, <2>1, <2>2, <2>3, <2>4, Zenon DEF Isolated, HasKey
<1>3. ASSUME NEW t, status[n] = "READY", Consume(n, m), UNCHANGED <<disk, sealing>>,
             jobs' = [jobs EXCEPT ![n] = Put(@, Go(t, m.from, disk[n]))]
      PROVE  Isolated
  <2>. DEFINE e == Go(t, m.from, disk[n])
  <2>1. WithSeeds(n)
    BY <1>0, <1>3, Zenon DEF IsolationInv
  <2>2. jobs' = [jobs EXCEPT ![n] = Put(@, e)]
    BY <1>3, Zenon
  <2>. HIDE DEF e
  <2>3. \A x \in Nodes : BagToSet(jobs'[x]) \subseteq BagToSet(jobs[x]) \cup {i \in {e} : x = n}
    BY <1>0, <2>2, JobsPut, Zenon
  <2>. QED  BY <1>1, <1>3, <2>1, <2>3, Zenon DEF Isolated, HasKey
<1>4. CASE Received(n, m, "QUERY_KEY", "KEYQUERY_RESP") /\ HandleKeyResponse(n, m)
  <2>1. WithSeeds(n)
    BY <1>4, Zenon DEF Received, IsolationInv, WithSeeds
  <2>2. /\ Consume(n, m) /\ UNCHANGED <<disk, jobs>>
        /\ \A x \in Nodes \ {n} : sealing'[x] = sealing[x]
    BY <1>0, <1>4, Zenon DEF HandleKeyResponse
  <2>. QED  BY <1>1, <2>1, <2>2, Zenon DEF Isolated, HasKey
<1>5. CASE HandleKeyChallengeResponse(n, m) \/ DropMsg(n, m)
  <2>1. Consume(n, m) /\ UNCHANGED <<disk, sealing, jobs>>
    BY <1>5, Zenon DEF HandleKeyChallengeResponse, DropMsg, procVars
  <2>. QED  BY <1>1, <2>1, Zenon DEF Isolated, HasKey
<1>6. CASE Received(n, m, "READY", "KEYQUERY") /\ HandleQueryKey(n, m)
  BY <1>3, <1>6, Zenon DEF Received, HandleQueryKey, procVars
<1>7. CASE Received(n, m, "READY", "CHALLENGE") /\ HandleKeyChallengeRequest(n, m)
  BY <1>3, <1>7, Zenon DEF Received, HandleKeyChallengeRequest, procVars
<1>. QED  BY <1>2, <1>4, <1>5, <1>6, <1>7, Zenon DEF Loop

LEMMA InvIsolates ==
  ASSUME Inv, FilesSealed, IsolationInv
  PROVE  ClusterIsolation
<1>. SUFFICES ASSUME NEW m \in Nodes, NEW n \in Nodes, HasKey(m), HasKey(n)
              PROVE  ClusterOf[m] = ClusterOf[n]
  BY DEF ClusterIsolation
<1>1. PICK s \in seeded : disk[s] = disk[m]
  BY DEF FilesSealed, Sealed
<1>2. s \in Seeds
  BY DEF Inv, AgreementInv, Lifecycle, TypeOK
<1>3. WithSeeds(m) /\ WithSeeds(n)
  BY DEF IsolationInv
<1>. QED  BY <1>2, <1>3 DEF WithSeeds

(* A node of another cluster never obtains the key, whatever the member    *)
(* lists say and however many nodes of however many clusters there are.    *)
THEOREM Isolation == ASSUME SeedsTogether PROVE Spec => []ClusterIsolation
<1>1. Init => IsolationInv
  <2>. SUFFICES ASSUME Init, NEW n \in Nodes
                PROVE  /\ ~HasKey(n) /\ sealing[n] = NoKey
                       /\ BagToSet(net[n]) = {} /\ BagToSet(jobs[n]) = {}
    BY DEF IsolationInv
  <2>1. ~HasKey(n) /\ sealing[n] = NoKey
    BY KeysAssumption DEF Init, InitWith, HasKey
  <2>2. BagToSet(net[n]) = {} /\ BagToSet(jobs[n]) = {}
    BY EmptyBagIsBag DEF Init, InitWith
  <2>. QED  BY <2>1, <2>2, Zenon
<1>2. Inv /\ IsolationInv /\ [Next]_vars => IsolationInv'
  <2>1. ASSUME Inv, IsolationInv, NEW n \in Nodes, Step(n) \/ Crash(n) \/ CrashWhileSealing(n)
        PROVE  Isolated
    <3>1. NotifyMsg(n) \/ (\E p \in Nodes : MergeRemoteState(n, p)) => Panic(n)
      BY Zenon DEF NotifyMsg, MergeRemoteState
    <3>. QED  BY <2>1, <3>1, ProcessIsolated, SeedIsolated, QueryIsolated, LoopIsolated, Zenon
                 DEF Step
  <2>2. UNCHANGED vars => Isolated
    BY DEF vars, procVars, Isolated, HasKey
  <2>. QED  BY <2>1, <2>2, IsolatedStep DEF Next
<1>. QED  BY <1>1, <1>2, SpecInv, InvIsolates, PTL DEF Spec
-----------------------------------------------------------------------------
(* With one seed node there is nobody it could hear the key from.          *)
NothingSealed ==
  /\ seeded = {}
  /\ \A n \in Nodes : status[n] = "SEEDING" => sealing[n] = NoKey

LEMMA AloneStep ==
  ASSUME Inv, NothingSealed, NEW s, Seeds = {s}, [Next]_vars
  PROVE  NothingSealed'
<1>. USE DEF NothingSealed
<1>1. status \in [Nodes -> Status] /\ sealing \in [Nodes -> Keys \cup {NoKey}]
  BY Zenon DEF Inv, TypeOK
<1>2. \A n \in Nodes : /\ sealing[n] # NoKey => status[n] \in {"SEEDING", "QUERY_KEY"}
                       /\ status[n] = "SEEDING" => n \in Seeds
  BY DEF Inv, AgreementInv, Lifecycle
<1>3. \A n \in Nodes : otherSeedNodes[n] \in {Others(n), {}}
  BY DEF Inv, AgreementInv, Exchange
<1>4. ASSUME NEW n \in Nodes, Crash(n) \/ CrashWhileSealing(n) \/ Panic(n)
      PROVE  NothingSealed'
  BY <1>1, <1>4, Zenon DEF Crash, CrashWhileSealing, Panic, Die
<1>5. ASSUME NEW n \in Nodes, Start(n) \/ ReadKey(n) \/ Join(n) \/ Seal(n)
      PROVE  NothingSealed'
  BY <1>1, <1>5, Zenon DEF Start, ReadKey, Join, Seal, SetStatus
<1>6. ASSUME NEW n \in Nodes, NEW m, Loop(n, m), ~Panic(n)
      PROVE  NothingSealed'
  <2>1. ~(Received(n, m, "SEEDING", "KEYINIT") /\ KeyReceived(n, m))
    BY <1>2, <1>3, Zenon DEF Received, KeyReceived, Others
  <2>2. CASE Received(n, m, "VALIDATING", "CHALLENGE_RESP") /\ HandleKeyChallengeResponse(n, m)
    BY <1>1, <2>2, Zenon DEF HandleKeyChallengeResponse, SetStatus
  <2>3. CASE Received(n, m, "QUERY_KEY", "KEYQUERY_RESP") /\ HandleKeyResponse(n, m)
    BY <1>1, <2>3 DEF Received, HandleKeyResponse
  <2>4. CASE HandleQueryKey(n, m) \/ HandleKeyChallengeRequest(n, m) \/ DropMsg(n, m)
    BY <2>4, Zenon DEF HandleQueryKey, HandleKeyChallengeRequest, DropMsg, procVars
  <2>. QED  BY <1>6, <2>1, <2>2, <2>3, <2>4, Zenon DEF Loop
<1>7. ASSUME NEW n \in Nodes, NEW members, BeginSeed(n, members)
      PROVE  NothingSealed'
  BY <1>1, <1>2, <1>7 DEF BeginSeed, SetStatus
<1>8. ASSUME NEW n \in Nodes, NEW p, NEW k, NEW d,
             SendSeedKey(n, p, k) \/ Forward(n, k, d) \/ CheckCleanup(n, k)
      PROVE  NothingSealed'
  BY <1>8, Zenon DEF SendSeedKey, Forward, CheckCleanup, procVars
<1>9. ASSUME NEW n \in Nodes, SeedStep(n)
      PROVE  NothingSealed'
  BY <1>7, <1>8, <1>9, Zenon DEF SeedStep, StartSeedAsMaster, StartSeedAsSlave
<1>10. ASSUME NEW n \in Nodes, NEW P, QueryKey(n, P) \/ FindValidators(n, P) \/ AskNobody(n)
       PROVE  NothingSealed'
  BY <1>1, <1>10, Zenon DEF QueryKey, FindValidators, AskNobody, SetStatus
<1>11. ASSUME NEW n \in Nodes, NEW m, SendQuery(n, m) \/ SendChallenge(n, m) \/ PassOver(n, m)
       PROVE  NothingSealed'
  BY <1>11, Zenon DEF SendQuery, SendChallenge, PassOver
<1>12. ASSUME NEW n \in Nodes, NEW m, NEW k, SendKeyReply(n, m, k) \/ SendChallengeReply(n, m, k)
       PROVE  NothingSealed'
  BY <1>12, Zenon DEF SendKeyReply, SendChallengeReply, procVars
<1>13. ASSUME NEW n \in Nodes, QueryStep(n) \/ ValidateStep(n)
       PROVE  NothingSealed'
  BY <1>10, <1>11, <1>12, <1>13, Zenon DEF QueryStep, ValidateStep
<1>14. ASSUME NEW n \in Nodes, Step(n)
       PROVE  NothingSealed'
  <2>1. NotifyMsg(n) \/ (\E p \in Nodes : MergeRemoteState(n, p)) => Panic(n)
    BY Zenon DEF NotifyMsg, MergeRemoteState
  <2>. QED  BY <1>4, <1>5, <1>6, <1>9, <1>13, <1>14, <2>1, Zenon DEF Step
<1>15. CASE UNCHANGED vars
  BY <1>15 DEF vars, procVars
<1>. QED  BY <1>4, <1>14, <1>15, Zenon DEF Next

(* A cluster whose SEED_NODES is one node never has a key: keyReceived     *)
(* only ends the exchange on a KEYINIT of another seed node.               *)
THEOREM OneSeedNeverSeals ==
  ASSUME NEW s, Seeds = {s}
  PROVE  Spec => [](\A n \in Nodes : ~HasKey(n) /\ status[n] # "READY")
<1>1. Init => NothingSealed
  BY Zenon DEF Init, InitWith, NothingSealed
<1>2. Inv /\ NothingSealed /\ [Next]_vars => NothingSealed'
  BY AloneStep
<1>3. Inv /\ FilesSealed /\ NothingSealed
        => \A n \in Nodes : ~HasKey(n) /\ status[n] # "READY"
  BY DEF Inv, AgreementInv, FilesSealed, Sealed, Lifecycle, NothingSealed
<1>. QED  BY <1>1, <1>2, <1>3, SpecInv, PTL DEF Spec
-----------------------------------------------------------------------------
(* Start() of the first seed node has ended in seed() for good.            *)
MasterStays == Master \in Seeds /\ main[Master] = "seed" => main'[Master] = "seed"

(* A step that ends no process but by a crash, and brings no second key    *)
(* into the exchange.                                                      *)
Orderly ==
  /\ \A x \in Nodes : Up(x) => Up(x)' \/ crashes' # crashes
  /\ \/ generated' = generated /\ MasterStays
     \/ \E k : generated = {} /\ generated' = {k} /\ Master \in Seeds /\ main'[Master] = "seed"
  /\ \A x \in Nodes :
       /\ generatedKey'[x] \in {generatedKey[x], NoKey, DummyKey} \cup generated'
       /\ \A m \in BagToSet(net'[x]) : \/ m \in BagToSet(net[x]) \/ m.type # "KEYINIT"
                                       \/ m.key \in generated'
       /\ \A j \in BagToSet(jobs'[x]) :
            \/ j \in BagToSet(jobs[x]) \/ j.kind \notin {"SEED_KEY", "FORWARD", "CLEANUP"}
            \/ j.key \in generated'

LEMMA OrderlyStep ==
  ASSUME OneSeeding, Orderly
  PROVE  OneSeeding'
<1>1. /\ generated \subseteq generated' /\ \A k, l \in generated' : k = l
      /\ generated' # {} => Master \in Seeds /\ main'[Master] = "seed"
  BY Zenon DEF OneSeeding, Orderly, MasterStays
<1>2. \A x \in Nodes : generatedKey'[x] \in {NoKey, DummyKey} \cup generated'
  BY <1>1, Zenon DEF OneSeeding, Orderly
<1>3. \A x \in Nodes :
        /\ \A m \in BagToSet(net'[x]) : m.type = "KEYINIT" => m.key \in generated'
        /\ \A j \in BagToSet(jobs'[x]) :
             j.kind \in {"SEED_KEY", "FORWARD", "CLEANUP"} => j.key \in generated'
  BY <1>1, Zenon DEF OneSeeding, Orderly
<1>. QED  BY <1>1, <1>2, <1>3, Zenon DEF OneSeeding

(* The steps that leave the exchange alone.                                *)
LEMMA ExchangeAlone ==
  ASSUME UNCHANGED <<generated, generatedKey>>, MasterStays,
         \A x \in Nodes :
           /\ Up(x) => Up(x)' \/ crashes' # crashes
           /\ \A m \in BagToSet(net'[x]) : m \in BagToSet(net[x]) \/ m.type # "KEYINIT"
           /\ \A j \in BagToSet(jobs'[x]) :
                j \in BagToSet(jobs[x]) \/ j.kind \notin {"SEED_KEY", "FORWARD", "CLEANUP"}
  PROVE  Orderly
BY Zenon DEF Orderly

LEMMA ProcessOrderly ==
  ASSUME Inv, NEW n \in Nodes, Start(n) \/ ReadKey(n) \/ Join(n) \/ Seal(n)
  PROVE  Orderly
<1>1. status \in [Nodes -> Status] /\ main \in [Nodes -> Main]
  BY Zenon DEF Inv, TypeOK
<1>2. /\ UNCHANGED <<net, jobs>> /\ UNCHANGED <<generated, generatedKey>>
      /\ main' = main \/ (main[n] # "seed" /\ \E v : main' = [main EXCEPT ![n] = v])
  BY Zenon DEF Start, ReadKey, Join, Seal, seedVars
<1>3. MasterStays
  BY <1>1, <1>2, Zenon DEF MasterStays, Nodes
<1>4. \A x \in Nodes : Up(x) => Up(x)'
  BY <1>1 DEF Start, ReadKey, Join, Seal, SetStatus, Up
<1>. QED  BY <1>2, <1>3, <1>4, ExchangeAlone, Zenon

(* A crash of a node other than the first seed node.                       *)
LEMMA CrashOrderly ==
  ASSUME Inv, NEW n \in Nodes, Crash(n) \/ CrashWhileSealing(n), Master \notin Crashing
  PROVE  Orderly
<1>1. /\ main \in [Nodes -> Main] /\ generatedKey \in [Nodes -> Keys \cup {NoKey, DummyKey}]
      /\ net \in [Nodes -> {net[x] : x \in Nodes}] /\ jobs \in [Nodes -> {jobs[x] : x \in Nodes}]
      /\ crashes \in Nat
  BY BoundsAssumption DEF Inv, TypeOK, BagsOf
<1>2. Die(n) /\ n # Master /\ crashes' = crashes + 1
  BY Zenon DEF Crash, CrashWhileSealing
<1>3. crashes' # crashes
  BY <1>1, <1>2
<1>4. generated' = generated /\ MasterStays
  BY <1>1, <1>2, Zenon DEF Die, MasterStays, Nodes
<1>5. \A x \in Nodes :
        \/ x # n /\ generatedKey'[x] = generatedKey[x] /\ net'[x] = net[x] /\ jobs'[x] = jobs[x]
        \/ generatedKey'[x] = NoKey /\ net'[x] = EmptyBag /\ jobs'[x] = EmptyBag
  BY <1>1, <1>2, Zenon DEF Die
<1>. QED  BY <1>3, <1>4, <1>5, EmptyBagIsBag, Zenon DEF Orderly

LEMMA SeedOrderly ==
  ASSUME Inv, OneSeeding, NEW n \in Nodes, SeedStep(n)
  PROVE  Orderly
<1>0. /\ TypeOK /\ BagsOf(jobs, Job) /\ BagsOf(net, Message)
      /\ status \in [Nodes -> Status] /\ main \in [Nodes -> Main]
      /\ generatedKey \in [Nodes -> Keys \cup {NoKey, DummyKey}]
  BY Zenon DEF Inv, TypeOK
<1>1. ASSUME NEW members, BeginSeed(n, members)
      PROVE  /\ n \in Seeds /\ main[n] = "wait" /\ main'[n] = "seed" /\ UNCHANGED net
             /\ MasterStays /\ \A x \in Nodes : Up(x) => Up(x)'
  <2>1. /\ n \in Seeds /\ main[n] = "wait" /\ UNCHANGED net
        /\ main' = [main EXCEPT ![n] = "seed"] /\ status' = [status EXCEPT ![n] = "SEEDING"]
    BY <1>1, Zenon DEF BeginSeed, SetStatus
  <2>. QED  BY <1>0, <2>1 DEF MasterStays, Nodes, Up
<1>2. ASSUME NEW members \in SUBSET (booted \ {n}), StartSeedAsMaster(n, members)
      PROVE  Orderly
  <2>1. PICK k \in Keys : /\ generatedKey' = [generatedKey EXCEPT ![n] = k]
                          /\ generated' = generated \cup {k}
                          /\ jobs' = [jobs EXCEPT ![n] =
                                        @ (+) SetToBag({Go("SEED_KEY", p, k) : p \in members})]
    BY <1>2, Zenon DEF StartSeedAsMaster
  <2>2. n = Master /\ BeginSeed(n, members)
    BY <1>2 DEF StartSeedAsMaster
  <2>3. generated = {} /\ generated' = {k} /\ Master \in Seeds /\ main'[Master] = "seed"
    BY <1>1, <2>1, <2>2, Zenon DEF OneSeeding
  <2>. DEFINE J == {Go("SEED_KEY", p, k) : p \in members}
  <2>4. \A j \in J : j.key \in generated'
    BY <2>3 DEF Go
  <2>5. \A x \in Nodes : BagToSet(jobs'[x]) \subseteq BagToSet(jobs[x]) \cup J
    <3>1. jobs' = [jobs EXCEPT ![n] = @ (+) SetToBag(J)]
      BY <2>1
    <3>. HIDE DEF J
    <3>2. /\ IsABag(jobs[n]) /\ jobs'[n] = jobs[n] (+) SetToBag(J)
          /\ \A x \in Nodes \ {n} : jobs'[x] = jobs[x]
      BY <1>0, <3>1 DEF BagsOf
    <3>. QED  BY <3>2, AddToBag
  <2>6. \A x \in Nodes : generatedKey'[x] \in {generatedKey[x], k}
    BY <1>0, <2>1, Zenon
  <2>. HIDE DEF J
  <2>. QED  BY <1>1, <2>2, <2>3, <2>4, <2>5, <2>6, Zenon DEF Orderly
<1>3. ASSUME NEW members, StartSeedAsSlave(n, members)
      PROVE  Orderly
  <2>1. /\ BeginSeed(n, members) /\ UNCHANGED <<jobs, generated>>
        /\ generatedKey' = [generatedKey EXCEPT ![n] = DummyKey]
    BY <1>3 DEF StartSeedAsSlave
  <2>2. \A x \in Nodes : generatedKey'[x] \in {generatedKey[x], DummyKey}
    BY <1>0, <2>1, Zenon
  <2>. QED  BY <1>1, <2>1, <2>2, Zenon DEF Orderly
<1>4. ASSUME NEW j \in BagToSet(jobs[n]), SendSeedKey(n, j.to, j.key)
      PROVE  Orderly
  <2>. DEFINE e == Msg("KEYINIT", n, j.key)
              a == Go("SEED_KEY", j.to, j.key)
  <2>1. /\ BagIn(a, jobs[n]) /\ (Send(j.to, e) \/ SendFails(j.to))
        /\ jobs' = [jobs EXCEPT ![n] = Take(@, a)]
        /\ UNCHANGED <<status, main, generatedKey, generated>>
    BY <1>4 DEF SendSeedKey, procVars, seedVars
  <2>2. a.kind = "SEED_KEY" /\ a.key = j.key /\ e.key = j.key
    BY DEF Msg, Go
  <2>3. j.to \in Nodes
    BY <1>0, Zenon DEF BagsOf, Job
  <2>. HIDE DEF e, a
  <2>4. e.key \in generated
    BY <2>1, <2>2, Zenon DEF OneSeeding, BagIn
  <2>5. \A x \in Nodes : BagToSet(net'[x]) \subseteq BagToSet(net[x]) \cup {e}
    BY <1>0, <2>1, <2>3, Sent, Zenon
  <2>6. \A x \in Nodes : BagToSet(jobs'[x]) \subseteq BagToSet(jobs[x])
    BY <1>0, <2>1, TakenOut, Zenon
  <2>. QED  BY <2>1, <2>4, <2>5, <2>6, Zenon DEF Orderly, MasterStays, Up
<1>5. ASSUME NEW j \in BagToSet(jobs[n]), NEW D \in SUBSET otherSeedNodes[n], Forward(n, j.key, D)
      PROVE  Orderly
  <2>. DEFINE e == Msg("KEYINIT", n, j.key)
              a == Go("FORWARD", n, j.key)
              b == Go("CLEANUP", n, j.key)
  <2>1. /\ BagIn(a, jobs[n])
        /\ net' = [p \in Nodes |-> IF p \in D THEN Put(net[p], e) ELSE net[p]]
        /\ jobs' = [jobs EXCEPT ![n] = Put(Take(@, a), b)]
        /\ UNCHANGED <<status, main, generatedKey, generated>>
    BY <1>5, Zenon DEF Forward, procVars
  <2>2. a.kind = "FORWARD" /\ a.key = j.key /\ e.key = j.key /\ b.key = j.key
    BY DEF Msg, Go
  <2>. HIDE DEF e, a, b
  <2>3. e.key \in generated /\ b.key \in generated
    BY <2>1, <2>2, Zenon DEF OneSeeding, BagIn
  <2>4. \A x \in Nodes : BagToSet(net'[x]) \subseteq BagToSet(net[x]) \cup {e}
    BY <1>0, <2>1, PutBag DEF BagsOf
  <2>5. \A x \in Nodes : BagToSet(jobs'[x]) \subseteq BagToSet(jobs[x]) \cup {i \in {b} : x = n}
    BY <1>0, <2>1, JobsPut, Zenon
  <2>. QED  BY <2>1, <2>3, <2>4, <2>5, Zenon DEF Orderly, MasterStays, Up
<1>6. ASSUME NEW k, CheckCleanup(n, k)
      PROVE  Orderly
  <2>1. /\ jobs' = [jobs EXCEPT ![n] = Take(@, Go("CLEANUP", n, k))]
        /\ UNCHANGED <<status, main, net, generated>>
        /\ \A x \in Nodes : generatedKey'[x] \in {generatedKey[x], NoKey}
    BY <1>0, <1>6 DEF CheckCleanup, procVars
  <2>2. \A x \in Nodes : BagToSet(jobs'[x]) \subseteq BagToSet(jobs[x])
    BY <1>0, <2>1, TakenOut
  <2>. QED  BY <2>1, <2>2, Zenon DEF Orderly, MasterStays, Up
<1>. QED  BY <1>2, <1>3, <1>4, <1>5, <1>6, Zenon DEF SeedStep

LEMMA QueryOrderly ==
  ASSUME Inv, NEW n \in Nodes, QueryStep(n) \/ ValidateStep(n)
  PROVE  Orderly
<1>0. /\ TypeOK /\ BagsOf(jobs, Job)
      /\ status \in [Nodes -> Status] /\ main \in [Nodes -> Main]
  BY Zenon DEF Inv, TypeOK
<1>1. UNCHANGED <<generated, generatedKey>>
  BY Zenon DEF QueryStep, ValidateStep, seedVars
<1>2. ASSUME NEW P, QueryKey(n, P) \/ AskNobody(n) \/ FindValidators(n, P)
      PROVE  Orderly
  <2>1. /\ UNCHANGED <<net, jobs>>
        /\ status' = status \/ status' = [status EXCEPT ![n] = "QUERY_KEY"]
        /\ main' = main \/ (main[n] = "wait" /\ \E v : main' = [main EXCEPT ![n] = v])
    BY <1>2, Zenon DEF QueryKey, AskNobody, FindValidators, SetStatus
  <2>2. MasterStays
    BY <1>0, <2>1 DEF MasterStays, Nodes
  <2>3. \A x \in Nodes : Up(x) => Up(x)'
    BY <1>0, <2>1 DEF Up
  <2>. QED  BY <1>1, <2>1, <2>2, <2>3, ExchangeAlone, Zenon
<1>3. ASSUME NEW e, e.type # "KEYINIT", NEW b, b.kind = "STUCK_REPLY",
             UNCHANGED <<status, main>>,
             \A x \in Nodes : /\ BagToSet(net'[x]) \subseteq BagToSet(net[x]) \cup {e}
                              /\ BagToSet(jobs'[x]) \subseteq BagToSet(jobs[x]) \cup {b}
      PROVE  Orderly
  <2>1. \A x \in Nodes : \A m \in BagToSet(net'[x]) : m \in BagToSet(net[x]) \/ m.type # "KEYINIT"
    BY <1>3, Zenon
  <2>2. \A x \in Nodes : \A j \in BagToSet(jobs'[x]) :
          j \in BagToSet(jobs[x]) \/ j.kind \notin {"SEED_KEY", "FORWARD", "CLEANUP"}
    BY <1>3
  <2>. QED  BY <1>1, <1>3, <2>1, <2>2, ExchangeAlone, Zenon DEF MasterStays, Up
<1>. DEFINE b(j) == Go("STUCK_REPLY", j.to, j.key)
<1>4. \A j : b(j).kind = "STUCK_REPLY"
  BY DEF Go
<1>5. ASSUME NEW m \in Nodes, SendQuery(n, m) \/ SendChallenge(n, m) \/ PassOver(n, m)
      PROVE  Orderly
  <2>1. PICK e \in {Msg("KEYQUERY", n, NoKey), Msg("CHALLENGE", n, NoKey)} :
           Send(m, e) \/ SendFails(m) \/ UNCHANGED net
    BY <1>5, Zenon DEF SendQuery, SendChallenge, PassOver
  <2>2. \A x \in Nodes : BagToSet(net'[x]) \subseteq BagToSet(net[x]) \cup {e}
    BY <1>0, <2>1, Sent, Zenon
  <2>3. e.type # "KEYINIT"
    BY DEF Msg
  <2>4. UNCHANGED <<status, main, jobs>>
    BY <1>5 DEF SendQuery, SendChallenge, PassOver
  <2>. HIDE DEF b
  <2>. QED  BY <1>3, <1>4, <2>2, <2>3, <2>4, Zenon
<1>6. ASSUME NEW j \in BagToSet(jobs[n]), SendKeyReply(n, j.to, j.key)
      PROVE  Orderly
  <2>. DEFINE e == Msg("KEYQUERY_RESP", n, j.key)
              a == Go("KEY_REPLY", j.to, j.key)
  <2>1. j.to \in Nodes
    BY <1>0, Zenon DEF BagsOf, Job
  <2>2. /\ Send(j.to, e) \/ SendFails(j.to)
        /\ jobs' = [jobs EXCEPT ![n] = Take(@, a)] /\ UNCHANGED <<status, main>>
    BY <1>6 DEF SendKeyReply, procVars
  <2>3. e.type # "KEYINIT"
    BY DEF Msg
  <2>. HIDE DEF e, a, b
  <2>4. \A x \in Nodes : BagToSet(net'[x]) \subseteq BagToSet(net[x]) \cup {e}
    BY <1>0, <2>1, <2>2, Sent, Zenon
  <2>5. \A x \in Nodes : BagToSet(jobs'[x]) \subseteq BagToSet(jobs[x])
    BY <1>0, <2>2, TakenOut, Zenon
  <2>. QED  BY <1>3, <1>4, <2>2, <2>3, <2>4, <2>5, Zenon
<1>7. ASSUME NEW j \in BagToSet(jobs[n]), SendChallengeReply(n, j.to, j.key)
      PROVE  Orderly
  <2>. DEFINE e == Msg("CHALLENGE_RESP", n, j.key)
              a == Go("CHALLENGE_REPLY", j.to, j.key)
  <2>1. j.to \in Nodes
    BY <1>0, Zenon DEF BagsOf, Job
  <2>2. /\ Send(j.to, e) \/ SendFails(j.to)
        /\ \/ jobs' = [jobs EXCEPT ![n] = Take(@, a)]
           \/ jobs' = [jobs EXCEPT ![n] = Put(Take(@, a), b(j))]
        /\ UNCHANGED <<status, main>>
    BY <1>7 DEF SendChallengeReply, procVars
  <2>3. e.type # "KEYINIT"
    BY DEF Msg
  <2>. HIDE DEF e, a, b
  <2>4. \A x \in Nodes : BagToSet(net'[x]) \subseteq BagToSet(net[x]) \cup {e}
    BY <1>0, <2>1, <2>2, Sent, Zenon
  <2>5. \A x \in Nodes : BagToSet(jobs'[x]) \subseteq BagToSet(jobs[x]) \cup {b(j)}
    <3>1. CASE jobs' = [jobs EXCEPT ![n] = Take(@, a)]
      BY <1>0, <3>1, TakenOut, Zenon
    <3>2. CASE jobs' = [jobs EXCEPT ![n] = Put(Take(@, a), b(j))]
      BY <1>0, <3>2, JobsPut, Zenon
    <3>. QED  BY <2>2, <3>1, <3>2, Zenon
  <2>. QED  BY <1>3, <1>4, <2>2, <2>3, <2>4, <2>5, Zenon
<1>. HIDE DEF b
<1>. QED  BY <1>2, <1>5, <1>6, <1>7, Zenon DEF QueryStep, ValidateStep

(* No message makes a handler of loop() panic: a KEYINIT comes from a seed *)
(* node that is still expected and has the one key, and the answer to a    *)
(* challenge is sealed under a key that a seed node sealed.                *)
LEMMA NothingRejected ==
  ASSUME Inv, FilesSealed, CleanupAfterCompletion, OneSeeding,
         NEW n \in Nodes, NEW m \in BagToSet(net[n])
  PROVE  /\ Received(n, m, "SEEDING", "KEYINIT") => ~SeedKeyRejected(n, m)
         /\ Received(n, m, "VALIDATING", "CHALLENGE_RESP") => ~ChallengeRejected(n, m)
<1>1. ASSUME Received(n, m, "SEEDING", "KEYINIT")
      PROVE  ~SeedKeyRejected(n, m)
  <2>1. otherSeedNodes[n] = Seeds \ {n}
    BY <1>1 DEF Received, CleanupAfterCompletion, Others
  <2>2. m.from \in Seeds \ {n}
    BY <1>1, Zenon DEF Received, Inv, AgreementInv, Messages
  <2>3. m.key \in generated /\ generatedKey[n] \in {NoKey, DummyKey} \cup generated
    BY <1>1, Zenon DEF Received, OneSeeding
  <2>4. generatedKey[n] \in {NoKey, DummyKey, m.key}
    BY <2>3, Zenon DEF OneSeeding
  <2>. QED  BY <2>1, <2>2, <2>4, Zenon DEF SeedKeyRejected
<1>2. ASSUME Received(n, m, "VALIDATING", "CHALLENGE_RESP")
      PROVE  ~ChallengeRejected(n, m)
  <2>1. Sealed(m.key)
    BY <1>2, Zenon DEF Received, Inv, AgreementInv, Provenance
  <2>2. Sealed(disk[n])
    BY <1>2, Zenon DEF Received, Inv, AgreementInv, Lifecycle, FilesSealed
  <2>. QED  BY <2>1, <2>2, SealedAgree, Zenon DEF ChallengeRejected
<1>. QED  BY <1>1, <1>2, Zenon

LEMMA LoopOrderly ==
  ASSUME Inv, FilesSealed, CleanupAfterCompletion, OneSeeding,
         NEW n \in Nodes, NEW m \in BagToSet(net[n]), Loop(n, m)
  PROVE  Orderly
<1>0. /\ TypeOK /\ status \in [Nodes -> Status]
      /\ generatedKey \in [Nodes -> Keys \cup {NoKey, DummyKey}]
  BY Zenon DEF Inv, TypeOK
<1>1. ASSUME Consume(n, m)
      PROVE  \A x \in Nodes : BagToSet(net'[x]) \subseteq BagToSet(net[x])
  BY <1>0, <1>1, Consumed, Zenon
<1>2. CASE Received(n, m, "SEEDING", "KEYINIT") /\ KeyReceived(n, m)
  <2>. DEFINE e == Go("FORWARD", n, m.key)
  <2>1. /\ Consume(n, m) /\ jobs' = [jobs EXCEPT ![n] = Put(@, e)]
        /\ UNCHANGED <<status, main, generated>>
        /\ \A x \in Nodes : generatedKey'[x] \in {generatedKey[x], m.key}
    BY <1>0, <1>2, Zenon DEF KeyReceived
  <2>2. e.key = m.key
    BY DEF Go
  <2>3. m.key \in generated
    BY <1>2, Zenon DEF Received, OneSeeding
  <2>. HIDE DEF e
  <2>4. \A x \in Nodes : BagToSet(jobs'[x]) \subseteq BagToSet(jobs[x]) \cup {e}
    BY <1>0, <2>1, JobsPut, Zenon
  <2>. QED  BY <1>1, <2>1, <2>2, <2>3, <2>4, Zenon DEF Orderly, MasterStays, Up
<1>3. ASSUME NEW t \in {"KEY_REPLY", "CHALLENGE_REPLY"}, Consume(n, m),
             UNCHANGED <<status, main, generatedKey, generated>>,
             jobs' = [jobs EXCEPT ![n] = Put(@, Go(t, m.from, disk[n]))]
      PROVE  Orderly
  <2>. DEFINE e == Go(t, m.from, disk[n])
  <2>1. e.kind \notin {"SEED_KEY", "FORWARD", "CLEANUP"}
    BY DEF Go
  <2>2. jobs' = [jobs EXCEPT ![n] = Put(@, e)]
    BY <1>3, Zenon
  <2>. HIDE DEF e
  <2>3. \A x \in Nodes : BagToSet(jobs'[x]) \subseteq BagToSet(jobs[x]) \cup {i \in {e} : x = n}
    BY <1>0, <2>2, JobsPut, Zenon
  <2>. QED  BY <1>1, <1>3, <2>1, <2>3, Zenon DEF Orderly, MasterStays, Up
<1>4. CASE /\ HandleKeyResponse(n, m) \/ HandleKeyChallengeResponse(n, m) \/ DropMsg(n, m)
           /\ UNCHANGED seedVars
  <2>1. /\ Consume(n, m) /\ UNCHANGED <<main, jobs, generatedKey, generated>>
        /\ status' = status \/ status' = [status EXCEPT ![n] = "READY"]
    BY <1>4, Zenon DEF HandleKeyResponse, HandleKeyChallengeResponse, DropMsg, SetStatus, procVars,
                       seedVars
  <2>2. \A x \in Nodes : Up(x) => Up(x)'
    BY <1>0, <2>1 DEF Up
  <2>. QED  BY <1>1, <2>1, <2>2, Zenon DEF Orderly, MasterStays
<1>5. CASE HandleQueryKey(n, m) /\ UNCHANGED seedVars
  BY <1>3, <1>5, Zenon DEF HandleQueryKey, procVars, seedVars
<1>6. CASE HandleKeyChallengeRequest(n, m) /\ UNCHANGED seedVars
  BY <1>3, <1>6, Zenon DEF HandleKeyChallengeRequest, procVars, seedVars
<1>7. DropMsg(n, m) => UNCHANGED seedVars
  BY Zenon DEF DropMsg
<1>. QED  BY <1>2, <1>4, <1>5, <1>6, <1>7, NothingRejected, Zenon DEF Loop

LEMMA OrderlyNext ==
  ASSUME SameCluster, Master \notin Crashing,
         Inv, FilesSealed, CleanupAfterCompletion, OneSeeding, Next
  PROVE  Orderly
<1>1. ASSUME NEW n \in Nodes, Step(n)
      PROVE  Orderly
  <2>1. \A m \in BagToSet(net[n]) : m.from \in Nodes
    BY Zenon DEF Inv, TypeOK, BagsOf, Message
  <2>2. ~NotifyMsg(n) /\ \A p \in Nodes : ~MergeRemoteState(n, p)
    BY <2>1, Zenon DEF NotifyMsg, MergeRemoteState, SameCluster
  <2>. QED  BY <1>1, <2>2, ProcessOrderly, SeedOrderly, QueryOrderly, LoopOrderly, Zenon DEF Step
<1>2. ASSUME NEW n \in Nodes, Crash(n) \/ CrashWhileSealing(n)
      PROVE  Orderly
  BY <1>2, CrashOrderly, Zenon
<1>. QED  BY <1>1, <1>2, Zenon DEF Next

(* One step, as the two theorems that follow need it.                      *)
LEMMA OneSeedingStep ==
  ASSUME SameCluster, Master \notin Crashing
  PROVE  Inv /\ FilesSealed /\ CleanupAfterCompletion /\ OneSeeding /\ [Next]_vars
           => OneSeeding' /\ [\A n \in Nodes : Up(n) => Up(n)' \/ crashes' # crashes]_vars
<1>1. Orderly => \A n \in Nodes : Up(n) => Up(n)' \/ crashes' # crashes
  BY Zenon DEF Orderly
<1>2. UNCHANGED vars /\ OneSeeding => OneSeeding'
  BY Zenon DEF vars, procVars, seedVars, OneSeeding
<1>. QED  BY <1>1, <1>2, OrderlyNext, OrderlyStep

(* While the first seed node does not crash and all nodes are of one       *)
(* cluster, seed() draws one key at most, and what the seed nodes exchange *)
(* is that key: it is the one each of them was given, is sent, or is about *)
(* to store.                                                               *)
THEOREM SeedsOnce ==
  ASSUME SameCluster, Master \notin Crashing
  PROVE  Spec => []OneSeeding
<1>1. Init => OneSeeding
  <2>. SUFFICES ASSUME Init PROVE OneSeeding
    OBVIOUS
  <2>1. generated = {}
    BY KeysAssumption DEF Init, InitWith
  <2>2. \A n \in Nodes : /\ generatedKey[n] = NoKey
                         /\ BagToSet(net[n]) = {} /\ BagToSet(jobs[n]) = {}
    BY EmptyBagIsBag DEF Init, InitWith
  <2>. QED  BY <2>1, <2>2, Zenon DEF OneSeeding
<1>2. Spec => []CleanupAfterCompletion
  BY FreshStart, CleanupSafe, PTL DEF Spec, JoinSpec
<1>. QED  BY <1>1, <1>2, OneSeedingStep, SpecInv, PTL DEF Spec

(* While the first seed node does not crash and all nodes are of one       *)
(* cluster, a process ends only by a crash: whatever the other nodes do,   *)
(* no message makes keyReceived, handleKeyChallengeResponse or NotifyMsg   *)
(* panic.                                                                  *)
THEOREM NeverPanics ==
  ASSUME SameCluster, Master \notin Crashing
  PROVE  Spec => NoPanic
<1>1. Spec => []CleanupAfterCompletion
  BY FreshStart, CleanupSafe, PTL DEF Spec, JoinSpec
<1>. QED  BY <1>1, SeedsOnce, OneSeedingStep, SpecInv, PTL DEF Spec, NoPanic
=============================================================================
