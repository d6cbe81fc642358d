---------------------------- MODULE ClusterTypes ----------------------------
(***************************************************************************)
(* What the steps of the cluster do to the bags of goroutines and          *)
(* messages; and every step of the cluster preserves TypeOK, for every     *)
(* number of nodes, keys, crashes, restarts and failed sends.              *)
(***************************************************************************)
EXTENDS ClusterInv, FiniteSetTheorems, TLAPS

(* Adding an element to a bag, and taking one copy of it out.              *)
LEMMA PutBag ==
  ASSUME NEW B, IsABag(B), NEW e
  PROVE  IsABag(Put(B, e)) /\ BagToSet(Put(B, e)) = BagToSet(B) \cup {e}
BY SMT DEF IsABag, Put, BagToSet, SetToBag, (+)

LEMMA TakeBag ==
  ASSUME NEW B, IsABag(B), NEW e
  PROVE  /\ IsABag(Take(B, e))
         /\ BagToSet(Take(B, e)) \subseteq BagToSet(B)
         /\ BagToSet(B) \subseteq BagToSet(Take(B, e)) \cup {e}
BY SMT DEF IsABag, Take, BagToSet, SetToBag, (-)

LEMMA AddToBag ==
  ASSUME NEW B, IsABag(B), NEW S
  PROVE  /\ IsABag(B (+) SetToBag(S))
         /\ BagToSet(B (+) SetToBag(S)) = BagToSet(B) \cup S
BY SMT DEF IsABag, BagToSet, SetToBag, (+)

LEMMA EmptyBagIsBag == IsABag(EmptyBag) /\ BagToSet(EmptyBag) = {}
BY SMT DEF IsABag, BagToSet, SetToBag, EmptyBag

(* The same for a function of bags, one per node.                          *)
LEMMA BagsPut ==
  ASSUME NEW f, NEW S, BagsOf(f, S), NEW n \in Nodes, NEW e \in S
  PROVE  BagsOf([f EXCEPT ![n] = Put(@, e)], S)
BY PutBag, SMT DEF BagsOf

LEMMA BagsTake ==
  ASSUME NEW f, NEW S, BagsOf(f, S), NEW n \in Nodes, NEW e
  PROVE  BagsOf([f EXCEPT ![n] = Take(@, e)], S)
BY TakeBag, SMT DEF BagsOf

LEMMA BagsReplace ==
  ASSUME NEW f, NEW S, BagsOf(f, S), NEW n \in Nodes, NEW e, NEW d \in S
  PROVE  BagsOf([f EXCEPT ![n] = Put(Take(@, e), d)], S)
<1>1. IsABag(Take(f[n], e)) /\ BagToSet(Take(f[n], e)) \subseteq S
  BY TakeBag DEF BagsOf
<1>. QED  BY <1>1, PutBag, SMT DEF BagsOf

LEMMA BagsAdd ==
  ASSUME NEW f, NEW S, BagsOf(f, S), NEW n \in Nodes, NEW T \in SUBSET S
  PROVE  BagsOf([f EXCEPT ![n] = @ (+) SetToBag(T)], S)
BY AddToBag, SMT DEF BagsOf

LEMMA BagsClear ==
  ASSUME NEW f, NEW S, BagsOf(f, S), NEW n \in Nodes
  PROVE  BagsOf([f EXCEPT ![n] = EmptyBag], S)
BY EmptyBagIsBag, SMT DEF BagsOf

LEMMA BagsPutMany ==
  ASSUME NEW f, NEW S, BagsOf(f, S), NEW T \in SUBSET Nodes, NEW e \in S
  PROVE  BagsOf([p \in Nodes |-> IF p \in T THEN Put(f[p], e) ELSE f[p]], S)
BY PutBag, SMT DEF BagsOf
-----------------------------------------------------------------------------
(* What a step does to the contents of the bags.                           *)
LEMMA TakenOut ==
  ASSUME NEW f, NEW S, BagsOf(f, S), NEW n \in Nodes, NEW e,
         NEW g, g = [f EXCEPT ![n] = Take(@, e)], NEW x \in Nodes
  PROVE  BagToSet(g[x]) \subseteq BagToSet(f[x])
<1>1. IsABag(f[n]) /\ g[x] = IF x = n THEN Take(f[n], e) ELSE f[x]
  BY DEF BagsOf
<1>. QED  BY <1>1, TakeBag

LEMMA Replaced ==
  ASSUME NEW B, IsABag(B), NEW e, NEW d
  PROVE  BagToSet(Put(Take(B, e), d)) \subseteq BagToSet(B) \cup {d}
BY TakeBag, PutBag

LEMMA Sent ==
  ASSUME TypeOK, NEW p \in Nodes, NEW m, Send(p, m) \/ SendFails(p), NEW x \in Nodes
  PROVE  BagToSet(net'[x]) \subseteq BagToSet(net[x]) \cup {i \in {m} : x = p}
<1>1. CASE Send(p, m)
  <2>1. IsABag(net[p]) /\ net'[x] = IF x = p THEN Put(net[p], m) ELSE net[x]
    BY <1>1 DEF Send, TypeOK, BagsOf
  <2>. QED  BY <2>1, PutBag
<1>2. CASE SendFails(p)
  BY <1>2 DEF SendFails
<1>. QED  BY <1>1, <1>2

LEMMA Consumed ==
  ASSUME TypeOK, NEW n \in Nodes, NEW m, Consume(n, m),
         NEW x \in Nodes, NEW i \in BagToSet(net'[x])
  PROVE  i \in BagToSet(net[x])
BY TakenOut, Zenon DEF Consume, TypeOK
-----------------------------------------------------------------------------
(* A cluster that starts for the first time is one without key files.      *)
LEMMA FreshStart == Init => JoinInit
<1>. DEFINE none == [j \in Joiners |-> NoKey]
<1>1. none \in [Joiners -> Keys \cup {NoKey}]
  OBVIOUS
<1>2. [n \in Nodes |-> IF n \in Seeds THEN NoKey ELSE none[n]] = [n \in Nodes |-> NoKey]
  BY DEF Nodes
<1>. QED  BY <1>1, <1>2 DEF Init, JoinInit

LEMMA InitType == JoinInit => TypeOK
<1>. SUFFICES ASSUME NEW files \in [Joiners -> Keys \cup {NoKey}],
                     InitWith([n \in Nodes |-> IF n \in Seeds THEN NoKey ELSE files[n]])
              PROVE  TypeOK
  BY DEF JoinInit
<1>1. BagsOf([n \in Nodes |-> EmptyBag], Job) /\ BagsOf([n \in Nodes |-> EmptyBag], Message)
  BY EmptyBagIsBag DEF BagsOf
<1>. QED  BY <1>1, BoundsAssumption DEF InitWith, TypeOK, Others, Status, Main, Nodes

LEMMA SendType ==
  ASSUME TypeOK, NEW p \in Nodes, NEW m \in Message, Send(p, m) \/ SendFails(p)
  PROVE  BagsOf(net', Message) /\ failures' \in 0 .. MaxFailures
BY BagsPut, BoundsAssumption DEF Send, SendFails, TypeOK

(* Each action of a node preserves the types.                              *)
LEMMA ProcessType ==
  ASSUME TypeOK, NEW n \in Nodes,
         Start(n) \/ ReadKey(n) \/ Join(n) \/ Seal(n)
  PROVE  TypeOK'
<1>. USE DEF SetStatus, boundVars, seedVars, exchangeVars, Status, Main
<1>1. CASE Start(n)
  BY <1>1, BoundsAssumption DEF Start, TypeOK, BagsOf
<1>2. CASE ReadKey(n)
  BY <1>2 DEF ReadKey, TypeOK, BagsOf
<1>3. CASE Join(n)
  BY <1>3 DEF Join, TypeOK, BagsOf
<1>4. CASE Seal(n)
  BY <1>4 DEF Seal, TypeOK, BagsOf
<1>. QED  BY <1>1, <1>2, <1>3, <1>4

LEMMA DieType ==
  ASSUME TypeOK, NEW n \in Nodes, Die(n),
         disk' \in [Nodes -> Keys \cup {NoKey, Torn}], crashes' \in 0 .. MaxCrashes
  PROVE  TypeOK'
<1>1. BagsOf(jobs', Job) /\ BagsOf(net', Message)
  BY BagsClear, Zenon DEF Die, TypeOK
<1>. QED
  BY <1>1 DEF Die, TypeOK, viewVars, Status, Main, Others, Nodes

LEMMA EndType ==
  ASSUME TypeOK, NEW n \in Nodes,
         Crash(n) \/ CrashWhileSealing(n) \/ Panic(n)
  PROVE  TypeOK'
<1>1. crashes' \in 0 .. MaxCrashes
  BY BoundsAssumption DEF Crash, CrashWhileSealing, Panic, TypeOK
<1>2. disk' \in [Nodes -> Keys \cup {NoKey, Torn}]
  BY DEF Crash, CrashWhileSealing, Panic, TypeOK
<1>. QED  BY <1>1, <1>2, DieType DEF Crash, CrashWhileSealing, Panic

LEMMA SeedType ==
  ASSUME TypeOK, NEW n \in Nodes, SeedStep(n)
  PROVE  TypeOK'
<1>. USE DEF SetStatus, procVars, viewVars, boundVars, seedVars, exchangeVars, Status, Main
<1>1. ASSUME NEW members \in SUBSET (booted \ {n}), StartSeedAsMaster(n, members)
      PROVE  TypeOK'
  <2>1. PICK k \in Keys :
          /\ generatedKey' = [generatedKey EXCEPT ![n] = k]
          /\ generated' = generated \cup {k}
          /\ jobs' = [jobs EXCEPT ![n] =
                       @ (+) SetToBag({Go("SEED_KEY", p, k) : p \in members})]
    BY <1>1, Zenon DEF StartSeedAsMaster
  <2>2. {Go("SEED_KEY", p, k) : p \in members} \subseteq Job
    BY DEF TypeOK, Go, Job
  <2>3. BagsOf(jobs', Job)
    BY <2>1, <2>2, BagsAdd, Zenon DEF TypeOK
  <2>. QED  BY <1>1, <2>1, <2>3, Zenon DEF StartSeedAsMaster, BeginSeed, TypeOK
<1>2. ASSUME NEW members \in SUBSET (booted \ {n}), StartSeedAsSlave(n, members)
      PROVE  TypeOK'
  BY <1>2 DEF StartSeedAsSlave, BeginSeed, TypeOK
<1>3. ASSUME NEW j \in BagToSet(jobs[n]), SendSeedKey(n, j.to, j.key)
      PROVE  TypeOK'
  <2>1. j.to \in Nodes /\ Msg("KEYINIT", n, j.key) \in Message
    BY DEF TypeOK, BagsOf, Job, Msg, Message
  <2>2. BagsOf(net', Message) /\ failures' \in 0 .. MaxFailures
    BY <1>3, <2>1, SendType DEF SendSeedKey
  <2>3. BagsOf(jobs', Job)
    BY <1>3, BagsTake, Zenon DEF SendSeedKey, TypeOK
  <2>. QED  BY <1>3, <2>2, <2>3 DEF SendSeedKey, TypeOK
<1>4. ASSUME NEW j \in BagToSet(jobs[n]), NEW D \in SUBSET otherSeedNodes[n],
             Forward(n, j.key, D)
      PROVE  TypeOK'
  <2>1. j.key \in Keys /\ Msg("KEYINIT", n, j.key) \in Message
    BY Zenon DEF TypeOK, BagsOf, Job, Msg, Message
  <2>2. D \subseteq Nodes
    BY DEF TypeOK, Nodes
  <2>3. BagsOf(net', Message)
    <3>1. net' = [p \in Nodes |-> IF p \in D THEN Put(net[p], Msg("KEYINIT", n, j.key))
                                              ELSE net[p]]
      BY <1>4, Zenon DEF Forward
    <3>2. BagsOf(net, Message)
      BY DEF TypeOK
    <3>. QED  BY <2>1, <2>2, <3>1, <3>2, BagsPutMany
  <2>4. Go("CLEANUP", n, j.key) \in Job
    BY <2>1 DEF Go, Job
  <2>5. BagsOf(jobs', Job)
    BY <1>4, <2>4, BagsReplace, Zenon DEF Forward, TypeOK
  <2>6. failures' \in 0 .. MaxFailures
    <3>. DEFINE R == {p \in (otherSeedNodes[n] \ sentTo[n]) \cap otherMembers[n] : Up(p)} \ D
    <3>1. R \in SUBSET Seeds
      BY DEF TypeOK
    <3>2. Cardinality(R) \in Nat
      BY <3>1, NodesAssumption, FS_Subset, FS_CardinalityType
    <3>3. failures' = failures + Cardinality(R) /\ failures' <= MaxFailures
      BY <1>4, Zenon DEF Forward
    <3>. QED  BY <3>2, <3>3, BoundsAssumption DEF TypeOK
  <2>7. sentTo' = [sentTo EXCEPT ![n] = @ \cup D]
    BY <1>4 DEF Forward
  <2>. QED  BY <1>4, <2>3, <2>5, <2>6, <2>7 DEF Forward, TypeOK
<1>5. ASSUME NEW j \in BagToSet(jobs[n]), CheckCleanup(n, j.key)
      PROVE  TypeOK'
  <2>1. BagsOf(jobs', Job)
    BY <1>5, BagsTake, Zenon DEF CheckCleanup, TypeOK
  <2>2. BagsOf(net', Message)
    BY <1>5 DEF CheckCleanup, TypeOK
  <2>. QED  BY <1>5, <2>1, <2>2 DEF CheckCleanup, TypeOK
<1>. QED  BY <1>1, <1>2, <1>3, <1>4, <1>5 DEF SeedStep

LEMMA QueryType ==
  ASSUME TypeOK, NEW n \in Nodes, QueryStep(n)
  PROVE  TypeOK'
<1>. USE DEF SetStatus, procVars, viewVars, boundVars, seedVars, exchangeVars, Status, Main
<1>1. ASSUME NEW P \in SUBSET wasReady, QueryKey(n, P), UNCHANGED seedVars
      PROVE  TypeOK'
  BY <1>1, Zenon DEF QueryKey, TypeOK
<1>2. ASSUME NEW m \in Nodes, SendQuery(n, m), UNCHANGED seedVars
      PROVE  TypeOK'
  <2>1. Msg("KEYQUERY", n, NoKey) \in Message
    BY DEF Msg, Message
  <2>2. BagsOf(net', Message) /\ failures' \in 0 .. MaxFailures
    BY <1>2, <2>1, SendType, Zenon DEF SendQuery
  <2>. QED  BY <1>2, <2>2 DEF SendQuery, TypeOK
<1>3. CASE AskNobody(n) /\ UNCHANGED seedVars
  BY <1>3 DEF AskNobody, TypeOK
<1>4. ASSUME NEW j \in BagToSet(jobs[n]), SendKeyReply(n, j.to, j.key), UNCHANGED seedVars
      PROVE  TypeOK'
  <2>1. j.to \in Nodes /\ Msg("KEYQUERY_RESP", n, j.key) \in Message
    BY DEF TypeOK, BagsOf, Job, Msg, Message
  <2>2. BagsOf(net', Message) /\ failures' \in 0 .. MaxFailures
    BY <1>4, <2>1, SendType DEF SendKeyReply
  <2>3. BagsOf(jobs', Job)
    BY <1>4, BagsTake, Zenon DEF SendKeyReply, TypeOK
  <2>. QED  BY <1>4, <2>2, <2>3 DEF SendKeyReply, TypeOK
<1>. QED  BY <1>1, <1>2, <1>3, <1>4 DEF QueryStep

LEMMA ValidateType ==
  ASSUME TypeOK, NEW n \in Nodes, ValidateStep(n)
  PROVE  TypeOK'
<1>. USE DEF SetStatus, procVars, viewVars, boundVars, seedVars, exchangeVars, Status, Main
<1>1. ASSUME NEW P \in SUBSET wasReady, FindValidators(n, P), UNCHANGED seedVars
      PROVE  TypeOK'
  BY <1>1, Zenon DEF FindValidators, TypeOK
<1>2. ASSUME NEW m \in Nodes, SendChallenge(n, m), UNCHANGED seedVars
      PROVE  TypeOK'
  <2>1. Msg("CHALLENGE", n, NoKey) \in Message
    BY DEF Msg, Message
  <2>2. BagsOf(net', Message) /\ failures' \in 0 .. MaxFailures
    BY <1>2, <2>1, SendType DEF SendChallenge
  <2>. QED  BY <1>2, <2>2 DEF SendChallenge, TypeOK
<1>3. ASSUME NEW m \in Nodes, PassOver(n, m), UNCHANGED seedVars
      PROVE  TypeOK'
  <2>1. BagsOf(net', Message) /\ failures' \in 0 .. MaxFailures
    BY <1>3, BoundsAssumption DEF PassOver, SendFails, TypeOK
  <2>. QED  BY <1>3, <2>1, Zenon DEF PassOver, TypeOK
<1>4. ASSUME NEW j \in BagToSet(jobs[n]), SendChallengeReply(n, j.to, j.key),
             UNCHANGED seedVars
      PROVE  TypeOK'
  <2>1. /\ j.to \in Nodes /\ Msg("CHALLENGE_RESP", n, j.key) \in Message
        /\ Go("STUCK_REPLY", j.to, j.key) \in Job
    BY Zenon DEF TypeOK, BagsOf, Job, Msg, Message, Go
  <2>2. BagsOf(net', Message) /\ failures' \in 0 .. MaxFailures
    BY <1>4, <2>1, SendType DEF SendChallengeReply
  <2>3. BagsOf(jobs', Job)
    <3>. DEFINE e == Go("CHALLENGE_REPLY", j.to, j.key)
    <3>1. \/ jobs' = [jobs EXCEPT ![n] = Take(@, e)]
          \/ jobs' = [jobs EXCEPT ![n] = Put(Take(@, e), Go("STUCK_REPLY", j.to, j.key))]
      BY <1>4, Zenon DEF SendChallengeReply
    <3>2. BagsOf(jobs, Job)
      BY DEF TypeOK
    <3>. HIDE DEF e
    <3>. QED  BY <2>1, <3>1, <3>2, BagsTake, BagsReplace
  <2>. QED  BY <1>4, <2>2, <2>3 DEF SendChallengeReply, TypeOK
<1>. QED  BY <1>1, <1>2, <1>3, <1>4 DEF ValidateStep

(* A READY node has a key to answer with, and a KEYINIT message carries one. *)
LEMMA LoopType ==
  ASSUME TypeOK, Lifecycle, Messages,
         NEW n \in Nodes, NEW m \in BagToSet(net[n]), Loop(n, m)
  PROVE  TypeOK'
<1>. USE DEF SetStatus, procVars, viewVars, boundVars, seedVars, exchangeVars, Status, Main
<1>1. m \in Message /\ m.from \in Nodes
  BY Zenon DEF TypeOK, BagsOf, Message
<1>2. ASSUME Consume(n, m)
      PROVE  BagsOf(net', Message)
  BY <1>2, BagsTake, Zenon DEF Consume, TypeOK
<1>3. CASE Received(n, m, "SEEDING", "KEYINIT") /\ KeyReceived(n, m)
  <2>1. Go("FORWARD", n, m.key) \in Job
    BY <1>3, Zenon DEF Received, Messages, Go, Job
  <2>2. BagsOf(jobs', Job)
    BY <1>3, <2>1, BagsPut, Zenon DEF KeyReceived, TypeOK
  <2>3. BagsOf(net', Message)
    BY <1>2, <1>3, Zenon DEF KeyReceived
  <2>4. m.key \in Keys /\ m.from \in Seeds
    BY <1>3 DEF Received, Messages
  <2>. QED  BY <1>3, <2>2, <2>3, <2>4 DEF KeyReceived, TypeOK
<1>4. CASE Received(n, m, "READY", "KEYQUERY") /\ HandleQueryKey(n, m) /\ UNCHANGED seedVars
  <2>1. Go("KEY_REPLY", m.from, disk[n]) \in Job
    BY <1>1, <1>4, Zenon DEF Received, Lifecycle, HasKey, Go, Job
  <2>2. BagsOf(jobs', Job)
    BY <1>4, <2>1, BagsPut, Zenon DEF HandleQueryKey, TypeOK
  <2>3. BagsOf(net', Message)
    BY <1>2, <1>4 DEF HandleQueryKey
  <2>. QED  BY <1>4, <2>2, <2>3 DEF HandleQueryKey, TypeOK
<1>5. CASE /\ Received(n, m, "READY", "CHALLENGE") /\ HandleKeyChallengeRequest(n, m)
           /\ UNCHANGED seedVars
  <2>1. Go("CHALLENGE_REPLY", m.from, disk[n]) \in Job
    BY <1>1, <1>5, Zenon DEF Received, Lifecycle, HasKey, Go, Job
  <2>2. BagsOf(jobs', Job)
    BY <1>5, <2>1, BagsPut, Zenon DEF HandleKeyChallengeRequest, TypeOK
  <2>3. BagsOf(net', Message)
    BY <1>2, <1>5, Zenon DEF HandleKeyChallengeRequest
  <2>. QED  BY <1>5, <2>2, <2>3 DEF HandleKeyChallengeRequest, TypeOK
<1>6. CASE HandleKeyChallengeResponse(n, m) /\ UNCHANGED seedVars
  <2>1. BagsOf(net', Message)
    BY <1>2, <1>6, Zenon DEF HandleKeyChallengeResponse
  <2>. QED  BY <1>6, <2>1 DEF HandleKeyChallengeResponse, TypeOK
<1>7. CASE HandleKeyResponse(n, m) /\ UNCHANGED seedVars
  <2>1. BagsOf(net', Message)
    BY <1>2, <1>7 DEF HandleKeyResponse
  <2>. QED  BY <1>1, <1>7, <2>1, Zenon DEF HandleKeyResponse, TypeOK, Message
<1>8. CASE DropMsg(n, m)
  <2>1. BagsOf(net', Message)
    BY <1>2, <1>8, Zenon DEF DropMsg
  <2>. QED  BY <1>8, <2>1, Zenon DEF DropMsg, TypeOK
<1>9. CASE Panic(n)
  BY <1>9, EndType
<1>. QED  BY <1>3, <1>4, <1>5, <1>6, <1>7, <1>8, <1>9 DEF Loop

LEMMA NextType ==
  ASSUME TypeOK, Lifecycle, Messages, [Next]_vars
  PROVE  TypeOK'
<1>1. CASE Next
  <2>1. PICK n \in Nodes : Step(n) \/ Crash(n) \/ CrashWhileSealing(n)
    BY <1>1, Zenon DEF Next
  <2>. QED
    BY <2>1, ProcessType, EndType, LoopType, SeedType, QueryType, ValidateType
       DEF Step, NotifyMsg, MergeRemoteState
<1>2. CASE UNCHANGED vars
  BY <1>2 DEF vars, TypeOK, BagsOf, procVars, viewVars, boundVars, seedVars, exchangeVars
<1>. QED  BY <1>1, <1>2
=============================================================================
