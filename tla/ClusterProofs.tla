---------------------------- MODULE ClusterProofs ---------------------------
(***************************************************************************)
(* Type correctness and key agreement of the cluster; and that it          *)
(* implements MasterKey, and each of its nodes NodeLife: for every number  *)
(* of nodes, keys, crashes, restarts and failed sends.                     *)
(***************************************************************************)
EXTENDS SeedProofs

(* Sealing turns a key in hand into a key file.                            *)
LEMMA SealInv ==
  ASSUME Inv, TypeOK', NEW n \in Nodes, Seal(n)
  PROVE  AgreementInv'
<1>. USE DEF Inv, AgreementInv
<1>1. /\ ~HasKey(n) /\ n \notin seeded /\ status[n] \in {"SEEDING", "QUERY_KEY"}
      /\ sealing[n] \in Keys
  BY DEF Seal, Lifecycle, TypeOK
<1>2. \A x \in Nodes : x # n => /\ status'[x] = status[x] /\ disk'[x] = disk[x]
                                /\ sealing'[x] = sealing[x]
                                /\ x \in seeded' <=> x \in seeded
  BY DEF Seal, SetStatus, TypeOK
<1>3. /\ status'[n] = "READY" /\ disk'[n] = sealing[n] /\ sealing'[n] = NoKey
      /\ n \in seeded' <=> status[n] = "SEEDING"
      /\ seeded \subseteq seeded' /\ seeded' \subseteq Nodes
  BY <1>1 DEF Seal, SetStatus, TypeOK
<1>4. UNCHANGED <<main, jobs, net, generatedKey, exchanged, receivedFrom, otherSeedNodes>>
  BY DEF Seal, seedVars, exchangeVars
<1>5. \A x \in Nodes : \A i \in Keys : Committed(x, i)' <=> Committed(x, i)
  BY <1>1, <1>2, <1>3 DEF Committed
<1>6. \A x \in Nodes : \A i \in Keys : Holds(x, i)' <=> Holds(x, i)
  BY <1>4, <1>5 DEF Holds
<1>7. Lifecycle'
  BY <1>1, <1>2, <1>3, <1>4 DEF Lifecycle, HasKey
<1>8. Exchange'
  BY <1>4, <1>5 DEF Exchange, Others
<1>9. Goroutines'
  <2>1. \A x \in Nodes : \A j \in BagToSet(jobs[x]) : j.key \in Keys
    BY DEF TypeOK, BagsOf, Job
  <2>. QED  BY <1>4, <1>5, <1>6, <2>1 DEF Goroutines
<1>10. Messages'
  BY <1>4 DEF Messages
<1>11. Provenance'
  <2>1. \A s \in seeded : s \in seeded' /\ disk'[s] = disk[s]
    BY <1>1, <1>2, <1>3, Zenon DEF TypeOK
  <2>2. \A i : Sealed(i) => Sealed(i)'
    BY <2>1 DEF Sealed
  <2>3. Sealed(disk[n])'
    <3>1. CASE status[n] = "SEEDING"
      BY <1>3, <3>1 DEF Sealed
    <3>2. CASE status[n] = "QUERY_KEY"
      <4>1. PICK s \in seeded : disk[s] = sealing[n]
        BY <1>1, <3>2, KeysAssumption DEF Provenance, Sealed
      <4>. QED  BY <1>3, <2>1, <4>1 DEF Sealed
    <3>. QED  BY <1>1, <3>1, <3>2
  <2>. QED  BY <1>2, <1>3, <1>4, <2>2, <2>3 DEF Provenance, HasKey
<1>12. OneKey'
  BY <1>6 DEF OneKey, Nodes
<1>13. NoCrossing'
  <2>1. \A u, v \in Seeds : \A i \in Keys : Heard(u, v, i)' => Heard(u, v, i)
    BY <1>4, <1>5 DEF Heard, Nodes
  <2>. QED  BY <1>6, <2>1, NothingHeard DEF Nodes
<1>. QED  BY <1>7, <1>8, <1>9, <1>10, <1>11, <1>12, <1>13

(* A process that ends takes what it heard with it, unless it has sealed   *)
(* it; so the one who heard of it still holds what it sent.                *)
LEMMA DieInv ==
  ASSUME Inv, TypeOK', NEW n \in Nodes, Crash(n) \/ CrashWhileSealing(n) \/ Panic(n)
  PROVE  AgreementInv'
<1>. USE DEF Inv, AgreementInv
<1>1. Die(n)
  BY Zenon DEF Crash, CrashWhileSealing, Panic
<1>2. /\ \A x \in Nodes : HasKey(x) => disk'[x] = disk[x]
      /\ \A x \in Nodes : disk'[x] \in Keys => disk'[x] = disk[x]
  BY KeysAssumption DEF Crash, CrashWhileSealing, Panic, TypeOK, Lifecycle, HasKey
<1>3. \A x \in Nodes : x # n => /\ status'[x] = status[x] /\ main'[x] = main[x]
                                /\ sealing'[x] = sealing[x] /\ jobs'[x] = jobs[x]
                                /\ net'[x] = net[x] /\ generatedKey'[x] = generatedKey[x]
                                /\ exchanged'[x] = exchanged[x]
                                /\ receivedFrom'[x] = receivedFrom[x]
                                /\ otherSeedNodes'[x] = otherSeedNodes[x]
  BY <1>1, Zenon DEF Die, TypeOK, BagsOf
<1>4. /\ status'[n] = "DOWN" /\ main'[n] = "start" /\ sealing'[n] = NoKey
      /\ generatedKey'[n] = NoKey /\ exchanged'[n] = {} /\ receivedFrom'[n] = {}
      /\ otherSeedNodes'[n] = Others(n) /\ seeded' = seeded
  BY <1>1 DEF Die, TypeOK
<1>5. BagToSet(jobs'[n]) = {} /\ BagToSet(net'[n]) = {}
  BY <1>1, EmptyBagIsBag DEF Die, TypeOK, BagsOf
<1>6. \A x \in seeded : x \in Nodes /\ HasKey(x) /\ disk'[x] = disk[x]
  BY <1>2 DEF Lifecycle, TypeOK
<1>7. \A x \in Nodes : \A i \in Keys :
         Committed(x, i)' <=> (x \in seeded /\ disk[x] = i) \/ (x # n /\ Committed(x, i))
  BY <1>3, <1>4, <1>6 DEF Committed
<1>8. \A x \in Nodes \ {n} : \A i \in Keys : /\ Holds(x, i)' <=> Holds(x, i)
                                             /\ Committed(x, i)' <=> Committed(x, i)
  BY <1>3, <1>7, Zenon DEF Holds, Committed
<1>9. \A i \in Keys : Holds(n, i)' => n \in seeded /\ disk[n] = i
  BY <1>4, <1>7, KeysAssumption DEF Holds
<1>10. Lifecycle'
  <2>1. \A x \in Nodes : HasKey(x)' <=> HasKey(x)
    BY <1>2 DEF HasKey
  <2>. QED  BY <1>3, <1>4, <2>1 DEF Lifecycle
<1>11. Exchange'
  <2>1. \A x \in Nodes : x # n => Others(x)' = Others(x)
    BY Zenon DEF Others
  <2>2. \A x \in Nodes : x # n /\ receivedFrom[x] # {} => generatedKey[x] \in Keys
    BY DEF Exchange
  <2>. QED  BY <1>3, <1>4, <1>8, <2>1, <2>2 DEF Exchange, Others
<1>12. Goroutines'
  <2>1. \A x \in Nodes : \A j \in BagToSet(jobs[x]) : j.key \in Keys
    BY Zenon DEF TypeOK, BagsOf, Job
  <2>. QED  BY <1>3, <1>5, <1>8, <2>1 DEF Goroutines
<1>13. Messages'
  BY <1>3, <1>5 DEF Messages
<1>14. Provenance'
  <2>1. \A i : Sealed(i)' <=> Sealed(i)
    BY <1>4, <1>6, Zenon DEF Sealed
  <2>. QED  BY <1>2, <1>3, <1>4, <1>5, <2>1, Zenon DEF Provenance, HasKey
<1>15. OneKey'
  BY <1>8, <1>9 DEF OneKey, Nodes
<1>16. NoCrossing'
  <2>1. \A x, y \in Seeds : \A k \in Keys :
           Heard(x, y, k)' => Heard(x, y, k) /\ (x = n => Committed(n, k) /\ Committed(n, k)')
    BY <1>3, <1>4, <1>5, <1>7, <1>8 DEF Heard, BagIn, Nodes, Committed
  <2>. SUFFICES ASSUME NEW x \in Seeds, NEW y \in Seeds, NEW k \in Keys, NEW l \in Keys,
                       x # y, k # l, Heard(x, y, k)', Heard(y, x, l)'
                PROVE  Holds(y, k)' \/ Holds(x, l)'
    BY Zenon DEF NoCrossing
  <2>2. Holds(y, k) \/ Holds(x, l)
    BY <2>1 DEF NoCrossing
  <2>3. CASE x = n
    <3>1. ~Holds(x, l)
      BY <2>1, <2>3, Zenon DEF OneKey, Holds
    <3>. QED  BY <1>8, <2>2, <2>3, <3>1 DEF Nodes
  <2>4. CASE y = n
    <3>1. ~Holds(y, k)
      BY <2>1, <2>4, Zenon DEF OneKey, Holds
    <3>. QED  BY <1>8, <2>2, <2>4, <3>1 DEF Nodes
  <2>5. CASE x # n /\ y # n
    BY <1>8, <2>2, <2>5 DEF Nodes
  <2>. QED  BY <2>3, <2>4, <2>5
<1>. QED  BY <1>10, <1>11, <1>12, <1>13, <1>14, <1>15, <1>16
-----------------------------------------------------------------------------
LEMMA InitInv == JoinInit => Inv
<1>. SUFFICES ASSUME NEW files \in [Joiners -> Keys \cup {NoKey}],
                     InitWith([n \in Nodes |-> IF n \in Seeds THEN NoKey ELSE files[n]])
              PROVE  AgreementInv
  BY InitType DEF JoinInit, Inv
<1>1. \A n \in Nodes : /\ status[n] = "DOWN" /\ main[n] = "start"
                       /\ n \in Seeds => ~HasKey(n)
                       /\ sealing[n] = NoKey /\ generatedKey[n] = NoKey
                       /\ exchanged[n] = {} /\ receivedFrom[n] = {}
                       /\ otherSeedNodes[n] = Others(n)
                       /\ BagToSet(jobs[n]) = {} /\ BagToSet(net[n]) = {}
  BY EmptyBagIsBag, KeysAssumption DEF InitWith, HasKey
<1>2. seeded = {}
  BY Zenon DEF InitWith
<1>3. Lifecycle /\ Exchange
  BY <1>1, <1>2, KeysAssumption DEF Lifecycle, Exchange
<1>4. Goroutines /\ Messages /\ Provenance
  BY <1>1, Zenon DEF Goroutines, Messages, Provenance
<1>5. OneKey /\ NoCrossing
  BY <1>1, <1>2, KeysAssumption DEF OneKey, NoCrossing, Heard, Holds, Committed, BagIn, Nodes
<1>. QED  BY <1>3, <1>4, <1>5 DEF AgreementInv

LEMMA NextInv ==
  ASSUME Inv, [Next]_vars
  PROVE  Inv'
<1>1. TypeOK'
  BY NextType DEF Inv, AgreementInv
<1>2. ASSUME NEW n \in Nodes, Step(n) \/ Crash(n) \/ CrashWhileSealing(n)
      PROVE  AgreementInv'
  <2>1. CASE Start(n) \/ ReadKey(n) \/ Join(n)
    BY <1>1, <2>1, ProcessUntouched, Zenon
  <2>2. CASE Seal(n)
    BY <1>1, <2>2, SealInv
  <2>3. CASE Crash(n) \/ CrashWhileSealing(n) \/ Panic(n)
    BY <1>1, <2>3, DieInv
  <2>4. ASSUME NEW m \in BagToSet(net[n]), Loop(n, m)
        PROVE  AgreementInv'
    <3>1. CASE Received(n, m, "SEEDING", "KEYINIT") /\ KeyReceived(n, m)
      BY <1>1, <3>1, KeyReceivedInv, Zenon
    <3>2. CASE Panic(n)
      BY <2>3, <3>2
    <3>. QED  BY <1>1, <2>4, <3>1, <3>2, LoopUntouched, Zenon DEF Loop, DropMsg
  <2>5. CASE SeedStep(n)
    BY <1>1, <2>5, StartSeedInv, SendSeedKeyUntouched, ForwardUntouched, CheckCleanupInv
       DEF SeedStep
  <2>6. CASE QueryStep(n) \/ ValidateStep(n)
    BY <1>1, <2>6, QueryUntouched, ValidateUntouched, Zenon
  <2>7. NotifyMsg(n) \/ (\E p \in Nodes : MergeRemoteState(n, p)) => Panic(n)
    BY DEF NotifyMsg, MergeRemoteState
  <2>. QED  BY <1>2, <2>1, <2>2, <2>3, <2>4, <2>5, <2>6, <2>7 DEF Step
<1>3. CASE UNCHANGED vars
  <2>1. Lifecycle' /\ KeysUntouched
    BY <1>3, Zenon DEF vars, procVars, seedVars, exchangeVars, Inv, AgreementInv, Lifecycle, HasKey,
                KeysUntouched, Committed, Provenance
  <2>2. AgreementInv'
    BY <1>1, <2>1, Untouched
  <2>. QED  BY <1>1, <2>2 DEF Inv
<1>. QED  BY <1>1, <1>2, <1>3 DEF Inv, Next

(* The invariant of every reachable state.                                 *)
THEOREM Invariance == JoinSpec => []Inv
BY InitInv, NextInv, PTL DEF JoinSpec

(* Every variable of every node keeps its type, whatever crashes, restarts *)
(* and late messages do.                                                   *)
THEOREM TypeCorrect == JoinSpec => []TypeOK
BY Invariance, PTL DEF Inv

(* What the exchange, its messages and its goroutines keep to.             *)
THEOREM Exchanges == JoinSpec => []AgreementInv
BY Invariance, PTL DEF Inv
-----------------------------------------------------------------------------
(* A step of n leaves the state and the key file of the other nodes alone, *)
(* takes n one step of NodeLife further and never replaces its key; what   *)
(* was sealed by seeding stays so.                                         *)
LifeOf(n) ==
  /\ \A x \in Nodes \ {n} : status'[x] = status[x] /\ disk'[x] = disk[x]
  /\ Life(n)!Step
  /\ HasKey(n) => disk'[n] = disk[n]
  /\ seeded \subseteq seeded'

LEMMA Untroubled ==
  ASSUME NEW n \in Nodes, UNCHANGED <<status, disk, seeded>>
  PROVE  LifeOf(n)
BY DEF LifeOf, Life!Step, HasKey

LEMMA StatusStep ==
  ASSUME TypeOK, NEW n \in Nodes, NEW s \in Status \ {"DOWN"}, SetStatus(n, s),
         UNCHANGED <<disk, seeded>>,
         status[n] = s \/ (status[n] = "DOWN" /\ s = "INIT") \/ <<status[n], s>> \in Life(n)!Changes
  PROVE  LifeOf(n)
<1>1. /\ \A x \in Nodes \ {n} : status'[x] = status[x] /\ disk'[x] = disk[x]
      /\ status'[n] = s /\ (HasKey(n)' <=> HasKey(n)) /\ disk'[n] = disk[n]
  BY DEF SetStatus, TypeOK, HasKey
<1>2. Life(n)!Step
  <2>1. CASE status[n] = s
    BY <1>1, <2>1 DEF Life!Step, HasKey
  <2>2. CASE status[n] = "DOWN" /\ s = "INIT"
    BY <1>1, <2>2 DEF Life!Step, Life!Next, Life!Start, HasKey
  <2>3. CASE <<status[n], s>> \in Life(n)!Changes
    <3>1. s \in {"NO_KEY", "SEEDING", "QUERY_KEY", "VALIDATING", "READY"}
      BY <2>3 DEF Life!Changes
    <3>. QED  BY <1>1, <2>3, <3>1 DEF Life!Step, Life!Next, Life!ChangeStatus, HasKey
  <2>. QED  BY <2>1, <2>2, <2>3
<1>. QED  BY <1>1, <1>2 DEF LifeOf

LEMMA SealLife ==
  ASSUME Inv, NEW n \in Nodes, Seal(n)
  PROVE  LifeOf(n) /\ ~HasKey(n) /\ sealing[n] \in Keys /\ disk'[n] = sealing[n]
<1>1. ~HasKey(n) /\ status[n] \in {"SEEDING", "QUERY_KEY"} /\ sealing[n] \in Keys
  BY DEF Seal, Inv, AgreementInv, Lifecycle, TypeOK
<1>2. /\ \A x \in Nodes \ {n} : status'[x] = status[x] /\ disk'[x] = disk[x]
      /\ status'[n] = "READY" /\ disk'[n] = sealing[n] /\ seeded \subseteq seeded'
  BY DEF Seal, SetStatus, Inv, TypeOK
<1>3. HasKey(n)' = TRUE /\ HasKey(n) = FALSE
  BY <1>1, <1>2 DEF HasKey
<1>4. Life(n)!Step
  BY <1>1, <1>2, <1>3, Zenon DEF Life!Step, Life!Next, Life!WriteKey
<1>. QED  BY <1>1, <1>2, <1>4 DEF LifeOf

LEMMA DieLife ==
  ASSUME Inv, NEW n \in Nodes, Crash(n) \/ CrashWhileSealing(n) \/ Panic(n)
  PROVE  LifeOf(n) /\ (HasKey(n)' <=> HasKey(n))
<1>1. /\ \A x \in Nodes \ {n} : status'[x] = status[x] /\ disk'[x] = disk[x]
      /\ status'[n] = "DOWN" /\ seeded' = seeded
  BY Zenon DEF Crash, CrashWhileSealing, Panic, Die, Inv, TypeOK
<1>2. (HasKey(n)' <=> HasKey(n)) /\ (HasKey(n) => disk'[n] = disk[n])
  BY KeysAssumption
     DEF Crash, CrashWhileSealing, Panic, Inv, AgreementInv, TypeOK, Lifecycle, HasKey
<1>3. Life(n)!Step
  BY <1>1, <1>2 DEF Life!Step, Life!Next, Life!End, HasKey
<1>. QED  BY <1>1, <1>2, <1>3, Zenon DEF LifeOf

LEMMA ProcessLife ==
  ASSUME Inv, NEW n \in Nodes, Start(n) \/ ReadKey(n) \/ Join(n)
  PROVE  LifeOf(n) /\ UNCHANGED disk
<1>. USE DEF Inv, AgreementInv
<1>1. CASE Start(n)
  BY <1>1, StatusStep, Zenon DEF Start, Up, Status
<1>2. CASE ReadKey(n)
  <2>. DEFINE s == IF ~HasKey(n) THEN "NO_KEY" ELSE IF n \in Seeds THEN "INIT" ELSE "VALIDATING"
  <2>1. status[n] = "INIT"
    BY <1>2, Zenon DEF ReadKey, Up, Lifecycle
  <2>2. status[n] = s \/ <<status[n], s>> \in Life(n)!Changes
    BY <2>1 DEF Life!Changes
  <2>3. SetStatus(n, s) /\ UNCHANGED <<disk, seeded>> /\ s \in Status \ {"DOWN"}
    BY <1>2 DEF ReadKey, Status
  <2>. HIDE DEF s
  <2>. QED  BY <2>2, <2>3, StatusStep
<1>3. CASE Join(n)
  <2>1. CASE n \in Seeds /\ HasKey(n)
    <3>1. status[n] \in {"INIT", "VALIDATING", "READY"}
      BY <1>3, <2>1, Zenon DEF Join, Up, Lifecycle, TypeOK, Status
    <3>2. status[n] = "READY" \/ <<status[n], "READY">> \in Life(n)!Changes
      BY <2>1, <3>1 DEF Life!Changes
    <3>. QED  BY <1>3, <2>1, <3>2, StatusStep, Zenon DEF Join, Status
  <2>2. CASE ~(n \in Seeds /\ HasKey(n))
    BY <1>3, <2>2, Untroubled, Zenon DEF Join
  <2>. QED  BY <2>1, <2>2
<1>. QED  BY <1>1, <1>2, <1>3

LEMMA SeedLife ==
  ASSUME Inv, NEW n \in Nodes, SeedStep(n)
  PROVE  LifeOf(n) /\ UNCHANGED disk
<1>1. ASSUME NEW members, BeginSeed(n, members)
      PROVE  LifeOf(n) /\ UNCHANGED disk
  <2>1. <<status[n], "SEEDING">> \in Life(n)!Changes
    BY <1>1, Zenon DEF BeginSeed, Inv, AgreementInv, Lifecycle, Life!Changes
  <2>. QED  BY <1>1, <2>1, StatusStep DEF BeginSeed, Status, Inv
<1>2. ASSUME NEW p, NEW k, SendSeedKey(n, p, k) PROVE LifeOf(n) /\ UNCHANGED disk
  BY <1>2, Untroubled DEF SendSeedKey, procVars
<1>3. ASSUME NEW k, NEW d, Forward(n, k, d) PROVE LifeOf(n) /\ UNCHANGED disk
  BY <1>3, Untroubled, Zenon DEF Forward, procVars
<1>4. ASSUME NEW k, CheckCleanup(n, k) PROVE LifeOf(n) /\ UNCHANGED disk
  BY <1>4, Untroubled DEF CheckCleanup, procVars
<1>. QED  BY <1>1, <1>2, <1>3, <1>4, Zenon DEF SeedStep, StartSeedAsMaster, StartSeedAsSlave

LEMMA QueryLife ==
  ASSUME Inv, NEW n \in Nodes, QueryStep(n) \/ ValidateStep(n)
  PROVE  LifeOf(n) /\ UNCHANGED disk
<1>1. ASSUME NEW P, QueryKey(n, P) PROVE LifeOf(n) /\ UNCHANGED disk
  <2>1. <<status[n], "QUERY_KEY">> \in Life(n)!Changes
    BY <1>1, Zenon DEF QueryKey, Inv, AgreementInv, Lifecycle, Life!Changes
  <2>. QED  BY <1>1, <2>1, StatusStep, Zenon DEF QueryKey, Status, Inv
<1>2. CASE UNCHANGED <<status, disk, seeded>>
  BY <1>2, Untroubled
<1>3. ASSUME NEW m, SendQuery(n, m) \/ SendChallenge(n, m) \/ PassOver(n, m)
      PROVE  UNCHANGED <<status, disk, seeded>>
  BY <1>3, Zenon DEF SendQuery, SendChallenge, PassOver
<1>4. ASSUME NEW p, NEW k, SendKeyReply(n, p, k) \/ SendChallengeReply(n, p, k)
      PROVE  UNCHANGED <<status, disk, seeded>>
  BY <1>4 DEF SendKeyReply, SendChallengeReply, procVars
<1>5. ASSUME NEW P, FindValidators(n, P) PROVE UNCHANGED <<status, disk, seeded>>
  BY <1>5 DEF FindValidators
<1>6. AskNobody(n) => UNCHANGED <<status, disk, seeded>>
  BY DEF AskNobody
<1>. QED  BY <1>1, <1>2, <1>3, <1>4, <1>5, <1>6 DEF QueryStep, ValidateStep

LEMMA LoopLife ==
  ASSUME Inv, NEW n \in Nodes, NEW m \in BagToSet(net[n]), Loop(n, m), ~Panic(n)
  PROVE  LifeOf(n) /\ UNCHANGED disk
<1>1. CASE Received(n, m, "VALIDATING", "CHALLENGE_RESP") /\ HandleKeyChallengeResponse(n, m)
  <2>1. <<status[n], "READY">> \in Life(n)!Changes
    BY <1>1, Zenon DEF Received, Inv, AgreementInv, Lifecycle, Life!Changes
  <2>. QED  BY <1>1, <2>1, StatusStep, Zenon DEF HandleKeyChallengeResponse, Status, Inv
<1>2. CASE \/ KeyReceived(n, m) \/ HandleQueryKey(n, m) \/ HandleKeyChallengeRequest(n, m)
           \/ HandleKeyResponse(n, m) \/ DropMsg(n, m)
  BY <1>2, Untroubled, Zenon DEF KeyReceived, HandleQueryKey, HandleKeyChallengeRequest,
                          HandleKeyResponse, DropMsg, procVars
<1>. QED  BY <1>1, <1>2 DEF Loop

(* Every step is one of some node, and is one of its life.                 *)
LEMMA LifeSteps ==
  ASSUME Inv, NEW n \in Nodes, Step(n) \/ Crash(n) \/ CrashWhileSealing(n)
  PROVE  /\ LifeOf(n)
         /\ \/ Seal(n)
            \/ HasKey(n)' <=> HasKey(n)
<1>1. UNCHANGED disk => (HasKey(n)' <=> HasKey(n))
  BY Zenon DEF HasKey
<1>2. CASE Crash(n) \/ CrashWhileSealing(n) \/ Panic(n)
  BY <1>2, DieLife
<1>3. CASE Seal(n)
  BY <1>3, SealLife
<1>4. NotifyMsg(n) \/ (\E p \in Nodes : MergeRemoteState(n, p)) => Panic(n)
  BY DEF NotifyMsg, MergeRemoteState
<1>5. CASE Start(n) \/ ReadKey(n) \/ Join(n)
  BY <1>1, <1>5, ProcessLife
<1>6. CASE SeedStep(n) \/ QueryStep(n) \/ ValidateStep(n)
  BY <1>1, <1>6, SeedLife, QueryLife
<1>7. ASSUME NEW m \in BagToSet(net[n]), Loop(n, m), ~Panic(n)
      PROVE  LifeOf(n) /\ (HasKey(n)' <=> HasKey(n))
  BY <1>1, <1>7, LoopLife, Zenon
<1>. QED  BY <1>2, <1>3, <1>4, <1>5, <1>6, <1>7 DEF Step
-----------------------------------------------------------------------------
(* Every node of every cluster keeps to the life that Bootstrap relies on. *)
THEOREM RefinesNodeLife == JoinSpec => ImplementsNodeLife
<1>1. JoinInit => \A n \in Nodes : Life(n)!Init
  <2>1. JoinInit => \A n \in Nodes : status[n] = "DOWN"
    BY DEF JoinInit, InitWith
  <2>2. \A n \in Nodes : HasKey(n) \in BOOLEAN
    BY SMT DEF HasKey
  <2>. QED  BY <2>1, <2>2, Zenon DEF Life!Init
<1>2. Inv /\ [Next]_vars => [\A n \in Nodes : Life(n)!Step]_vars
  <2>. SUFFICES ASSUME Inv, NEW n \in Nodes, Step(n) \/ Crash(n) \/ CrashWhileSealing(n),
                       NEW x \in Nodes
                PROVE  Life(x)!Step
    BY DEF Next
  <2>1. LifeOf(n)
    BY LifeSteps
  <2>2. CASE x = n
    BY <2>1, <2>2 DEF LifeOf
  <2>3. CASE x # n
    BY <2>1, <2>3 DEF LifeOf, Life!Step, HasKey
  <2>. QED  BY <2>2, <2>3
<1>. QED  BY <1>1, <1>2, Invariance, PTL DEF JoinSpec, ImplementsNodeLife

(* masterKs.Write never replaces a key, in a cluster of any size.          *)
THEOREM KeysStable == JoinSpec => SealedKeyStable
<1>1. Inv /\ [Next]_vars => [\A n \in Nodes : HasKey(n) => disk'[n] = disk[n]]_vars
  <2>. SUFFICES ASSUME Inv, NEW n \in Nodes, Step(n) \/ Crash(n) \/ CrashWhileSealing(n),
                       NEW x \in Nodes, HasKey(x)
                PROVE  disk'[x] = disk[x]
    BY DEF Next
  <2>. QED  BY LifeSteps, Zenon DEF LifeOf
<1>. QED  BY <1>1, Invariance, PTL DEF JoinSpec, SealedKeyStable
-----------------------------------------------------------------------------
(* Two keys that seed nodes have sealed are the same.                      *)
LEMMA SealedAgree ==
  ASSUME Inv, NEW k, NEW l, Sealed(k), Sealed(l)
  PROVE  k = l
<1>. USE DEF Inv, AgreementInv
<1>1. PICK s \in seeded : disk[s] = k
  BY DEF Sealed
<1>2. PICK t \in seeded : disk[t] = l
  BY DEF Sealed
<1>3. s \in Seeds /\ t \in Seeds /\ disk[s] \in Keys /\ disk[t] \in Keys
  BY <1>1, <1>2 DEF Lifecycle, HasKey, TypeOK
<1>4. Committed(s, disk[s]) /\ Committed(t, disk[t])
  BY DEF Committed
<1>5. Heard(s, t, disk[s]) /\ Heard(t, s, disk[t]) /\ Holds(s, disk[s]) /\ Holds(t, disk[t])
  BY <1>4 DEF Heard, Holds
<1>6. disk[s] = disk[t]
  BY <1>3, <1>5 DEF NoCrossing, OneKey
<1>. QED  BY <1>1, <1>2, <1>6

(* The nodes that are READY have the same key, whatever key files the      *)
(* joiners were given and however many times they are restarted with them. *)
THEOREM ReadyAgrees == JoinSpec => []ReadyAgreement
<1>1. Inv => ReadyAgreement
  <2>. SUFFICES ASSUME Inv, NEW m \in Nodes, NEW n \in Nodes,
                       status[m] = "READY", status[n] = "READY"
                PROVE  disk[m] = disk[n]
    BY DEF ReadyAgreement
  <2>1. Sealed(disk[m]) /\ Sealed(disk[n])
    BY DEF Inv, AgreementInv, Lifecycle, Provenance
  <2>. QED  BY <2>1, SealedAgree, Zenon
<1>. QED  BY <1>1, Invariance, PTL

LEMMA FilesStep ==
  ASSUME Inv, Inv', FilesSealed, [Next]_vars
  PROVE  FilesSealed'
<1>1. CASE UNCHANGED vars
  BY <1>1 DEF vars, FilesSealed, Sealed, HasKey
<1>2. ASSUME NEW n \in Nodes, Step(n) \/ Crash(n) \/ CrashWhileSealing(n),
             NEW x \in Nodes, HasKey(x)'
      PROVE  Sealed(disk[x])'
  <2>1. LifeOf(n) /\ (Seal(n) \/ (HasKey(n)' <=> HasKey(n)))
    BY <1>2, LifeSteps
  <2>2. CASE HasKey(x)
    <3>1. PICK s \in seeded : disk[s] = disk[x]
      BY <2>2 DEF FilesSealed, Sealed
    <3>2. s \in Nodes /\ HasKey(s)
      BY Zenon DEF Inv, AgreementInv, TypeOK, Lifecycle
    <3>3. disk'[s] = disk[s] /\ disk'[x] = disk[x]
      BY <2>1, <2>2, <3>2, Zenon DEF LifeOf
    <3>4. s \in seeded'
      BY <2>1, Zenon DEF LifeOf
    <3>. QED  BY <3>1, <3>3, <3>4 DEF Sealed
  <2>3. CASE ~HasKey(x)
    <3>1. x = n /\ Seal(n)
      BY <1>2, <2>1, <2>3, Zenon DEF LifeOf, HasKey
    <3>2. status'[n] = "READY"
      BY <3>1, Zenon DEF Seal, SetStatus, Inv, TypeOK
    <3>. QED  BY <1>2, <3>1, <3>2, Zenon DEF Inv, AgreementInv, Provenance
  <2>. QED  BY <2>2, <2>3
<1>. QED  BY <1>1, <1>2 DEF Next, FilesSealed

(* A cluster that starts without key files is one of those above.          *)
LEMMA SpecInv == Spec => []Inv /\ []FilesSealed
<1>1. Init => JoinInit /\ FilesSealed
  BY FreshStart, KeysAssumption, Zenon DEF Init, InitWith, FilesSealed, HasKey
<1>. QED  BY <1>1, FilesStep, Invariance, PTL DEF Spec, JoinSpec

LEMMA InvAgrees == Inv /\ FilesSealed => KeyAgreement
BY SealedAgree DEF FilesSealed, KeyAgreement

(* No two nodes ever hold different master keys on disk: for every cluster *)
(* size, every member list and every number of crashes and restarts.       *)
THEOREM Agreement == Spec => []KeyAgreement
BY SpecInv, InvAgrees, PTL

(* The cluster implements MasterKey: the first file that is written makes  *)
(* the key, and each other file is a copy of one that was there.           *)
THEOREM RefinesMasterKey == Spec => ImplementsMasterKey
<1>1. Init => MK!Init
  BY KeysAssumption, Zenon DEF Init, InitWith, MK!Init, HasKey, KeyFile
<1>2. Inv /\ KeyAgreement' /\ [Next]_vars => [MK!Next]_KeyFile
  <2>1. ASSUME Inv, KeyAgreement', NEW n \in Nodes, Step(n) \/ Crash(n) \/ CrashWhileSealing(n)
        PROVE  MK!Next \/ UNCHANGED KeyFile
    <3>1. LifeOf(n) /\ (Seal(n) \/ (HasKey(n)' <=> HasKey(n)))
      BY <2>1, LifeSteps
    <3>2. \A x \in Nodes \ {n} : disk'[x] = disk[x] /\ (HasKey(x)' <=> HasKey(x))
      BY <3>1 DEF LifeOf, HasKey
    <3>3. CASE HasKey(n)' <=> HasKey(n)
      BY <3>1, <3>2, <3>3 DEF LifeOf, KeyFile
    <3>4. CASE Seal(n)
      <4>1. ~HasKey(n) /\ sealing[n] \in Keys /\ disk'[n] = sealing[n] /\ HasKey(n)'
        BY <2>1, <3>4, SealLife, Zenon DEF HasKey
      <4>2. KeyFile' = [KeyFile EXCEPT ![n] = sealing[n]]
        BY <3>2, <4>1, Zenon DEF KeyFile
      <4>3. CASE \A x \in Nodes : ~HasKey(x)
        <5>1. \A x \in Nodes : KeyFile[x] = NoKey
          BY <4>3 DEF KeyFile
        <5>. QED  BY <4>1, <4>2, <5>1, Zenon DEF MK!Next, MK!Create
      <4>4. ASSUME NEW x \in Nodes, HasKey(x) PROVE MK!Next
        <5>1. x # n /\ HasKey(x)' /\ disk'[x] = disk[x]
          BY <3>2, <4>1, <4>4
        <5>2. disk[x] = sealing[n]
          BY <2>1, <4>1, <5>1, Zenon DEF KeyAgreement
        <5>3. KeyFile[n] = NoKey /\ KeyFile[x] # NoKey /\ KeyFile[x] = sealing[n]
          BY <4>1, <4>4, <5>2, KeysAssumption, Zenon DEF KeyFile
        <5>. QED  BY <4>2, <5>3, Zenon DEF MK!Next, MK!Copy
      <4>. QED  BY <4>3, <4>4, Zenon
    <3>. QED  BY <3>1, <3>3, <3>4
  <2>2. UNCHANGED vars => UNCHANGED KeyFile
    BY Zenon DEF vars, HasKey, KeyFile
  <2>. QED  BY <2>1, <2>2 DEF Next
<1>. QED  BY <1>1, <1>2, SpecInv, Agreement, PTL DEF Spec, ImplementsMasterKey, MK!Spec
=============================================================================
