------------------------------- MODULE Cluster -------------------------------
(***************************************************************************)
(* A betterkey cluster: the processes of node.go and state.go, composed    *)
(* with seeding, key queries and key validation.                           *)
(***************************************************************************)
EXTENDS Seed, Query, Validate

vars == <<procVars, disk, jobs, net, viewVars, boundVars, seeded, seedVars>>

Others(n) == Seeds \ {n}

InitWith(keyFiles) ==
  /\ status = [n \in Nodes |-> "DOWN"]
  /\ main = [n \in Nodes |-> "start"]
  /\ disk = keyFiles
  /\ sealing = [n \in Nodes |-> NoKey]
  /\ jobs = [n \in Nodes |-> EmptyBag]
  /\ asking = [n \in Nodes |-> {}]
  /\ net = [n \in Nodes |-> EmptyBag]
  /\ booted = {} /\ wasReady = {}
  /\ crashes = 0 /\ restarts = 0 /\ failures = 0
  /\ seeded = {}
  /\ generatedKey = [n \in Nodes |-> NoKey]
  /\ exchanged = [n \in Nodes |-> {}]
  /\ sentTo = [n \in Nodes |-> {}]
  /\ receivedFrom = [n \in Nodes |-> {}]
  /\ otherSeedNodes = [n \in Nodes |-> Others(n)]
  /\ otherMembers = [n \in Nodes |-> {}]
  /\ generated = {keyFiles[n] : n \in Nodes} \cap Keys

(* A cluster that starts for the first time.                               *)
Init == InitWith([n \in Nodes |-> NoKey])

(* One whose joiners may have a key file before they first start, as in    *)
(* node_test.go: brought from elsewhere or left by an older cluster of the *)
(* same id (Start panics on a file of another).                            *)
JoinInit ==
  \E files \in [Joiners -> Keys \cup {NoKey}] :
    InitWith([n \in Nodes |-> IF n \in Seeds THEN NoKey ELSE files[n]])
-----------------------------------------------------------------------------
(* Start() and the process.                                                *)

(* NewNode and memberlist.Create; masterKs.Read panics on a torn file.     *)
Start(n) ==
  /\ ~Up(n) /\ disk[n] # Torn
  /\ n \in booted => restarts < MaxRestarts
  /\ restarts' = IF n \in booted THEN restarts + 1 ELSE restarts
  /\ SetStatus(n, "INIT")
  /\ booted' = booted \cup {n}
  /\ UNCHANGED <<main, sealing, asking, disk, jobs, net, crashes, failures,
                 seeded, seedVars>>

(* Mutant: the key file is not looked at.                                  *)
ReadKeyIgnoresFile(n) ==
  /\ Up(n) /\ main[n] = "start"
  /\ main' = [main EXCEPT ![n] = "join"]
  /\ SetStatus(n, "NO_KEY")
  /\ UNCHANGED <<sealing, asking, disk, jobs, net, booted, boundVars, seeded,
                 seedVars>>

(* The three branches of Start() on the key that was read.                 *)
ReadKey(n) ==
  /\ Up(n) /\ main[n] = "start"
  /\ main' = [main EXCEPT ![n] = "join"]
  /\ SetStatus(n, IF ~HasKey(n) THEN "NO_KEY"
                  ELSE IF n \in Seeds THEN "INIT" ELSE "VALIDATING")
  /\ UNCHANGED <<sealing, asking, disk, jobs, net, booted, boundVars, seeded,
                 seedVars>>

(* list.Join reaches one of the configured peers; a seed node with a key   *)
(* is READY at once.                                                       *)
Join(n) ==
  /\ Up(n) /\ main[n] = "join"
  /\ \E p \in Peers[n] : Up(p)
  /\ IF n \in Seeds /\ HasKey(n)
     THEN SetStatus(n, "READY") /\ main' = [main EXCEPT ![n] = "ready"]
     ELSE main' = [main EXCEPT ![n] = "wait"] /\ UNCHANGED <<status, wasReady>>
  /\ UNCHANGED <<sealing, asking, disk, jobs, net, booted, boundVars, seeded,
                 seedVars>>

(* The end of handleSeedKey and handleKeyResponse: masterKs.Write, READY.  *)
Seal(n) ==
  /\ sealing[n] # NoKey
  /\ disk' = [disk EXCEPT ![n] = sealing[n]]
  /\ sealing' = [sealing EXCEPT ![n] = NoKey]
  /\ SetStatus(n, "READY")
  /\ seeded' = IF status[n] = "SEEDING" THEN seeded \cup {n} ELSE seeded
  /\ UNCHANGED <<main, asking, jobs, net, booted, boundVars, seedVars>>

(* The end of a process: all but the key file is gone.                     *)
Die(n) ==
  /\ status' = [status EXCEPT ![n] = "DOWN"]
  /\ main' = [main EXCEPT ![n] = "start"]
  /\ sealing' = [sealing EXCEPT ![n] = NoKey]
  /\ jobs' = [jobs EXCEPT ![n] = EmptyBag]
  /\ asking' = [asking EXCEPT ![n] = {}]
  /\ net' = [net EXCEPT ![n] = EmptyBag]
  /\ generatedKey' = [generatedKey EXCEPT ![n] = NoKey]
  /\ exchanged' = [exchanged EXCEPT ![n] = {}]
  /\ sentTo' = [sentTo EXCEPT ![n] = {}]
  /\ receivedFrom' = [receivedFrom EXCEPT ![n] = {}]
  /\ otherSeedNodes' = [otherSeedNodes EXCEPT ![n] = Others(n)]
  /\ otherMembers' = [otherMembers EXCEPT ![n] = {}]
  /\ UNCHANGED <<viewVars, restarts, failures, seeded, generated>>

Crash(n) ==
  /\ Up(n) /\ n \in Crashing /\ crashes < MaxCrashes
  /\ crashes' = crashes + 1
  /\ Die(n)
  /\ UNCHANGED disk

(* os.WriteFile truncates the file before it writes.                       *)
CrashWhileSealing(n) ==
  /\ sealing[n] # NoKey /\ n \in Crashing /\ crashes < MaxCrashes
  /\ crashes' = crashes + 1
  /\ Die(n)
  /\ disk' = [disk EXCEPT ![n] = Torn]

Panic(n) == Die(n) /\ UNCHANGED <<disk, crashes>>
-----------------------------------------------------------------------------
(* Messages and remote state.                                              *)

(* NotifyMsg and MergeRemoteState panic on a node of another cluster.      *)
NotifyMsg(n) ==
  /\ \E m \in BagToSet(net[n]) : ClusterOf[m.from] # ClusterOf[n]
  /\ Panic(n)

MergeRemoteState(n, p) ==
  /\ Up(n) /\ Up(p) /\ ClusterOf[p] # ClusterOf[n]
  /\ Panic(n)

(* loop(): what is handled in which state; everything else is dropped.     *)
Handled == {<<"SEEDING", "KEYINIT">>, <<"READY", "KEYQUERY">>,
            <<"READY", "CHALLENGE">>, <<"VALIDATING", "CHALLENGE_RESP">>,
            <<"QUERY_KEY", "KEYQUERY_RESP">>}

(* Mutant: no look at the cluster id.                                      *)
ReceivedFromAnyCluster(n, m, s, t) ==
  sealing[n] = NoKey /\ status[n] = s /\ m.type = t

Received(n, m, s, t) ==
  /\ sealing[n] = NoKey
  /\ ClusterOf[m.from] = ClusterOf[n]
  /\ status[n] = s /\ m.type = t

DropMsg(n, m) ==
  /\ sealing[n] = NoKey
  /\ ClusterOf[m.from] = ClusterOf[n]
  /\ <<status[n], m.type>> \notin Handled
  /\ Consume(n, m)
  /\ UNCHANGED <<procVars, disk, jobs, viewVars, boundVars, seeded, seedVars>>

Loop(n, m) ==
  \/ Received(n, m, "SEEDING", "KEYINIT") /\ KeyReceived(n, m)
  \/ Received(n, m, "SEEDING", "KEYINIT") /\ SeedKeyRejected(n, m) /\ Panic(n)
  \/ /\ Received(n, m, "READY", "KEYQUERY") /\ HandleQueryKey(n, m)
     /\ UNCHANGED seedVars
  \/ /\ Received(n, m, "READY", "CHALLENGE")
     /\ HandleKeyChallengeRequest(n, m) /\ UNCHANGED seedVars
  \/ /\ Received(n, m, "VALIDATING", "CHALLENGE_RESP")
     /\ HandleKeyChallengeResponse(n, m) /\ UNCHANGED seedVars
  \/ /\ Received(n, m, "VALIDATING", "CHALLENGE_RESP")
     /\ ChallengeRejected(n, m) /\ Panic(n)
  \/ /\ Received(n, m, "QUERY_KEY", "KEYQUERY_RESP")
     /\ HandleKeyResponse(n, m) /\ UNCHANGED seedVars
  \/ DropMsg(n, m)
-----------------------------------------------------------------------------
SeedStep(n) ==
  \/ \E members \in SUBSET (booted \ {n}) :
       StartSeedAsMaster(n, members) \/ StartSeedAsSlave(n, members)
  \/ \E j \in BagToSet(jobs[n]) :
       \/ SendSeedKey(n, j.to, j.key)
       \/ \E delivered \in SUBSET otherSeedNodes[n] :
            Forward(n, j.key, delivered)
       \/ CheckCleanup(n, j.key)

QueryStep(n) ==
  /\ \/ \E providers \in SUBSET wasReady : QueryKey(n, providers)
     \/ \E m \in Nodes : SendQuery(n, m)
     \/ AskNobody(n)
     \/ \E j \in BagToSet(jobs[n]) : SendKeyReply(n, j.to, j.key)
  /\ UNCHANGED seedVars

ValidateStep(n) ==
  /\ \/ \E providers \in SUBSET wasReady : FindValidators(n, providers)
     \/ \E m \in Nodes : SendChallenge(n, m) \/ PassOver(n, m)
     \/ \E j \in BagToSet(jobs[n]) : SendChallengeReply(n, j.to, j.key)
  /\ UNCHANGED seedVars

Step(n) ==
  \/ Start(n) \/ ReadKey(n) \/ Join(n) \/ Seal(n)
  \/ NotifyMsg(n)
  \/ \E p \in Nodes : MergeRemoteState(n, p)
  \/ \E m \in BagToSet(net[n]) : Loop(n, m)
  \/ SeedStep(n) \/ QueryStep(n) \/ ValidateStep(n)

Next == \E n \in Nodes : Step(n) \/ Crash(n) \/ CrashWhileSealing(n)

Spec == Init /\ [][Next]_vars
JoinSpec == JoinInit /\ [][Next]_vars
-----------------------------------------------------------------------------
BagsOf(f, S) ==
  /\ f = [n \in Nodes |-> f[n]]
  /\ \A n \in Nodes : IsABag(f[n]) /\ BagToSet(f[n]) \subseteq S

TypeOK ==
  /\ status \in [Nodes -> Status] /\ main \in [Nodes -> Main]
  /\ disk \in [Nodes -> Keys \cup {NoKey, Torn}]
  /\ sealing \in [Nodes -> Keys \cup {NoKey}]
  /\ BagsOf(jobs, Job) /\ BagsOf(net, Message)
  /\ asking \in [Nodes -> SUBSET Nodes]
  /\ booted \subseteq Nodes /\ wasReady \subseteq Nodes
  /\ seeded \subseteq Nodes
  /\ crashes \in 0 .. MaxCrashes /\ restarts \in 0 .. MaxRestarts
  /\ failures \in 0 .. MaxFailures
  /\ generatedKey \in [Nodes -> Keys \cup {NoKey, DummyKey}]
  /\ exchanged \in [Nodes -> SUBSET Seeds]
  /\ sentTo \in [Nodes -> SUBSET Seeds]
  /\ receivedFrom \in [Nodes -> SUBSET Seeds]
  /\ otherSeedNodes \in [Nodes -> SUBSET Seeds]
  /\ otherMembers \in [Nodes -> SUBSET Nodes]
  /\ generated \subseteq Keys

(* No two nodes ever hold different master keys on disk, whatever crashes, *)
(* restarts, stale member lists and delayed KEYINIT and KEYQUERY_RESP      *)
(* messages do to handleSeedKey and handleKeyResponse.                     *)
KeyAgreement ==
  \A m, n \in Nodes : HasKey(m) /\ HasKey(n) => disk[m] = disk[n]

(* The same for what the nodes serve, when some nodes were given key files *)
(* before the cluster started: validatingExistingKey keeps a node with     *)
(* another key from becoming READY.                                        *)
ReadyAgreement ==
  \A m, n \in Nodes : status[m] = "READY" /\ status[n] = "READY"
                         => disk[m] = disk[n]

(* masterKs.Write never replaces a key: no late KEYINIT or KEYQUERY_RESP   *)
(* reaches a handler that would overwrite the file.                        *)
SealedKeyStable ==
  [][\A n \in Nodes : HasKey(n) => disk'[n] = disk[n]]_vars

(* While the first seed node does not crash, and all nodes are of one      *)
(* cluster, a process ends only by a crash: no duplicate or late KEYINIT   *)
(* meets a panic of keyReceived, in particular none meets the              *)
(* otherSeedNodes that checkCleanup has emptied.                           *)
NoPanic == [][\A n \in Nodes : Up(n) => Up(n)' \/ crashes' # crashes]_vars

(* checkCleanup wipes the exchange only of a node that has the key from    *)
(* every other seed node, although it does so whenever the two sizes it    *)
(* compares differ.                                                        *)
CleanupAfterCompletion ==
  \A n \in Nodes : otherSeedNodes[n] # Others(n)
                      => status[n] = "READY" \/ sealing[n] # NoKey

(* A node of another cluster never obtains this cluster's key: NotifyMsg   *)
(* and MergeRemoteState stop it first.                                     *)
ClusterIsolation ==
  \A m, n \in Nodes : HasKey(m) /\ ClusterOf[m] # ClusterOf[n] => ~HasKey(n)
-----------------------------------------------------------------------------
(* Every goroutine is scheduled, every connection is served, gossip        *)
(* arrives and a stopped process is restarted by its supervisor.           *)
Fairness == \A n \in Nodes : WF_vars(Step(n))

LiveSpec == Spec /\ Fairness
LiveJoinSpec == JoinSpec /\ Fairness

AllSeedsReady == \A s \in Seeds : status[s] = "READY"

(* Every seed node is SEEDING with the others in its member list, and the  *)
(* first has not sent the key to any of them yet.                          *)
SeedingAligned ==
  \A s \in Seeds :
    /\ status[s] = "SEEDING" /\ Others(s) \subseteq otherMembers[s]
    /\ s # Master => generatedKey[s] = DummyKey
    /\ s # Master => \E j \in BagToSet(jobs[Master]) :
                        j.kind = "SEED_KEY" /\ j.to = s

(* An exchange that begins like that makes every seed node READY: the      *)
(* first key and the forwarding suffice, though no send is ever repeated.  *)
SeedingCompletes == SeedingAligned ~> AllSeedsReady

(* A node that runs while the seed nodes are READY gets READY itself, by   *)
(* query or by validation, unless it stops first.                          *)
JoinerServed ==
  \A j \in Joiners :
    (AllSeedsReady /\ Up(j)) ~> (status[j] = "READY" \/ ~Up(j))

Owes(n, p) == \E j \in BagToSet(jobs[n]) :
                 j.kind \in {"CHALLENGE_REPLY", "STUCK_REPLY"} /\ j.to = p

(* The goroutine of handleKeyChallengeRequest retries until the answer is  *)
(* sent.                                                                   *)
ChallengeAnswered ==
  \A n, p \in Nodes : Owes(n, p) ~> (~Owes(n, p) \/ ~Up(p))
-----------------------------------------------------------------------------
(* What the cluster promises about key files.                              *)
KeyFile == [n \in Nodes |-> IF HasKey(n) THEN disk[n] ELSE NoKey]

MK == INSTANCE MasterKey WITH file <- KeyFile

(* The cluster implements MasterKey: one node seals a key, every other     *)
(* file is a copy of one that was there, and no file changes.              *)
ImplementsMasterKey == MK!Spec

(* What a node promises to the process around it.                          *)
Life(n) == INSTANCE NodeLife WITH status <- status[n], key <- HasKey(n)

(* Each node goes through its states as NodeLife says, though Start(), its *)
(* query and challenge goroutines and loop() all set the state: READY is   *)
(* set only on a node that has the key and left only by the end of the     *)
(* process, and a key file appears only while SEEDING or QUERY_KEY.        *)
(* (This is \A n \in Nodes : Life(n)!Spec in the form TLC reads.)          *)
ImplementsNodeLife ==
  /\ \A n \in Nodes : Life(n)!Init
  /\ [][\A n \in Nodes : Life(n)!Step]_vars
=============================================================================
