---------------------------- MODULE ProcessProofs ----------------------------
(***************************************************************************)
(* The parts of a process around its node, which share no state: the       *)
(* receiving side of the transport, for any number of connections; the     *)
(* start and the end of the process, for any number of signals and         *)
(* messages; the certificate lock, for any number of threads, nodes,       *)
(* crashes and failing commands; and the windows of the heartbeats and     *)
(* the counts of their reports, for any number of peers, heartbeats and    *)
(* runs, any window and any delay of the ticker and the goroutines.        *)
(***************************************************************************)
EXTENDS Transport, Bootstrap, CertLock, Heartbeat, FiniteSetTheorems, TLAPS

LEMMA InitTransport == Init => TransportInv
<1>. SUFFICES ASSUME Init PROVE TransportInv
  OBVIOUS
<1>1. Ingesting = {}
  BY DEF Init, Ingesting
<1>2. IsFiniteSet(Ingesting) /\ Cardinality(Ingesting) = 0
  BY <1>1, FS_EmptySet
<1>. QED  BY <1>1, <1>2 DEF Init, TransportInv, NoneLeaked, QuietAfterShutdown

(* The peers and Shutdown touch neither the listener nor the goroutines.   *)
LEMMA OutsideSteps ==
  ASSUME TransportInv,
         \/ \E c \in Conns : Dial(c) \/ Peer(c)
         \/ SetShutdown \/ CloseListeners \/ Waited
  PROVE  TransportInv'
<1>1. ASSUME NEW c, NEW from, NEW to, PeerGoes(c, from, to)
      PROVE  TransportInv'
  BY <1>1 DEF PeerGoes, TransportInv, NoneLeaked, QuietAfterShutdown, Ingesting, listener
<1>2. CASE \E c \in Conns : Dial(c) \/ Peer(c)
  BY <1>1, <1>2 DEF Dial, Peer, PeerShakes, PeerWrites, PeerBreaks, PeerLeaves
<1>3. CASE SetShutdown \/ CloseListeners
  BY <1>3 DEF SetShutdown, CloseListeners, ShutdownGoes, TransportInv, NoneLeaked,
              QuietAfterShutdown, Ingesting, listener, peers
<1>4. CASE Waited
  <2>1. wg = 0 /\ shut = "waiting" /\ shut' = "returned"
        /\ UNCHANGED <<peers, listener, closed, ingest, wg, packets, streams>>
    BY <1>4 DEF Waited, ShutdownGoes
  <2>2. Cardinality(Ingesting) \in Nat
    BY FS_CardinalityType DEF TransportInv
  <2>3. lpc = "returned" /\ Cardinality(Ingesting) = 0
    BY <2>1, <2>2 DEF TransportInv
  <2>4. Ingesting = {}
    BY <2>3, FS_EmptySet DEF TransportInv
  <2>. QED  BY <2>1, <2>3, <2>4
            DEF TransportInv, NoneLeaked, QuietAfterShutdown, Ingesting, listener, peers
<1>. QED  BY <1>2, <1>3, <1>4

(* The steps of NewNetTransport and tcpListen that start no goroutine.     *)
LEMMA ListenSteps ==
  ASSUME TransportInv,
         \/ NewNetTransport \/ BindFails \/ AcceptFails \/ DelayOver \/ Handshake
         \/ TypeMissing \/ RouteStream \/ RouteUnknown
         \/ \E c \in Conns : Accept(c)
  PROVE  TransportInv'
<1>. USE DEF TransportInv, NoneLeaked, QuietAfterShutdown, Ingesting, peers
<1>0. Cardinality(Ingesting) \in Nat
  BY FS_CardinalityType
<1>1. CASE NewNetTransport \/ BindFails
  <2>1. CASE NewNetTransport
    BY <1>0, <2>1 DEF NewNetTransport
  <2>2. CASE BindFails
    BY <1>0, <2>2 DEF BindFails
  <2>. QED  BY <1>1, <2>1, <2>2
<1>2. CASE AcceptFails
  BY <1>0, <1>2 DEF AcceptFails, AcceptError
<1>3. CASE DelayOver
  BY <1>3 DEF DelayOver
<1>4. CASE Handshake
  BY <1>4 DEF Handshake
<1>5. CASE TypeMissing \/ RouteUnknown
  BY <1>5 DEF TypeMissing, RouteUnknown, TypeRead, NextConn
<1>6. CASE RouteStream
  BY <1>6 DEF RouteStream, TypeRead, NextConn
<1>7. ASSUME NEW c \in Conns, Accept(c)
      PROVE  TransportInv'
  BY <1>7, ConnsAssumption DEF Accept
<1>. QED  BY <1>1, <1>2, <1>3, <1>4, <1>5, <1>6, <1>7, Zenon

(* A goroutine begins or ends, and is counted.                             *)
LEMMA IngestSteps ==
  ASSUME TransportInv, RoutePacket \/ \E c \in Conns : IngestPacket(c)
  PROVE  TransportInv'
<1>. USE DEF TransportInv, NoneLeaked, QuietAfterShutdown, peers, listener
<1>1. CASE RoutePacket
  <2>1. lpc = "type" /\ cur \in accepted /\ cur \notin Ingesting /\ cur \notin closed
    BY <1>1 DEF RoutePacket, TypeRead
  <2>2. Ingesting' = Ingesting \cup {cur}
    BY <1>1 DEF RoutePacket, Ingesting
  <2>3. IsFiniteSet(Ingesting') /\ Cardinality(Ingesting') = Cardinality(Ingesting) + 1
    BY <2>1, <2>2, FS_AddElement
  <2>4. Cardinality(Ingesting) \in Nat
    BY FS_CardinalityType
  <2>5. /\ wg' = wg + 1 /\ lpc' = "accept" /\ cur' = NoConn
        /\ UNCHANGED <<peers, errors, accepted, closed, shut, packets, streams>>
    BY <1>1 DEF RoutePacket, NextConn
  <2>. QED  BY <2>1, <2>2, <2>3, <2>4, <2>5
<1>2. ASSUME NEW c \in Conns, Copy(c)
      PROVE  TransportInv'
  <2>1. Ingesting' = Ingesting
    BY <1>2 DEF Copy, Ingesting
  <2>. QED  BY <1>2, <2>1 DEF Copy
<1>3. ASSUME NEW c \in Conns, CopyFails(c) \/ Inject(c)
      PROVE  TransportInv'
  <2>1. c \in Ingesting /\ Ingesting' = Ingesting \ {c} /\ closed' = closed \cup {c} /\ wg' = wg - 1
    BY <1>3 DEF CopyFails, Inject, IngestEnds, Ingesting
  <2>2. IsFiniteSet(Ingesting') /\ Cardinality(Ingesting') = Cardinality(Ingesting) - 1
    BY <2>1, FS_RemoveElement
  <2>3. Cardinality(Ingesting) \in Nat
    BY FS_CardinalityType
  <2>4. /\ packets' \in {packets, packets \cup {c}}
        /\ UNCHANGED <<peers, listener, shut, streams>>
    BY <1>3 DEF CopyFails, Inject
  <2>. QED  BY <2>1, <2>2, <2>3, <2>4
<1>. QED  BY <1>1, <1>2, <1>3 DEF IngestPacket

LEMMA NextTransport == TransportInv /\ [Next]_vars => TransportInv'
<1>1. ASSUME TransportInv, UNCHANGED vars PROVE TransportInv'
  BY <1>1 DEF vars, peers, listener, TransportInv, NoneLeaked, QuietAfterShutdown, Ingesting
<1>. QED  BY <1>1, OutsideSteps, ListenSteps, IngestSteps DEF Next, Listen

(* The invariant of every reachable state of the transport.                *)
THEOREM TransportInvariance == Spec => []TransportInv
BY InitTransport, NextTransport, PTL DEF Spec

(* However many peers connect, memberlist is only handed connections of    *)
(* peers whose certificate was verified.                                   *)
THEOREM OnlyVerified == Spec => []RoutedVerified
<1>1. TransportInv => RoutedVerified
  BY Zenon DEF TransportInv, RoutedVerified, CertVerifier, Attested
<1>. QED  BY <1>1, TransportInvariance, PTL

(* However many peers connect, no connection is left open.                 *)
THEOREM NoLeaks == Spec => []NoneLeaked
BY TransportInvariance, PTL DEF TransportInv

(* However many goroutines were started, none outlives Shutdown.           *)
THEOREM Quiet == Spec => []QuietAfterShutdown
BY TransportInvariance, PTL DEF TransportInv
-----------------------------------------------------------------------------
(* Bootstrap.                                                              *)
LEMMA InitBoot == BootInit => BootInv
<1>. SUFFICES ASSUME BootInit  PROVE BootInv
  OBVIOUS
<1>1. done \in BOOLEAN /\ ~done
  BY Zenon DEF BootInit
<1>2. notices = << >> /\ status = "INIT" /\ stage = "wait" /\ http = "none"
  BY DEF BootInit
<1>. QED  BY <1>1, <1>2 DEF BootInv

(* What the node does: it changes its state, ...                           *)
LEMMA NodeSteps ==
  ASSUME BootInv, (\E s \in States : SetStatus(s)) \/ WriteKey
  PROVE  BootInv'
<1>1. CASE WriteKey
  BY <1>1 DEF WriteKey, Life!WriteKey, BootInv, server
<1>2. ASSUME NEW s \in States, SetStatus(s)  PROVE BootInv'
  <2>1. /\ status # "READY" /\ status' = s /\ key' = key /\ (s = "READY" => key)
        /\ notices' = Append(notices, s) /\ UNCHANGED <<done, stage, vault, http>>
    BY <1>2 DEF SetStatus, Life!ChangeStatus, Life!Changes, server
  <2>2. /\ notices' \in Seq(States) /\ Len(notices') = Len(notices) + 1
        /\ notices'[Len(notices) + 1] = s
        /\ \A i \in 1 .. Len(notices) : notices'[i] = notices[i]
    BY <2>1 DEF BootInv
  <2>3. \A i \in 1 .. Len(notices') : notices'[i] = "READY" => s = "READY"
    BY <2>1, <2>2 DEF BootInv
  <2>. QED  BY <2>1, <2>2, <2>3 DEF BootInv
<1>. QED  BY <1>1, <1>2

(* ... and announces it.                                                   *)
LEMMA NotifyStep ==
  ASSUME BootInv, NotifyStateChange
  PROVE  BootInv'
<1>1. /\ notices # << >> /\ notices' = Tail(notices)
      /\ done' = (done \/ Head(notices) = "READY")
      /\ UNCHANGED <<status, key, stage, vault, http>>
      /\ notices \in Seq(States)
  BY DEF NotifyStateChange, OnStateChanged, node, server, BootInv
<1>2. /\ notices' \in Seq(States) /\ Len(notices') = Len(notices) - 1 /\ Len(notices) > 0
      /\ Head(notices) = notices[1]
      /\ \A i \in 1 .. Len(notices') : notices'[i] = notices[i + 1]
  BY <1>1
<1>3. done' => status = "READY"
  BY <1>1, <1>2 DEF BootInv
<1>4. \A i \in 1 .. Len(notices') : notices'[i] = "READY" => status = "READY"
  BY <1>1, <1>2 DEF BootInv
<1>5. done' \in BOOLEAN
  BY <1>1, Zenon DEF BootInv
<1>. QED  BY <1>1, <1>2, <1>3, <1>4, <1>5 DEF BootInv

(* Bootstrap.Start, the server, messages and signals.                      *)
LEMMA ProcessSteps ==
  ASSUME BootInv,
         \/ NotifyMsg \/ SendMsg \/ Loop \/ (\E g \in running : Returns(g))
         \/ Start \/ ListenAndServe \/ Interrupt \/ Terminate \/ UNCHANGED bootVars
  PROVE  BootInv'
<1>1. UNCHANGED <<status, key, notices, done>>
  BY Zenon DEF NotifyMsg, SendMsg, Loop, Returns, Start, CountedDown, StartServer, NotifyInterrupt,
         Stop, NotifySignals, Shutdown, ListenAndServe, Interrupt, Terminate, Signal, bootVars, node
<1>2. \/ UNCHANGED <<vault, http>> /\ (stage' \in {stage, "killed"}
                                       \/ stage \notin {"wait", "killed"})
      \/ CountedDown
      \/ vault' = vault /\ stage \notin {"wait", "killed"}
  BY DEF NotifyMsg, SendMsg, Loop, Returns, Start, StartServer, NotifyInterrupt, Stop, Moves, Alive,
         NotifySignals, Shutdown, ListenAndServe, Interrupt, Terminate, Signal, bootVars, server
<1>3. CASE CountedDown
  BY <1>1, <1>3 DEF CountedDown, Moves, BootInv
<1>. QED  BY <1>1, <1>2, <1>3 DEF BootInv

(* In every run of a process, whatever signals and messages come and       *)
(* however its goroutines are scheduled, ...                               *)
THEOREM BootInvariance == BootSpec => []BootInv
<1>1. BootInv /\ [BootNext]_bootVars => BootInv'
  BY NodeSteps, NotifyStep, ProcessSteps DEF BootNext
<1>. QED  BY <1>1, InitBoot, PTL DEF BootSpec

(* ... the API is served only by a node that is READY, and with a master   *)
(* key.                                                                    *)
THEOREM ServedWhenReady == BootSpec => []ServesOnlyReady
<1>1. BootInv => ServesOnlyReady
  BY DEF BootInv, ServesOnlyReady
<1>. QED  BY <1>1, BootInvariance, PTL
-----------------------------------------------------------------------------
(* The certificate lock.                                                   *)
(* LockInit establishes LockInv: nobody is in Lock.                        *)
LEMMA InitLock == LockInit => LockInv
<1> SUFFICES ASSUME LockInit PROVE LockInv
  OBVIOUS
<1>1. /\ meta \in BOOLEAN /\ ttl \in BOOLEAN
      /\ overran \in BOOLEAN /\ stranded \in BOOLEAN
  BY Zenon DEF LockInit
<1>2. crashes \in 0 .. MaxCrashes /\ failures \in 0 .. MaxFailures
  BY LimitsAssumption DEF LockInit
<1>3. /\ pc \in [Threads -> Pc] /\ data = None /\ holder = None /\ cert = None
      /\ \A t \in Threads : pc[t] \notin Critical
  BY DEF LockInit, Pc, Critical
<1> QED BY <1>1, <1>2, <1>3, Zenon DEF LockInv, CertTypeOK, Owned, Critical

(* The types of CertTypeOK are kept by every command, fault and lapse.     *)
LEMMA NextLockType == CertTypeOK /\ [LockNext]_lockVars => CertTypeOK'
<1> SUFFICES ASSUME CertTypeOK, [LockNext]_lockVars PROVE CertTypeOK'
  OBVIOUS
<1> USE LimitsAssumption DEF CertTypeOK, Pc, Critical, Goto, KeyRemoved, keyVars, historyVars
<1>1. CASE UNCHANGED lockVars
  BY <1>1 DEF lockVars
<1>2. CASE Lapse
  <2>1. overran' \in BOOLEAN
    BY <1>2, Zenon DEF Lapse
  <2> QED BY <1>2, <2>1, Zenon DEF Lapse
<1>3. ASSUME NEW t \in Threads, Step(t) PROVE CertTypeOK'
  BY <1>3, Zenon DEF Step, Manage, Acquire, Describe, SetExpiry, Check, Store,
              UnlockLoad, UnlockDelete
<1>4. ASSUME NEW t \in Threads, Cancel(t) PROVE CertTypeOK'
  BY <1>4 DEF Cancel
<1>5. ASSUME NEW t \in Threads, CommandFails(t) PROVE CertTypeOK'
  <2>1. pc' \in [Threads -> Pc] /\ failures' \in 0 .. MaxFailures /\ crashes' = crashes
    BY <1>5 DEF CommandFails
  <2>2. /\ data' \in {NodeOf[u] : u \in Threads} \cup {None}
        /\ holder' \in Threads \cup {None} /\ cert' \in Threads \cup {None}
    BY <1>5 DEF CommandFails
  <2>3. meta' \in BOOLEAN /\ ttl' \in BOOLEAN
    BY <1>5, Zenon DEF CommandFails
  <2>4. overran' \in BOOLEAN /\ stranded' \in BOOLEAN
    BY <1>5, Zenon DEF CommandFails
  <2> QED BY <2>1, <2>2, <2>3, <2>4
<1>6. ASSUME NEW t \in Threads, Crash(t) PROVE CertTypeOK'
  <2>1. stranded' \in BOOLEAN
    BY <1>6, Zenon DEF Crash
  <2> QED BY <1>6, <2>1 DEF Crash
<1> QED BY <1>1, <1>2, <1>3, <1>4, <1>5, <1>6, Zenon DEF LockNext

(* Every step keeps the key of a thread in its critical section until an   *)
(* owner overruns the TTL: HSETNX succeeds only without one, and a lapse   *)
(* or a DEL removes nobody else's.                                         *)
LEMMA NextLock == LockInv /\ [LockNext]_lockVars => LockInv'
<1> SUFFICES ASSUME LockInv, [LockNext]_lockVars PROVE LockInv'
  OBVIOUS
<1>1. CertTypeOK'
  BY NextLockType DEF LockInv
<1>2. overran => overran'
  BY Zenon DEF LockNext, lockVars, historyVars, Lapse, Step, Manage, Acquire, Describe,
       SetExpiry, Check, Store, UnlockLoad, UnlockDelete, Cancel, CommandFails, Crash
<1>3. ASSUME ~overran, ~overran', NEW u \in Threads PROVE Owned(u)'
  <2>0. \A t \in Threads : Owned(t)
    BY <1>3 DEF LockInv
  <2> USE <2>0, ThreadsAssumption DEF LockInv, CertTypeOK, Owned, Goto, KeyRemoved, keyVars
  <2>1. CASE UNCHANGED lockVars
    BY <2>1 DEF lockVars
  <2>2. CASE Lapse
    <3>1. \A t \in Threads : holder = t => pc[t] \notin Critical
      BY <1>3, <2>2, Zenon DEF Lapse
    <3> QED BY <2>2, <3>1, Zenon DEF Lapse
  <2>3. ASSUME NEW t \in Threads, Manage(t) \/ Cancel(t) \/ Crash(t) PROVE Owned(u)'
    BY <2>3, Zenon DEF Manage, Cancel, Crash, Critical
  <2>4. ASSUME NEW t \in Threads, Acquire(t) PROVE Owned(u)'
    BY <2>4 DEF Acquire, Critical
  <2>5. ASSUME NEW t \in Threads, Describe(t) \/ SetExpiry(t) PROVE Owned(u)'
    BY <2>5 DEF Describe, SetExpiry, Critical
  <2>6. ASSUME NEW t \in Threads, Check(t) \/ Store(t) \/ UnlockLoad(t)
        PROVE Owned(u)'
    BY <2>6 DEF Check, Store, UnlockLoad, Critical
  <2>7. ASSUME NEW t \in Threads, UnlockDelete(t) PROVE Owned(u)'
    BY <2>7 DEF UnlockDelete, Critical
  <2>8. ASSUME NEW t \in Threads, CommandFails(t) PROVE Owned(u)'
    BY <2>8 DEF CommandFails, Critical
  <2> QED
    BY <2>1, <2>2, <2>3, <2>4, <2>5, <2>6, <2>7, <2>8, Zenon DEF LockNext, Step
<1> QED BY <1>1, <1>2, <1>3 DEF LockInv

(* What ties the threads inside Lock and Unlock to the lock's key, for any *)
(* number of threads and nodes.                                            *)
THEOREM LockInvariance == LockSpec => []LockInv
BY InitLock, NextLock, PTL DEF LockSpec

(* Until an owner overruns its lock's TTL, Lock admits one thread at a     *)
(* time to the critical section, whatever fails or crashes between the     *)
(* commands of WriteNX and Unlock.                                         *)
THEOREM LockExcludes == LockSpec => []MutualExclusion
<1>1. LockInv => MutualExclusion
  BY DEF LockInv, Owned, MutualExclusion
<1> QED BY <1>1, InitLock, NextLock, PTL DEF LockSpec

(* Until then no thread replaces a certificate that another has stored:    *)
(* what Check found under the lock still holds at the Store.               *)
THEOREM CertificateSafe == LockSpec => CertificateKept
<1>1. LockInv /\ [LockNext]_lockVars => [cert # None => cert' = cert \/ overran]_lockVars
  <2> SUFFICES ASSUME LockInv, LockNext, cert # None, ~overran PROVE cert' = cert
    OBVIOUS
  <2>1. \A t \in Threads : pc[t] # "store"
    BY DEF LockInv, Owned
  <2> QED
    BY <2>1, Zenon DEF LockNext, Lapse, Step, Manage, Acquire, Describe, SetExpiry, Check, Store,
       UnlockLoad, UnlockDelete, Cancel, CommandFails, Crash, keyVars
<1> QED BY <1>1, InitLock, NextLock, PTL DEF LockSpec, CertificateKept
-----------------------------------------------------------------------------
LEMMA InitHeartbeat == BeatInit => HeartbeatInv
<1>. SUFFICES ASSUME BeatInit  PROVE HeartbeatInv
  OBVIOUS
<1>1. Arrived = {} /\ Queued = {} /\ Counted = {} /\ AllWindows = {}
  BY Zenon DEF BeatInit, Arrived, Queued, Counted, AllWindows
<1>2. HeartbeatTypeOK
  <2>1. ready \in BOOLEAN
    BY Zenon DEF BeatInit
  <2>2. stamp \in [Arrived -> 0 .. MaxTime]
    BY <1>1 DEF BeatInit, Arrived
  <2>. QED  BY <1>1, <2>1, <2>2, WindowAssumption DEF BeatInit, HeartbeatTypeOK
<1>. QED  BY <1>1, <1>2 DEF BeatInit, HeartbeatInv, OnePlace, WindowsApart

(* The clock, the node's state and a tick move no heartbeat.               *)
LEMMA TimeSteps ==
  ASSUME HeartbeatInv, ClockAdvances \/ NodeReady \/ Tick \/ UNCHANGED beatVars
  PROVE  HeartbeatInv'
<1>1. /\ UNCHANGED <<stamp, waiting, samples, lastRunTs, windows, reports, lost>>
      /\ HeartbeatTypeOK /\ lastRunTs <= now
      /\ runTs # NoRun => lastRunTs <= runTs /\ runTs <= now
  BY Zenon DEF HeartbeatInv, ClockAdvances, NodeReady, Tick, beatVars
<1>2. UNCHANGED <<Arrived, Queued, Counted, AllWindows>>
  BY <1>1, Zenon DEF Arrived, Queued, Counted, AllWindows
<1>3. /\ now' \in 0 .. MaxTime /\ lastRunTs <= now'
      /\ runTs' \in (0 .. MaxTime) \cup {NoRun} /\ ready' \in BOOLEAN
      /\ runTs' # NoRun => lastRunTs <= runTs' /\ runTs' <= now'
  <2>1. CASE ClockAdvances
    BY <1>1, <2>1, WindowAssumption DEF ClockAdvances, HeartbeatTypeOK
  <2>2. CASE NodeReady
    BY <1>1, <2>2 DEF NodeReady, HeartbeatTypeOK
  <2>3. CASE Tick
    BY <1>1, <2>3 DEF Tick, HeartbeatTypeOK
  <2>4. CASE UNCHANGED beatVars
    BY <1>1, <2>4 DEF beatVars, HeartbeatTypeOK
  <2>. QED  BY <2>1, <2>2, <2>3, <2>4
<1>4. HeartbeatTypeOK'
  BY <1>1, <1>2, <1>3 DEF HeartbeatTypeOK
<1>. QED  BY <1>1, <1>2, <1>3, <1>4, Zenon DEF HeartbeatInv, OnePlace, WindowsApart

(* A heartbeat arrives, ...                                                *)
LEMMA StampStep ==
  ASSUME HeartbeatInv, NEW b \in Beats, Stamp(b)
  PROVE  HeartbeatInv'
<1>1. /\ UNCHANGED <<now, ready, samples, lastRunTs, runTs, windows, reports, lost>>
      /\ waiting' = waiting \cup {b} /\ b \notin Arrived
      /\ HeartbeatTypeOK /\ OnePlace
  BY Zenon DEF HeartbeatInv, Stamp, Arrived
<1>2. /\ Arrived' = Arrived \cup {b} /\ stamp' \in [Arrived' -> 0 .. MaxTime]
      /\ \A c \in Arrived : stamp'[c] = stamp[c]
  BY <1>1 DEF Stamp, Arrived, HeartbeatTypeOK
<1>3. UNCHANGED <<Queued, Counted, AllWindows>>
  BY <1>1, Zenon DEF Queued, Counted, AllWindows
<1>4. HeartbeatTypeOK'
  BY <1>1, <1>2, <1>3 DEF HeartbeatTypeOK
<1>5. OnePlace'
  BY <1>1, <1>2, <1>3 DEF OnePlace
<1>6. Sender[b] # Self /\ Key[Sender[b]] # NoKey
  BY DEF Stamp, LocalHeartBeat
<1>7. \A w \in AllWindows : w.data \subseteq Arrived
  BY <1>1, Zenon DEF OnePlace, AllWindows, Queued, Counted
<1>8. \A w \in AllWindows : \A c, d \in w.data : stamp'[c] - stamp'[d] <= Window
  BY <1>2, <1>7, Zenon DEF HeartbeatInv
<1>. QED  BY <1>1, <1>2, <1>3, <1>4, <1>5, <1>6, <1>8, Zenon DEF HeartbeatInv, WindowsApart

(* ... and gets into samples.                                              *)
LEMMA AppendStep ==
  ASSUME HeartbeatInv, NEW b \in Beats, AppendSample(b)
  PROVE  HeartbeatInv'
<1>1. /\ UNCHANGED <<now, ready, stamp, lastRunTs, runTs, windows, reports, lost>>
      /\ b \in waiting /\ waiting' = waiting \ {b} /\ samples' = samples \cup {b}
      /\ HeartbeatTypeOK /\ OnePlace
  BY Zenon DEF HeartbeatInv, AppendSample
<1>2. UNCHANGED <<Arrived, Queued, Counted, AllWindows>>
  BY <1>1, Zenon DEF Arrived, Queued, Counted, AllWindows
<1>3. HeartbeatTypeOK'
  BY <1>1, <1>2 DEF HeartbeatTypeOK
<1>4. OnePlace'
  BY <1>1, <1>2 DEF OnePlace
<1>. QED  BY <1>1, <1>2, <1>3, <1>4, Zenon DEF HeartbeatInv, WindowsApart
-----------------------------------------------------------------------------
(* A run closes a window: what it takes from samples is in no other.       *)
LEMMA SplitStep ==
  ASSUME HeartbeatInv, Split
  PROVE  HeartbeatInv'
<1>. DEFINE batch == {b \in samples : InWindow(b)}
            late == {b \in samples : stamp[b] < lastRunTs}
            w == [data |-> batch, end |-> runTs]
<1>1. /\ UNCHANGED <<now, ready, stamp, waiting, reports>> /\ runTs # NoRun
      /\ samples' = samples \ (batch \cup late) /\ lost' = lost \cup late
      /\ windows' = windows \cup Closed(batch)
      /\ lastRunTs' = runTs /\ runTs' = NoRun
      /\ HeartbeatTypeOK /\ OnePlace /\ WindowsApart
  BY Zenon DEF HeartbeatInv, Split
<1>2. /\ lastRunTs \in 0 .. MaxTime /\ runTs \in 0 .. MaxTime /\ now \in 0 .. MaxTime
      /\ lastRunTs <= runTs /\ runTs <= now /\ Window \in Nat
  BY <1>1, WindowAssumption, Zenon DEF HeartbeatInv, HeartbeatTypeOK
<1>3. batch \cap late = {}
  <2>1. \A b \in samples : stamp[b] \in 0 .. MaxTime
    BY <1>1 DEF HeartbeatTypeOK
  <2>. QED  BY <1>2, <2>1 DEF InWindow
<1>4. \A b, c \in batch : stamp[b] - stamp[c] <= Window
  <2>1. \A b \in samples : stamp[b] \in 0 .. MaxTime
    BY <1>1 DEF HeartbeatTypeOK
  <2>. QED  BY <1>2, <2>1 DEF InWindow
<1>5. Closed(batch) = IF batch = {} THEN {} ELSE {w}
  BY DEF Closed
<1>6. Queued' = Queued \cup batch
  <2>1. CASE batch = {}
    <3>1. windows' = windows
      BY <1>1, <1>5, <2>1
    <3>. QED  BY <2>1, <3>1 DEF Queued
  <2>2. CASE batch # {}
    <3>1. windows' = windows \cup {w} /\ w.data = batch
      BY <1>1, <1>5, <2>2
    <3>. HIDE DEF w, batch
    <3>. QED  BY <3>1 DEF Queued
  <2>. QED  BY <2>1, <2>2
<1>7. UNCHANGED <<Arrived, Counted>> /\ AllWindows' = AllWindows \cup Closed(batch)
  BY <1>1, Zenon DEF Arrived, Counted, AllWindows
<1>8. HeartbeatTypeOK'
  BY <1>1, <1>2, <1>6, <1>7 DEF HeartbeatTypeOK
<1>9. OnePlace'
  BY <1>1, <1>3, <1>6, <1>7 DEF OnePlace
<1>10. \A v \in AllWindows : v.data \cap batch = {}
  BY <1>1, Zenon DEF OnePlace, AllWindows, Queued, Counted
<1>11. WindowsApart'
  <2>1. w.data = batch /\ AllWindows' \subseteq AllWindows \cup {w}
    BY <1>5, <1>7
  <2>. HIDE DEF w, batch
  <2>. QED  BY <1>1, <1>10, <2>1 DEF WindowsApart
<1>12. ASSUME NEW v \in AllWindows'
       PROVE  /\ v.data # {} /\ v.end \in 0 .. runTs
              /\ \A b, c \in v.data : stamp[b] - stamp[c] <= Window
  <2>1. CASE v \in AllWindows
    <3>1. /\ v.data # {} /\ v.end \in 0 .. lastRunTs
          /\ \A b, c \in v.data : stamp[b] - stamp[c] <= Window
      BY <2>1, Zenon DEF HeartbeatInv
    <3>2. v.end \in 0 .. runTs
      BY <1>2, <3>1
    <3>. QED  BY <3>1, <3>2, Zenon
  <2>2. CASE v = w /\ batch # {}
    BY <1>2, <1>4, <2>2
  <2>. QED  BY <1>5, <1>7, <2>1, <2>2
<1>13. ASSUME NEW r \in reports
       PROVE  r.stats = Stats(r.window.data) /\ r.from \in r.window.end .. runTs
  <2>1. /\ r.stats = Stats(r.window.data) /\ r.from \in r.window.end .. lastRunTs
        /\ r.window.end \in 0 .. lastRunTs
    BY DEF HeartbeatInv, AllWindows
  <2>. QED  BY <1>2, <2>1
<1>14. lastRunTs' <= now' /\ runTs' = NoRun
  BY <1>1, <1>2
<1>15. \A b \in Arrived' : Sender[b] # Self /\ Key[Sender[b]] # NoKey
  BY <1>7, Zenon DEF HeartbeatInv
<1>. QED  BY <1>1, <1>8, <1>9, <1>11, <1>12, <1>13, <1>14, <1>15, Zenon DEF HeartbeatInv

(* A window is counted, or skipped.                                        *)
LEMMA ProcessStep ==
  ASSUME HeartbeatInv, NEW w \in windows, ProcessWindow(w)
  PROVE  HeartbeatInv'
<1>. DEFINE rep == [from |-> lastRunTs, stats |-> Stats(w.data), window |-> w]
<1>1. /\ UNCHANGED <<now, ready, stamp, waiting, samples, lastRunTs, runTs>>
      /\ windows' = windows \ {w}
      /\ \/ reports' = reports \cup {rep} /\ lost' = lost
         \/ reports' = reports /\ lost' = lost \cup w.data
      /\ HeartbeatTypeOK /\ OnePlace /\ WindowsApart
  BY Zenon DEF HeartbeatInv, ProcessWindow, ProcessFrom
<1>2. /\ \A v \in AllWindows : v.data # {}
      /\ w \in AllWindows /\ w.end \in 0 .. lastRunTs /\ w.data \subseteq Queued
      /\ lastRunTs \in 0 .. MaxTime
  BY <1>1, Zenon DEF HeartbeatInv, HeartbeatTypeOK, AllWindows, Queued
<1>3. Queued' = Queued \ w.data
  BY <1>1, <1>2 DEF Queued, WindowsApart, AllWindows
<1>4. rep.window = w
  OBVIOUS
<1>5. Arrived' = Arrived /\ AllWindows' \subseteq AllWindows
  BY <1>1, <1>2 DEF Arrived, AllWindows
<1>6. HeartbeatTypeOK'
  BY <1>1, <1>3, <1>5, Zenon DEF HeartbeatTypeOK
<1>7. OnePlace'
  <2>1. CASE reports' = reports \cup {rep} /\ lost' = lost
    <3>. HIDE DEF rep
    <3>1. Counted' = Counted \cup w.data
      BY <1>4, <2>1 DEF Counted
    <3>. QED  BY <1>1, <1>2, <1>3, <1>5, <2>1, <3>1, Zenon DEF OnePlace
  <2>2. CASE reports' = reports /\ lost' = lost \cup w.data
    <3>1. Counted' = Counted
      BY <2>2 DEF Counted
    <3>. QED  BY <1>1, <1>2, <1>3, <1>5, <2>2, <3>1, Zenon DEF OnePlace
  <2>. QED  BY <1>1, <2>1, <2>2, Zenon
<1>8. \A r \in reports : r.window # w
  <2>1. \A r \in reports : r.window.data \subseteq Counted
    BY DEF Counted
  <2>. QED  BY <1>1, <1>2, <2>1, Zenon DEF OnePlace
<1>9. WindowsApart'
  <2>1. \A r \in reports' : r \in reports \/ r = rep
    BY <1>1, Zenon
  <2>. HIDE DEF rep
  <2>2. \A q, r \in reports' : q.window = r.window => q = r
    BY <1>1, <1>4, <1>8, <2>1, Zenon DEF WindowsApart
  <2>. QED  BY <1>1, <1>5, <2>2, Zenon DEF WindowsApart
<1>10. ASSUME NEW r \in reports'
       PROVE  r.stats = Stats(r.window.data) /\ r.from \in r.window.end .. lastRunTs
  <2>1. CASE r \in reports
    BY <2>1, Zenon DEF HeartbeatInv
  <2>2. CASE r = rep
    <3>1. r.stats = Stats(w.data) /\ r.window = w /\ r.from = lastRunTs
      BY <2>2, Zenon
    <3>2. lastRunTs \in w.end .. lastRunTs
      BY <1>2
    <3>. QED  BY <3>1, <3>2, Zenon
  <2>. QED  BY <1>1, <2>1, <2>2, Zenon
<1>. QED  BY <1>1, <1>5, <1>6, <1>7, <1>9, <1>10, Zenon DEF HeartbeatInv

LEMMA HeartbeatStep == HeartbeatInv /\ [BeatNext]_beatVars => HeartbeatInv'
BY TimeSteps, StampStep, AppendStep, SplitStep, ProcessStep DEF BeatNext
-----------------------------------------------------------------------------
(* In every run, whatever the goroutines do between taking the lock: every *)
(* heartbeat that arrived is in one place, in one window and in one report *)
(* at most.                                                                *)
THEOREM HeartbeatInvariance == BeatSpec => []HeartbeatInv
BY InitHeartbeat, HeartbeatStep, PTL DEF BeatSpec

(* Errors are reported for the peers with another master key, for all      *)
(* their heartbeats, and for no other peer, nor for this node.             *)
THEOREM ErrorsOfStrangers == BeatSpec => []ErrorsMeanOtherKey
<1>1. HeartbeatInv => ErrorsMeanOtherKey
  <2>. SUFFICES ASSUME HeartbeatInv, NEW r \in reports, NEW p \in DOMAIN r.stats
                PROVE  /\ p # Self
                       /\ r.stats[p].errors = IF Key[p] = Key[Self] THEN 0 ELSE r.stats[p].total
    BY Zenon DEF ErrorsMeanOtherKey
  <2>. DEFINE of == Of(p, r.window.data)
              bad == {b \in of : ~ValidateNonce(b)}
  <2>1. /\ r.stats = Stats(r.window.data) /\ OnePlace
        /\ \A b \in Arrived : Sender[b] # Self /\ Key[Sender[b]] # NoKey
    BY DEF HeartbeatInv
  <2>2. r.window.data \subseteq Arrived
    BY <2>1, Zenon DEF OnePlace, Counted
  <2>3. \A b \in of : p = Sender[b] /\ Key[p] # NoKey /\ (ValidateNonce(b) <=> Key[p] = Key[Self])
    <3>1. ASSUME NEW b \in of  PROVE p = Sender[b] /\ Key[p] # NoKey
      BY <2>1, <2>2, Zenon DEF Of
    <3>2. ASSUME NEW b \in of  PROVE ValidateNonce(b) <=> Key[p] = Key[Self]
      <4>. DEFINE hb == [nonce |-> b, value |-> <<Key[p], b>>]
      <4>1. LocalHeartBeat(b) = {hb}
        BY <3>1, <3>2, Zenon DEF LocalHeartBeat
      <4>2. hb.value[1] = Key[p] /\ hb.value[2] = hb.nonce
        OBVIOUS
      <4>. HIDE DEF hb
      <4>. QED  BY <4>1, <4>2, Zenon DEF ValidateNonce
    <3>. QED  BY <3>1, <3>2, Zenon
  <2>4. r.stats[p].total = Cardinality(of) /\ r.stats[p].errors = Cardinality(bad)
    <3>1. p \in {Sender[b] : b \in r.window.data}
      BY <2>1, Zenon DEF Stats
    <3>2. Stats(r.window.data)[p] = [total |-> Cardinality(of), errors |-> Cardinality(bad)]
      BY <3>1, Zenon DEF Stats
    <3>. QED  BY <2>1, <3>2
  <2>5. p # Self
    BY <2>1, <2>2, Zenon DEF Stats
  <2>6. CASE Key[p] = Key[Self]
    <3>1. bad = {}
      BY <2>3, <2>6, Zenon
    <3>. QED  BY <2>4, <2>5, <2>6, <3>1, FS_EmptySet, Zenon
  <2>7. CASE Key[p] # Key[Self]
    <3>1. bad = of
      BY <2>3, <2>7, Zenon
    <3>. QED  BY <2>4, <2>5, <2>7, <3>1, Zenon
  <2>. QED  BY <2>6, <2>7, Zenon
<1>. QED  BY <1>1, HeartbeatInvariance, PTL

(* The From of a report is never before the run that closed its window, ... *)
THEOREM FromIsLate == BeatSpec => []FromAfterClose
<1>1. HeartbeatInv => FromAfterClose
  <2>. SUFFICES ASSUME HeartbeatInv, NEW r \in reports  PROVE r.window.end <= r.from
    BY DEF FromAfterClose
  <2>1. r.window \in AllWindows
    BY DEF AllWindows
  <2>2. r.window.end \in 0 .. lastRunTs /\ r.from \in r.window.end .. lastRunTs
    BY <2>1 DEF HeartbeatInv
  <2>. QED  BY <2>2
<1>. QED  BY <1>1, HeartbeatInvariance, PTL

(* ... and its heartbeats arrived within the window's length of each other. *)
THEOREM WindowsAreShort == BeatSpec => []WindowSpan
<1>1. HeartbeatInv => WindowSpan
  BY DEF HeartbeatInv, AllWindows, WindowSpan
<1>. QED  BY <1>1, HeartbeatInvariance, PTL
-----------------------------------------------------------------------------
(* Induction over the subsets of a finite set: what the empty set is in,   *)
(* and a set with whatever is left of it without one element, the whole    *)
(* set is in.                                                              *)
LEMMA SubsetInduction ==
  ASSUME NEW S, IsFiniteSet(S), NEW T,
         \A s \in SUBSET S : (\A x \in s : s \ {x} \in T) => s \in T
  PROVE  S \in T
<1>. DEFINE Bad == (SUBSET S) \ T
<1>. SUFFICES ASSUME S \notin T  PROVE FALSE
  OBVIOUS
<1>1. Bad \subseteq FiniteSubsetsOf(S) /\ Bad # {}
  <2>1. FiniteSubsetsOf(S) = SUBSET S
    BY FS_FiniteSubsetsOfFinite, Zenon
  <2>2. S \in Bad
    OBVIOUS
  <2>. QED  BY <2>1, <2>2
<1>2. PICK s \in Bad : \A t \in Bad : <<t, s>> \notin StrictSubsetOrdering(S)
  <2>. HIDE DEF Bad
  <2>. QED  BY <1>1, FS_StrictSubsetOrderingWellFounded, WFMin, Zenon
<1>3. ASSUME NEW x \in s  PROVE s \ {x} \in T
  <2>1. s \ {x} \subseteq s /\ s \ {x} # s /\ s \ {x} \in SUBSET S
    OBVIOUS
  <2>2. <<s \ {x}, s>> \in StrictSubsetOrdering(S)
    BY <2>1 DEF StrictSubsetOrdering
  <2>. QED  BY <1>2, <2>1, <2>2, Zenon
<1>. QED  BY <1>2, <1>3, Zenon

LEMMA DisjointUnion ==
  ASSUME NEW A, IsFiniteSet(A), NEW B, IsFiniteSet(B), A \cap B = {}
  PROVE  Cardinality(A \cup B) = Cardinality(A) + Cardinality(B)
<1>1. Cardinality(A \cup B) = Cardinality(A) + Cardinality(B) - Cardinality(A \cap B)
  BY FS_Union, Zenon
<1>2. Cardinality(A \cap B) = 0
  BY FS_EmptySet, Zenon
<1>3. Cardinality(A) \in Nat /\ Cardinality(B) \in Nat
  BY FS_CardinalityType, Zenon
<1>. QED  BY <1>1, <1>2, <1>3

(* The sum in CountedOnce, and the part of it that is a report's.          *)
Total(p, r) == IF p \in DOMAIN r.stats THEN r.stats[p].total ELSE 0
SumTotals(p, R) == MapThenSumSet(LAMBDA r : Total(p, r), R)

(* A function of the subsets that grows by the total of each report is     *)
(* what MapThenSumSet computes, whatever report it takes next.             *)
Totals(p, R, g) ==
  /\ g = [s \in SUBSET R |-> g[s]] /\ g[{}] = 0
  /\ \A s \in SUBSET R : \A x \in s : g[s] = Total(p, x) + g[s \ {x}]

LEMMA SumOfTotals ==
  ASSUME NEW p, NEW R, IsFiniteSet(R), NEW g, Totals(p, R, g)
  PROVE  SumTotals(p, R) = g[R]
<1>. DEFINE Next1(s) == CHOOSE x \in s : TRUE
            F(f) == [s \in SUBSET R |->
                       IF s = {} THEN 0 ELSE Total(p, Next1(s)) + f[s \ {Next1(s)}]]
            iter == CHOOSE f : f = F(f)
<1>1. SumTotals(p, R) = iter[R]
  BY Zenon DEF SumTotals, MapThenSumSet, MapThenFoldSet
<1>2. \A s : s # {} => Next1(s) \in s
  BY Zenon
<1>3. g = F(g)
  <2>. HIDE DEF Next1
  <2>1. ASSUME NEW s \in SUBSET R
        PROVE  g[s] = IF s = {} THEN 0 ELSE Total(p, Next1(s)) + g[s \ {Next1(s)}]
    BY <1>2, <2>1, Zenon DEF Totals
  <2>2. g = [s \in SUBSET R |-> g[s]]
    BY Zenon DEF Totals
  <2>. QED  BY <2>1, <2>2, Zenon
<1>4. iter = F(iter)
  <2>. HIDE DEF F
  <2>. QED  BY <1>3, Zenon
<1>5. \A s \in SUBSET R :
        iter[s] = IF s = {} THEN 0 ELSE Total(p, Next1(s)) + iter[s \ {Next1(s)}]
  <2>. DEFINE it == iter
  <2>1. it = F(it)
    BY <1>4, Zenon
  <2>. HIDE DEF it
  <2>2. \A s \in SUBSET R : it[s] = IF s = {} THEN 0 ELSE Total(p, Next1(s)) + it[s \ {Next1(s)}]
    BY <2>1, Zenon
  <2>. QED  BY <2>2, Zenon DEF it
<1>. HIDE DEF iter, Next1
<1>. DEFINE Same == {s \in SUBSET R : iter[s] = g[s]}
<1>6. ASSUME NEW s \in SUBSET R, \A x \in s : s \ {x} \in Same
      PROVE  s \in Same
  <2>1. CASE s = {}
    BY <1>5, <2>1, Zenon DEF Totals
  <2>2. CASE s # {}
    <3>1. Next1(s) \in s /\ iter[s \ {Next1(s)}] = g[s \ {Next1(s)}]
      BY <1>2, <1>6, <2>2, Zenon
    <3>2. iter[s] = Total(p, Next1(s)) + g[s \ {Next1(s)}]
      BY <1>5, <2>2, <3>1, Zenon
    <3>. QED  BY <3>1, <3>2, Zenon DEF Totals
  <2>. QED  BY <2>1, <2>2
<1>7. R \in Same
  <2>. HIDE DEF Same
  <2>. QED  BY <1>6, SubsetInduction, Zenon
<1>. QED  BY <1>1, <1>7, Zenon

(* Only finitely many heartbeats have arrived and windows were reported.   *)
FinitelyMany == IsFiniteSet(Arrived) /\ IsFiniteSet(reports)

LEMMA StaysFinite ==
  ASSUME FinitelyMany, [BeatNext]_beatVars
  PROVE  FinitelyMany'
<1>1. /\ stamp' = stamp \/ \E b \in Beats : Stamp(b)
      /\ reports' = reports \/ \E w \in windows : ProcessWindow(w)
  BY Zenon DEF BeatNext, ClockAdvances, NodeReady, Tick, Split, Stamp, AppendSample, ProcessWindow,
               ProcessFrom, beatVars
<1>2. IsFiniteSet(Arrived')
  <2>1. CASE stamp' = stamp
    BY <2>1 DEF FinitelyMany, Arrived
  <2>2. ASSUME NEW b \in Beats, Stamp(b)
        PROVE  IsFiniteSet(Arrived')
    <3>1. Arrived' = Arrived \cup {b}
      BY <2>2 DEF Stamp, Arrived
    <3>. QED  BY <3>1, FS_AddElement, Zenon DEF FinitelyMany
  <2>. QED  BY <1>1, <2>1, <2>2, Zenon
<1>3. IsFiniteSet(reports')
  <2>1. ASSUME NEW w \in windows, ProcessWindow(w)
        PROVE  IsFiniteSet(reports')
    BY <2>1, FS_AddElement, Zenon DEF ProcessWindow, ProcessFrom, FinitelyMany
  <2>. QED  BY <1>1, <2>1, Zenon DEF FinitelyMany
<1>. QED  BY <1>2, <1>3, Zenon DEF FinitelyMany

(* The heartbeats of p in a set of reports.                                *)
Reported(p, t) == Of(p, UNION {r.window.data : r \in t})

(* Without a report they are fewer by those of its window.                 *)
LEMMA ReportsApart ==
  ASSUME HeartbeatInv, FinitelyMany, NEW p, NEW s \in SUBSET reports, NEW x \in s
  PROVE  Cardinality(Reported(p, s)) = Total(p, x) + Cardinality(Reported(p, s \ {x}))
<1>. DEFINE mine == Of(p, x.window.data)
<1>1. /\ OnePlace /\ WindowsApart /\ x.stats = Stats(x.window.data)
      /\ IsFiniteSet(Arrived)
  BY Zenon DEF HeartbeatInv, FinitelyMany
<1>2. Reported(p, s) = mine \cup Reported(p, s \ {x})
  BY DEF Of, Reported
<1>3. mine \cap Reported(p, s \ {x}) = {}
  <2>1. ASSUME NEW r \in s \ {x}  PROVE r.window.data \cap x.window.data = {}
    <3>1. r.window # x.window /\ r.window \in AllWindows /\ x.window \in AllWindows
      BY <1>1, <2>1, Zenon DEF WindowsApart, AllWindows
    <3>. QED  BY <1>1, <3>1, Zenon DEF WindowsApart
  <2>. QED  BY <2>1, Zenon DEF Of, Reported
<1>4. IsFiniteSet(mine) /\ IsFiniteSet(Reported(p, s \ {x}))
  <2>1. \A r \in reports : r.window.data \subseteq Arrived
    <3>1. Counted \subseteq Arrived
      BY <1>1, Zenon DEF OnePlace
    <3>. QED  BY <3>1, Zenon DEF Counted
  <2>2. mine \subseteq Arrived /\ Reported(p, s \ {x}) \subseteq Arrived
    BY <2>1 DEF Of, Reported
  <2>. QED  BY <1>1, <2>2, FS_Subset, Zenon
<1>5. Total(p, x) = Cardinality(mine)
  <2>1. DOMAIN x.stats = {Sender[b] : b \in x.window.data}
    BY <1>1 DEF Stats
  <2>2. CASE p \in DOMAIN x.stats
    BY <1>1, <2>1, <2>2 DEF Stats, Total
  <2>3. CASE p \notin DOMAIN x.stats
    <3>1. mine = {}
      BY <2>1, <2>3, Zenon DEF Of
    <3>. QED  BY <2>3, <3>1, FS_EmptySet, Zenon DEF Total
  <2>. QED  BY <2>2, <2>3
<1>. HIDE DEF mine
<1>6. Cardinality(Reported(p, s)) = Cardinality(mine) + Cardinality(Reported(p, s \ {x}))
  BY <1>2, <1>3, <1>4, DisjointUnion, Zenon
<1>. QED  BY <1>5, <1>6, Zenon

(* The totals reported for a peer add up to its heartbeats in reports.     *)
LEMMA TotalsAddUp ==
  ASSUME HeartbeatInv, FinitelyMany, NEW p
  PROVE  SumTotals(p, reports) = Cardinality(Of(p, Counted))
<1>. DEFINE g == [s \in SUBSET reports |-> Cardinality(Reported(p, s))]
<1>1. g[{}] = 0
  <2>1. Reported(p, {}) = {}
    BY Zenon DEF Of, Reported
  <2>. QED  BY <2>1, FS_EmptySet, Zenon
<1>2. \A s \in SUBSET reports : \A x \in s : g[s] = Total(p, x) + g[s \ {x}]
  <2>. SUFFICES ASSUME NEW s \in SUBSET reports, NEW x \in s
                PROVE  g[s] = Total(p, x) + g[s \ {x}]
    BY Zenon
  <2>1. Cardinality(Reported(p, s)) = Total(p, x) + Cardinality(Reported(p, s \ {x}))
    BY ReportsApart
  <2>2. s \ {x} \in SUBSET reports
    BY Zenon
  <2>. QED  BY <2>1, <2>2, Zenon
<1>3. g = [s \in SUBSET reports |-> g[s]]
  OBVIOUS
<1>4. g[reports] = Cardinality(Of(p, Counted))
  BY Zenon DEF Counted, Reported
<1>. HIDE DEF g
<1>5. Totals(p, reports, g)
  BY <1>1, <1>2, <1>3, Zenon DEF Totals
<1>6. SumTotals(p, reports) = g[reports]
  BY <1>5, SumOfTotals, Zenon DEF FinitelyMany
<1>. QED  BY <1>4, <1>6, Zenon

(* The totals reported for a peer, and its heartbeats that wait or were    *)
(* dropped, add up to those that arrived, whatever the ticker, the         *)
(* goroutines of processWindow and the arrivals do.                        *)
THEOREM CountsAddUp == BeatSpec => []CountedOnce
<1>1. BeatInit => FinitelyMany
  <2>. SUFFICES ASSUME BeatInit  PROVE Arrived = {} /\ reports = {}
    BY FS_EmptySet, Zenon DEF FinitelyMany
  <2>. QED  BY Zenon DEF BeatInit, Arrived
<1>2. HeartbeatInv /\ FinitelyMany => CountedOnce
  <2>. SUFFICES ASSUME HeartbeatInv, FinitelyMany, NEW p \in DOMAIN Key
                PROVE  SumTotals(p, reports)
                         + Cardinality(Of(p, waiting \cup samples \cup Queued \cup lost))
                       = Cardinality(Of(p, Arrived))
    BY Zenon DEF CountedOnce, SumTotals, Total, MapThenSumSet, MapThenFoldSet
  <2>. DEFINE A == Of(p, Counted)
              B == Of(p, waiting \cup samples \cup Queued \cup lost)
  <2>1. OnePlace /\ IsFiniteSet(Arrived)
    BY Zenon DEF HeartbeatInv, FinitelyMany
  <2>2. Of(p, Arrived) = A \cup B /\ A \cap B = {}
    BY <2>1 DEF Of, OnePlace
  <2>3. IsFiniteSet(A) /\ IsFiniteSet(B)
    <3>1. A \subseteq Arrived /\ B \subseteq Arrived
      BY <2>1 DEF Of, OnePlace
    <3>. QED  BY <2>1, <3>1, FS_Subset, Zenon
  <2>. HIDE DEF A, B
  <2>4. Cardinality(A \cup B) = Cardinality(A) + Cardinality(B)
    BY <2>2, <2>3, DisjointUnion, Zenon
  <2>5. SumTotals(p, reports) = Cardinality(A)
    BY TotalsAddUp, Zenon DEF A
  <2>. QED  BY <2>2, <2>4, <2>5, Zenon DEF B
<1>. QED  BY <1>1, <1>2, StaysFinite, HeartbeatInvariance, PTL DEF BeatSpec
=============================================================================
