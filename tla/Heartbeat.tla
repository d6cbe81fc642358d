------------------------------ MODULE Heartbeat ------------------------------
(***************************************************************************)
(* heartbeat.go: READY nodes put a nonce and its sealed form into the      *)
(* state they push to their peers.  Heartbeats are stamped on arrival,     *)
(* collected under a lock, split into windows by a ticker and counted per  *)
(* peer by a goroutine per window.                                         *)
(***************************************************************************)
EXTENDS Naturals, FiniteSetsExt

CONSTANTS
  Beats,       \* push/pulls in which a remote state may arrive
  Sender,      \* the node whose state it is
  Self,        \* this node; Join may reach it under its own address
  Key,         \* the master key of each READY node, NoKey of the others
  NoKey,
  Window,      \* HeartBeatManager.window: the longest span of a window
  MaxTime,     \* the clock stops here
  NoRun        \* the ticker's goroutine is waiting

ASSUME WindowAssumption == Window \in Nat /\ MaxTime \in Nat /\ NoRun \notin 0 .. MaxTime
ASSUME PeerAssumption == \A b \in Beats : Sender[b] \in DOMAIN Key

VARIABLES
  now,         \* time.Now().Unix()
  ready,       \* is the node READY?
  stamp,       \* OnRemoteHeartBeat's time.Now() of each heartbeat that arrived
  waiting,     \* stamped, and its goroutine about to take the lock
  samples,     \* HeartBeatManager.samples
  lastRunTs,
  runTs,       \* the time the ticker's goroutine has read, or NoRun
  windows,     \* processWindow goroutines that have not run: their data,
               \* and (history) the time of the run that started them
  reports,     \* what OnHeartBeatWindow was given, and (history) its window
  lost         \* history: samples that were dropped or skipped

beatVars == <<now, ready, stamp, waiting, samples, lastRunTs, runTs, windows, reports, lost>>

BeatInit ==
  /\ now = 0 /\ lastRunTs = 0 /\ runTs = NoRun
  /\ ready = FALSE
  /\ stamp = [b \in {} |-> 0]
  /\ waiting = {} /\ samples = {} /\ windows = {} /\ reports = {} /\ lost = {}

ClockAdvances ==
  /\ now < MaxTime
  /\ now' = now + 1
  /\ UNCHANGED <<ready, stamp, waiting, samples, lastRunTs, runTs, windows, reports, lost>>

NodeReady ==
  /\ ~ready /\ ready' = TRUE
  /\ UNCHANGED <<now, stamp, waiting, samples, lastRunTs, runTs, windows, reports, lost>>

(* NodeStatus of the peer: a heartbeat comes only from a READY node.       *)
LocalHeartBeat(b) ==
  IF Key[Sender[b]] = NoKey THEN {} ELSE {[nonce |-> b, value |-> <<Key[Sender[b]], b>>]}

(* The value is unsealed with this node's key and compared to the nonce.   *)
ValidateNonce(b) ==
  \A hb \in LocalHeartBeat(b) : hb.value[1] = Key[Self] /\ hb.value[2] = hb.nonce

(* MergeRemoteState passes on the heartbeat of another node, and           *)
(* OnRemoteHeartBeat reads the clock before it takes the lock.             *)
Stamp(b) ==
  /\ b \notin DOMAIN stamp
  /\ Sender[b] # Self /\ LocalHeartBeat(b) # {}
  /\ stamp' = [c \in DOMAIN stamp \cup {b} |-> IF c = b THEN now ELSE stamp[c]]
  /\ waiting' = waiting \cup {b}
  /\ UNCHANGED <<now, ready, samples, lastRunTs, runTs, windows, reports, lost>>

AppendSample(b) ==
  /\ b \in waiting
  /\ waiting' = waiting \ {b}
  /\ samples' = samples \cup {b}
  /\ UNCHANGED <<now, ready, stamp, lastRunTs, runTs, windows, reports, lost>>
-----------------------------------------------------------------------------
(* Start: a tick, and the clock is read ...                                *)
Tick ==
  /\ runTs = NoRun
  /\ runTs' = now
  /\ UNCHANGED <<now, ready, stamp, waiting, samples, lastRunTs, windows, reports, lost>>

(* Mutant: no upper bound.                                                 *)
InWindowUnbounded(b) == lastRunTs <= stamp[b]

InWindow(b) == lastRunTs <= stamp[b] /\ stamp[b] - lastRunTs <= Window

(* The window a run closes.  One without data is left out: it reports      *)
(* nothing.                                                                *)
Closed(data) == {[data |-> d, end |-> runTs] : d \in {data} \ {{}}}

(* Mutants: samples that were handed to processWindow stay; late samples   *)
(* stay; the next window begins where this one was due to end.             *)
SplitInto(kept, next) ==
  LET data == {b \in samples : InWindow(b)}
      late == {b \in samples : stamp[b] < lastRunTs}
  IN /\ runTs # NoRun
     /\ samples' = kept
     /\ lost' = lost \cup (late \ kept)
     /\ windows' = windows \cup Closed(data)
     /\ lastRunTs' = next /\ runTs' = NoRun
     /\ UNCHANGED <<now, ready, stamp, waiting, reports>>
SplitKeepsData == SplitInto({b \in samples : stamp[b] >= lastRunTs}, runTs)
SplitKeepsLate == SplitInto({b \in samples : ~InWindow(b)}, runTs)
SplitByWindow ==
  SplitInto({b \in samples : stamp[b] > lastRunTs + Window}, lastRunTs + Window)

(* ... and, under the lock, what came in is split: into the data of this   *)
(* window, what came before the last run (dropped) and what is too late    *)
(* for the window (kept for the next run).                                 *)
Split ==
  LET data == {b \in samples : InWindow(b)}
      late == {b \in samples : stamp[b] < lastRunTs}
  IN /\ runTs # NoRun
     /\ samples' = samples \ (data \cup late)
     /\ lost' = lost \cup late
     /\ windows' = windows \cup Closed(data)
     /\ lastRunTs' = runTs /\ runTs' = NoRun
     /\ UNCHANGED <<now, ready, stamp, waiting, reports>>

Of(p, data) == {b \in data : Sender[b] = p}

(* Mutant: the first heartbeat of a peer is never an error.                *)
StatsFirstValid(data) ==
  [p \in {Sender[b] : b \in data} |->
     [total |-> Cardinality(Of(p, data)),
      errors |-> LET bad == Cardinality({b \in Of(p, data) : ~ValidateNonce(b)})
                 IN IF bad = 0 THEN 0 ELSE bad - 1]]

Stats(data) ==
  [p \in {Sender[b] : b \in data} |->
     [total |-> Cardinality(Of(p, data)),
      errors |-> Cardinality({b \in Of(p, data) : ~ValidateNonce(b)})]]

(* Mutant: From is when the first heartbeat of the window came.            *)
ProcessFrom(w, from) ==
  /\ w \in windows
  /\ windows' = windows \ {w}
  /\ IF ready
     THEN /\ reports' = reports \cup {[from |-> from, stats |-> Stats(w.data), window |-> w]}
          /\ UNCHANGED lost
     ELSE lost' = lost \cup w.data /\ UNCHANGED reports
  /\ UNCHANGED <<now, ready, stamp, waiting, samples, lastRunTs, runTs>>
ProcessFromFirst(w) == ProcessFrom(w, Min({stamp[b] : b \in w.data}))

(* processWindow reads lastRunTs without the lock, when other runs may     *)
(* have moved it, and skips the window when the node is not READY.         *)
ProcessWindow(w) == ProcessFrom(w, lastRunTs)

BeatNext ==
  \/ ClockAdvances \/ NodeReady \/ Tick \/ Split
  \/ \E b \in Beats : Stamp(b) \/ AppendSample(b)
  \/ \E w \in windows : ProcessWindow(w)

BeatSpec == BeatInit /\ [][BeatNext]_beatVars

(* The ticker keeps ticking and every goroutine is scheduled: there are    *)
(* finitely many of them, so each has its turn.                            *)
BeatLiveSpec ==
  /\ BeatSpec
  /\ WF_beatVars(Tick) /\ WF_beatVars(Split)
  /\ WF_beatVars(\E b \in Beats : AppendSample(b))
  /\ WF_beatVars(\E w \in windows : ProcessWindow(w))
-----------------------------------------------------------------------------
Arrived == DOMAIN stamp
Counted == UNION {r.window.data : r \in reports}
Queued == UNION {w.data : w \in windows}

HeartbeatTypeOK ==
  /\ now \in 0 .. MaxTime /\ lastRunTs \in 0 .. MaxTime
  /\ runTs \in (0 .. MaxTime) \cup {NoRun}
  /\ ready \in BOOLEAN
  /\ Arrived \subseteq Beats /\ stamp \in [Arrived -> 0 .. MaxTime]
  /\ waiting \subseteq Arrived /\ samples \subseteq Arrived
  /\ Queued \subseteq Arrived

(* The totals reported for a peer, and its heartbeats that wait or were    *)
(* dropped, add up to those that arrived: none is counted in two windows,  *)
(* or counted and dropped, whatever the ticker, the goroutines of          *)
(* processWindow and the arrivals do between taking the lock.              *)
CountedOnce ==
  \A p \in DOMAIN Key :
    LET total(r) == IF p \in DOMAIN r.stats THEN r.stats[p].total ELSE 0
        pending == waiting \cup samples \cup Queued \cup lost
    IN MapThenSumSet(total, reports) + Cardinality(Of(p, pending))
         = Cardinality(Of(p, Arrived))

(* Errors are reported for the peers with another master key, for all      *)
(* their heartbeats, and for no other peer ("mismatches indicate           *)
(* split-brain"); this node never reports itself.                          *)
ErrorsMeanOtherKey ==
  \A r \in reports : \A p \in DOMAIN r.stats :
    /\ p # Self
    /\ r.stats[p].errors = IF Key[p] = Key[Self] THEN 0 ELSE r.stats[p].total

(* From is not when a window begins: it is never before the run that       *)
(* closed the window, since lastRunTs has been moved by the time           *)
(* processWindow reads it.                                                 *)
FromAfterClose == \A r \in reports : r.window.end <= r.from

(* The heartbeats of one window arrived within the window's length of each *)
(* other, however late the ticker is.                                      *)
WindowSpan ==
  \A r \in reports : \A b, c \in r.window.data : stamp[b] - stamp[c] <= Window

(* A heartbeat that arrived is in the end counted or dropped: none stays   *)
(* in samples for ever.                                                    *)
Accounted == \A b \in Beats : b \in Arrived ~> b \in Counted \cup lost
-----------------------------------------------------------------------------
(* Every heartbeat that arrived is in one place: its goroutine, samples, a *)
(* window that waits for processWindow, a report, or nowhere any more.     *)
OnePlace ==
  /\ Arrived = waiting \cup samples \cup Queued \cup Counted \cup lost
  /\ waiting \cap (samples \cup Queued \cup Counted \cup lost) = {}
  /\ samples \cap (Queued \cup Counted \cup lost) = {}
  /\ Queued \cap (Counted \cup lost) = {}
  /\ Counted \cap lost = {}

(* Windows share no heartbeat, and each is reported once.                  *)
AllWindows == windows \cup {r.window : r \in reports}

WindowsApart ==
  /\ \A v, w \in AllWindows : v = w \/ v.data \cap w.data = {}
  /\ \A q, r \in reports : q.window = r.window => q = r

(* What every step preserves; the times of the runs, in the order in which *)
(* the ticker's goroutine and processWindow read and move them.            *)
HeartbeatInv ==
  /\ HeartbeatTypeOK /\ OnePlace /\ WindowsApart
  /\ lastRunTs <= now /\ (runTs # NoRun => lastRunTs <= runTs /\ runTs <= now)
  /\ \A b \in Arrived : Sender[b] # Self /\ Key[Sender[b]] # NoKey
  /\ \A w \in AllWindows :
       /\ w.data # {} /\ w.end \in 0 .. lastRunTs
       /\ \A b, c \in w.data : stamp[b] - stamp[c] <= Window
  /\ \A r \in reports :
       r.stats = Stats(r.window.data) /\ r.from \in r.window.end .. lastRunTs
=============================================================================
