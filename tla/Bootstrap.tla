------------------------------ MODULE Bootstrap ------------------------------
(***************************************************************************)
(* The life of one process: bootstrap.go starts the node, serves the API   *)
(* once the node is READY, and takes both down when signals tell it to.    *)
(* How the node gets READY is the subject of Cluster; what the server does *)
(* with requests that of KeyServer.                                        *)
(***************************************************************************)
EXTENDS Naturals, Sequences

CONSTANTS
  MaxSignals,  \* bound on the signals sent to the process
  MaxMessages  \* bound on the messages of peers

ASSUME BootAssumption == MaxSignals \in Nat /\ MaxMessages \in Nat

VARIABLES
  status,      \* NodeState.state
  key,         \* is there a sealed master key file?
  notices,     \* Node.stateChangeMessages
  done,        \* NodeStateListener.done: the countdown is over
  stage,       \* where Bootstrap.Start is; "killed": the process is gone
  vault,       \* the key NewKeyServer was given is not nil
  http,        \* http.Server
  stop,        \* signals in the channel of KeyServer.Start (capacity 1)
  signalCh,    \* signals in the channel of Bootstrap.Start (capacity 1)
  signals,     \* signals sent so far
  parsed,      \* NotifyMsg calls about to send to inMessages
  inMessages,  \* messages in Node.inMessages
  received,    \* messages received so far
  running      \* goroutines of the node that have not returned

node == <<status, key>>
server == <<vault, http>>
channels == <<stop, signalCh, signals>>
messages == <<parsed, inMessages, received>>
bootVars == <<node, notices, done, stage, server, channels, messages, running>>

BootInit ==
  /\ status = "INIT" /\ key \in BOOLEAN
  /\ notices = <<>> /\ done = FALSE
  /\ stage = "wait"
  /\ vault = FALSE /\ http = "none"
  /\ stop = 0 /\ signalCh = 0 /\ signals = 0
  /\ parsed = 0 /\ inMessages = 0 /\ received = 0
  /\ running = {"loop", "notifier", "heartbeat"}

Alive == stage # "killed"

(* memberlist is shut down first, and the channels are closed one by one   *)
(* after it.                                                               *)
ListShutdown == stage \in {"left", "inbox_closed", "closed", "down"}
InboxClosed == stage \in {"inbox_closed", "closed", "down"}

(* Mutant: the channel of the state changes is not closed.                 *)
NeverClosed == FALSE

NoticesClosed == stage \in {"closed", "down"}
-----------------------------------------------------------------------------
(* The node keeps to NodeLife, as those of Cluster do.                     *)
Life == INSTANCE NodeLife

(* Mutant: READY is set and not sent (three handlers do both by hand).     *)
SetReadySilently(s) ==
  /\ Alive /\ Life!ChangeStatus(s)
  /\ notices' = IF s = "READY" THEN notices ELSE Append(notices, s)
  /\ UNCHANGED <<done, stage, server, channels, messages, running>>

(* setStatus, and what its callers send to the notifier.                   *)
SetStatus(s) ==
  /\ Alive /\ Life!ChangeStatus(s)
  /\ notices' = Append(notices, s)
  /\ UNCHANGED <<done, stage, server, channels, messages, running>>

WriteKey ==
  /\ Alive /\ Life!WriteKey /\ UNCHANGED status
  /\ UNCHANGED <<notices, done, stage, server, channels, messages, running>>

(* Mutant: any state ends the countdown.                                   *)
AnyState(s) == TRUE

(* NodeStateListener.OnStateChanged ends the countdown.                    *)
OnStateChanged(s) == s = "READY"

(* The listener is told first; UpdateNode is memberlist's.                 *)
NotifyStateChange ==
  /\ Alive /\ notices # <<>>
  /\ notices' = Tail(notices)
  /\ done' = (done \/ OnStateChanged(Head(notices)))
  /\ UNCHANGED <<node, stage, server, channels, messages, running>>
-----------------------------------------------------------------------------
(* Messages of peers: NotifyMsg runs on memberlist's goroutines, which     *)
(* Shutdown does not wait for; its send to a closed channel panics.        *)
NotifyMsg ==
  /\ Alive /\ ~ListShutdown /\ received < MaxMessages
  /\ received' = received + 1
  /\ parsed' = parsed + 1
  /\ UNCHANGED <<node, notices, done, stage, server, channels, inMessages, running>>

SendMsg ==
  /\ Alive /\ parsed > 0
  /\ parsed' = parsed - 1
  /\ IF InboxClosed
     THEN stage' = "killed" /\ UNCHANGED inMessages
     ELSE inMessages' = inMessages + 1 /\ UNCHANGED stage
  /\ UNCHANGED <<node, notices, done, server, channels, received, running>>

(* loop: what the handlers do is in Cluster.                               *)
Loop ==
  /\ Alive /\ inMessages > 0
  /\ inMessages' = inMessages - 1
  /\ UNCHANGED <<node, notices, done, stage, server, channels, parsed, received, running>>

(* A goroutine returns when its channel is closed and drained.             *)
Returns(g) ==
  /\ Alive /\ g \in running
  /\ \/ g = "loop" /\ InboxClosed /\ inMessages = 0
     \/ g = "notifier" /\ NoticesClosed /\ notices = <<>>
  /\ running' = running \ {g}
  /\ UNCHANGED <<node, notices, done, stage, server, channels, messages>>
-----------------------------------------------------------------------------
Moves(from, to) == stage = from /\ stage' = to

(* Bootstrap.Start: countdown.Wait, then NewKeyServer with the key on disk.*)
CountedDown ==
  /\ done /\ Moves("wait", "build")
  /\ vault' = key
  /\ UNCHANGED <<node, notices, done, http, channels, messages, running>>

(* KeyServer.Start: the goroutine that listens is started, ...             *)
StartServer ==
  /\ Moves("build", "start")
  /\ UNCHANGED <<node, notices, done, server, channels, messages, running>>

ListenAndServe ==
  /\ Alive /\ stage \notin {"wait", "build"} /\ http = "none"
  /\ http' \in {"up", "failed"}
  /\ UNCHANGED <<node, notices, done, stage, vault, channels, messages, running>>

(* ... SIGINT is directed to stop, ...                                     *)
NotifyInterrupt ==
  /\ Moves("start", "serve")
  /\ UNCHANGED <<node, notices, done, server, channels, messages, running>>

(* ... and the first one stops the server.                                 *)
Stop ==
  /\ stop = 1 /\ Moves("serve", "stopping")
  /\ stop' = 0
  /\ http' = "closed"
  /\ UNCHANGED <<node, notices, done, vault, signalCh, signals, messages, running>>

(* Back in Bootstrap.Start, SIGINT and SIGTERM are directed to signalCh.   *)
NotifySignals ==
  /\ Moves("stopping", "await")
  /\ UNCHANGED <<node, notices, done, server, channels, messages, running>>

(* Node.Shutdown: memberlist, the two channels, the heartbeat goroutine.   *)
Shutdown ==
  \/ /\ signalCh = 1 /\ Moves("await", "left")
     /\ signalCh' = 0
     /\ UNCHANGED <<node, notices, done, server, stop, signals, messages, running>>
  \/ /\ Moves("left", "inbox_closed") \/ Moves("inbox_closed", "closed")
     /\ UNCHANGED <<node, notices, done, server, channels, messages, running>>
  \/ /\ Moves("closed", "down")
     /\ running' = running \ {"heartbeat"}
     /\ UNCHANGED <<node, notices, done, server, channels, messages>>
-----------------------------------------------------------------------------
StopNotified == stage \notin {"wait", "build", "start"}
SignalsNotified == StopNotified /\ stage \notin {"serve", "stopping"}

(* A signal goes to every channel it is directed to, unless that is full;  *)
(* directed to none, it ends the process.                                  *)
Signal(directed) ==
  /\ Alive /\ signals < MaxSignals
  /\ signals' = signals + 1
  /\ stage' = IF directed THEN stage ELSE "killed"
  /\ signalCh' = IF SignalsNotified THEN 1 ELSE signalCh
  /\ UNCHANGED <<node, notices, done, server, messages, running>>

Interrupt == Signal(StopNotified) /\ stop' = IF StopNotified THEN 1 ELSE stop
Terminate == Signal(SignalsNotified) /\ UNCHANGED stop

Start ==
  \/ CountedDown \/ StartServer \/ NotifyInterrupt
  \/ Stop \/ NotifySignals \/ Shutdown

States == {"VALIDATING", "NO_KEY", "SEEDING", "QUERY_KEY", "READY"}

BootNext ==
  \/ \E s \in States : SetStatus(s)
  \/ WriteKey \/ NotifyStateChange
  \/ NotifyMsg \/ SendMsg \/ Loop
  \/ \E g \in running : Returns(g)
  \/ Start \/ ListenAndServe
  \/ Interrupt \/ Terminate

BootSpec == BootInit /\ [][BootNext]_bootVars

(* Every goroutine is scheduled.  Nothing is assumed of the node getting   *)
(* READY, of peers, or of signals.                                         *)
BootLiveSpec ==
  /\ BootSpec
  /\ WF_bootVars(NotifyStateChange) /\ WF_bootVars(Loop) /\ WF_bootVars(SendMsg)
  /\ WF_bootVars(Start) /\ WF_bootVars(ListenAndServe)
  /\ \A g \in {"loop", "notifier"} : WF_bootVars(Returns(g))
-----------------------------------------------------------------------------
(* The API is served only by a node that is READY, and with a master key   *)
(* that is not nil: Bootstrap.Start reads the key after a countdown that   *)
(* another goroutine ends on a message sent before.                        *)
ServesOnlyReady == http = "up" => status = "READY" /\ vault

(* A node that is READY gets to listen (which may fail), unless the        *)
(* process is killed first: the one notice that counts is not missed.      *)
ReadyServes == status = "READY" ~> (http # "none" \/ ~Alive)

(* Once Node.Shutdown has begun, it comes to its end and the goroutines of *)
(* the node return, with every message in the channels handled, unless     *)
(* the process is killed (by the panic of SendMsg).                        *)
ShutdownEnds ==
  stage = "left" ~> (~Alive \/ (stage = "down" /\ running = {} /\ inMessages = 0))
-----------------------------------------------------------------------------
(* What every step preserves: READY stays and comes with the key; it is    *)
(* announced, and the countdown ended, only after it was set; and the      *)
(* vault is built after that.                                              *)
BootInv ==
  /\ status \in States \cup {"INIT"} /\ notices \in Seq(States) /\ done \in BOOLEAN
  /\ status = "READY" => key
  /\ done \/ (\E i \in 1 .. Len(notices) : notices[i] = "READY") => status = "READY"
  /\ stage \notin {"wait", "killed"} \/ http # "none" => status = "READY" /\ vault
=============================================================================
